---------------------------- MODULE AtomicImport ----------------------------
(***************************************************************************)
(* What the data transfer promises its user: an import happens in one step *)
(* or not at all, only after the user agreed to the preview on the screen, *)
(* once, and only while the dates and settings it overwrites are still     *)
(* what that preview was made from.                                        *)
(***************************************************************************)
EXTENDS Functions

CONSTANTS
  Dates, Contents,
  NoRow,       \* the date has no entry
  Values,      \* what the portable settings can be
  NoSettings,  \* of a file that carries none
  Files        \* importable files: entries by date, and settings or NoSettings

VARIABLES
  rows,      \* the journal; an entry stands for its text and times
  settings,  \* the portable settings
  offered,   \* the previews on the screen: none or one
  agreed     \* the previews the user has agreed to

vars == <<rows, settings, offered, agreed>>

-----------------------------------------------------------------------------
\* What an import of file f would overwrite.
Overwritten(f, r, s) ==
  [rows |-> Restrict(r, DOMAIN f.entries),
   settings |-> IF f.settings = NoSettings THEN NoSettings ELSE s]

Imported(f, r) == [d \in Dates |-> IF d \in DOMAIN f.entries THEN f.entries[d] ELSE r[d]]
ImportedSettings(f, s) == IF f.settings = NoSettings THEN s ELSE f.settings

Init ==
  /\ rows \in [Dates -> Contents \cup {NoRow}]
  /\ settings \in Values
  /\ offered = {} /\ agreed = {}

\* The rest of the application writes an entry or the settings.
Edit ==
  /\ \/ \E d \in Dates, c \in Contents \cup {NoRow} : rows' = [rows EXCEPT ![d] = c] /\ UNCHANGED settings
     \/ settings' \in Values /\ UNCHANGED rows
  /\ UNCHANGED <<offered, agreed>>

\* A preview appears, or the one on the screen goes.
Offer ==
  /\ offered' # offered
  /\ UNCHANGED <<rows, settings, agreed>>

Agree(p) ==
  /\ p \in offered
  /\ agreed' = agreed \cup {p}
  /\ UNCHANGED <<rows, settings, offered>>

Import(p) ==
  /\ p \in agreed
  /\ Overwritten(p.file, rows, settings) = p.view
  /\ rows' = Imported(p.file, rows)
  /\ settings' = ImportedSettings(p.file, settings)
  /\ agreed' = agreed \ {p}
  /\ UNCHANGED offered

\* Refused, failed, or cut short by the end of the process.
GiveUp ==
  /\ agreed' \subseteq agreed
  /\ offered' \in {offered, {}}
  /\ UNCHANGED <<rows, settings>>

Next ==
  \/ Edit \/ Offer \/ GiveUp
  \/ \E p \in agreed : Import(p)
  \/ \E p \in offered : Agree(p)

Spec == Init /\ [][Next]_vars
=============================================================================
