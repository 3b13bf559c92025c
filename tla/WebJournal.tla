------------------------------ MODULE WebJournal ------------------------------
(***************************************************************************)
(* The web app's daily editor and the journal route.  Nothing serializes   *)
(* the PUTs of an editor: each is served, and answered, when the network   *)
(* lets it.  A missing entry is the empty text.                            *)
(***************************************************************************)
EXTENDS Naturals, Sequences, SequencesExt

CONSTANTS Texts, NoText, MaxEdits, MaxPages

ASSUME WebTextsAssumption == NoText \notin Texts /\ MaxEdits \in Nat /\ MaxPages \in Nat

VARIABLES
  stored,   \* the text of the entry in the database
  net,      \* PUTs under way, in the order sent: text, state, late, page
  ed,       \* the editor: content, lastSaved, status, debounce, retry, lost
  edits, pages,  \* used up bounds
  slips     \* history: known ways a text can stay behind that happened

journalVars == <<stored, net, ed, edits, pages, slips>>

\* The known ways the stored text can fall behind the editor's:
\*   overtaken  a PUT was applied after one that was sent later
\*   trusted    a retry found the text equal to the last acknowledged one and sent
\*              nothing, although another PUT had been, or could still be, applied
\*   left       the page was left before its text was stored
Slips == {"overtaken", "trusted", "left"}

Closed == [content |-> NoText, lastSaved |-> NoText, status |-> "idle",
           debounce |-> NoText, retry |-> FALSE, lost |-> 0]

JournalInit ==
  /\ stored \in Texts
  /\ net = <<>> /\ ed = Closed
  /\ edits = 0 /\ pages = 0
  /\ slips = {}

open == ed.content # NoText

putRequest(text) == [text |-> text, state |-> "sent", late |-> FALSE, page |-> pages]

-----------------------------------------------------------------------------
\* The page is loaded, or left and loaded again: its text is read and decrypted on
\* the server, timers are cleared, nothing is flushed.
OpenPage ==
  /\ pages < MaxPages
  /\ pages' = pages + 1
  /\ ed' = [Closed EXCEPT !.content = stored, !.lastSaved = stored]
  /\ slips' = slips \cup {s \in {"left"} : open /\ (ed.content # stored \/ net # <<>>)}
  /\ UNCHANGED <<stored, net, edits>>

\* handleChange(): arm the debounce with this text.  Only the newest retry timer
\* is known to be cleared; one that an earlier failure armed is lost, and fires.
Type(t) ==
  /\ open /\ edits < MaxEdits /\ t # ed.content
  /\ ed' = [ed EXCEPT !.content = t, !.status = "saving", !.debounce = t, !.retry = FALSE]
  /\ edits' = edits + 1
  /\ UNCHANGED <<stored, net, pages, slips>>

\* save()
save(text, e) == ed' = [e EXCEPT !.status = "saving"] /\ net' = Append(net, putRequest(text))

DebounceFires ==
  /\ ed.debounce # NoText
  /\ save(ed.debounce, [ed EXCEPT !.debounce = NoText])
  /\ UNCHANGED <<stored, edits, pages, slips>>

\* The journal route: the session is required; an empty text deletes the entry.
\* It may also fail, or never be reached.
Serve(i, session) ==
  /\ net[i].state = "sent"
  /\ \/ /\ session
        /\ stored' = net[i].text
        /\ slips' = slips \cup {s \in {"overtaken"} : net[i].late}
        /\ net' = [k \in DOMAIN net |->
                     IF k = i THEN [net[i] EXCEPT !.state = "applied"]
                     ELSE [net[k] EXCEPT !.late = @ \/ k < i]]
     \/ /\ net' = [net EXCEPT ![i].state = "refused"]
        /\ UNCHANGED <<stored, slips>>
  /\ UNCHANGED <<ed, edits, pages>>

\* Mutant: the retry timer is not armed again.
answeredOnce(ok, text) ==
  IF ok THEN [ed EXCEPT !.lastSaved = text, !.status = "saved"]
  ELSE [ed EXCEPT !.status = "error"]

\* What an answer does to the editor.
answered(ok, text) ==
  IF ok THEN [ed EXCEPT !.lastSaved = text, !.status = "saved"]
  ELSE [ed EXCEPT !.status = "error", !.retry = TRUE,
                  !.lost = IF ed.retry THEN @ + 1 ELSE @]

\* The answer arrives, or is lost, which is a failure too; the editor of a left
\* page hears nothing.
Answer(i) ==
  /\ net[i].state # "sent"
  /\ \E ok \in {FALSE, net[i].state = "applied"} :
       ed' = IF net[i].page = pages THEN answered(ok, net[i].text) ELSE ed
  /\ net' = RemoveAt(net, i)
  /\ UNCHANGED <<stored, edits, pages, slips>>

\* A retry timer: send the latest text unless it is the last acknowledged one.
RetryFires ==
  /\ ed.retry \/ ed.lost > 0
  /\ LET e == IF ed.lost > 0 THEN [ed EXCEPT !.lost = @ - 1] ELSE [ed EXCEPT !.retry = FALSE]
     IN  IF ed.content # ed.lastSaved
         THEN save(ed.content, e) /\ UNCHANGED slips
         ELSE /\ ed' = [e EXCEPT !.status = "saved"]
              /\ slips' = slips \cup {s \in {"trusted"} : stored # ed.content \/ net # <<>>}
              /\ UNCHANGED net
  /\ UNCHANGED <<stored, edits, pages>>

JournalNext(session) ==
  \/ session /\ OpenPage
  \/ \E t \in Texts : Type(t)
  \/ DebounceFires \/ RetryFires
  \/ \E i \in DOMAIN net : Serve(i, session) \/ Answer(i)

-----------------------------------------------------------------------------
\* A web editor with no PUT under way and no timer armed has its text stored,
\* whatever failed, was answered late or was typed meanwhile, except after one of
\* the known slips.
WebTextIsStored ==
  open /\ net = <<>> /\ ed.debounce = NoText /\ ~ed.retry /\ ed.lost = 0
  => stored = ed.content \/ slips # {}
=============================================================================
