---------------------------- MODULE DataTransfer ----------------------------
(***************************************************************************)
(* Restoring a backup and importing a legacy export: DataTransferCard, the *)
(* native document picker, DataTransferService with its one prepared       *)
(* preview, and the transaction that applies it, over the storage queue    *)
(* that the journal and the settings use meanwhile.  A card that was left  *)
(* lives on until its operation has settled.                               *)
(***************************************************************************)
EXTENDS Naturals, SequencesExt, Functions

CONSTANTS
  Dates, Contents, NoRow, Values, NoSettings, Files,
  None,      \* "nothing there"
  MaxLives,  \* bound: how often the card is opened
  MaxPicks,  \* bound: picked files
  MaxEdits,  \* bound: writes of the rest of the application
  MaxKills   \* bound: deaths of the process

ASSUME FilesAssumption ==
  /\ NoRow \notin Contents /\ NoSettings \notin Values
  /\ "settings" \notin Dates  \* a statement writes a date's row or the settings
  /\ \A f \in Files : /\ f.settings \in Values \cup {NoSettings}
                      /\ DOMAIN f.entries \subseteq Dates
                      /\ \A d \in DOMAIN f.entries : f.entries[d] \in Contents
  /\ MaxLives \in Nat /\ MaxPicks \in Nat /\ MaxEdits \in Nat /\ MaxKills \in Nat

VARIABLES
  rows, settings, \* what is committed
  tx,          \* the open transaction: its copy, and the statements to come
  queue,       \* jobs waiting for the storage lock, the first one holding it
  settled,     \* jobs that left the lock, whose callers go on next
  picker,      \* the life of the card whose document picker is open
  decrypting,  \* files being decrypted
  prepared,    \* the service's prepared preview
  generation,  \* prepareGeneration
  disposed,
  tokens,      \* previews made so far; a token is a fresh number
  card,        \* the card on the screen
  picks, edits, kills,
  imported     \* history: tokens of the committed imports

Import == INSTANCE AtomicImport WITH
  offered <- IF card.preview = None THEN {} ELSE {card.preview},
  agreed  <- {queue[i].preview : i \in {j \in DOMAIN queue : queue[j].kind = "apply"}}

database == <<rows, settings, tx>>
service == <<prepared, generation, disposed, tokens>>
bounds == <<picks, edits, kills>>
vars == <<database, queue, settled, picker, decrypting, service, card, bounds, imported>>

-----------------------------------------------------------------------------
freshCard(life) == [life |-> life, busy |-> FALSE, preview |-> None, says |-> "nothing", of |-> 0]

Init ==
  /\ rows \in [Dates -> Contents \cup {NoRow}]
  /\ settings \in Values
  /\ tx = None /\ queue = <<>> /\ settled = <<>>
  /\ picker = None /\ decrypting = {}
  /\ prepared = None /\ generation = 0 /\ disposed = FALSE /\ tokens = 0
  /\ card = freshCard(1)
  /\ picks = 0 /\ edits = 0 /\ kills = 0
  /\ imported = {}

-----------------------------------------------------------------------------
(* The card *)

\* Where a finished operation is heard: only by the card that started it.
tell(life, heard) == card' = IF life = card.life THEN heard ELSE card

unread == [card EXCEPT !.busy = FALSE, !.says = "not read"]

\* pickBackup() and pickLegacy()
Pick ==
  /\ ~card.busy /\ picks < MaxPicks
  /\ picks' = picks + 1
  /\ IF picker = None
     THEN picker' = card.life /\ card' = [card EXCEPT !.busy = TRUE, !.says = "nothing"]
     ELSE card' = unread /\ UNCHANGED picker
  /\ UNCHANGED <<database, queue, settled, decrypting, service, edits, kills, imported>>

PickerReturns ==
  /\ picker # None
  /\ picker' = None
  /\ \/ /\ tell(picker, [card EXCEPT !.busy = FALSE])
        /\ UNCHANGED decrypting
     \/ /\ tell(picker, unread)
        /\ UNCHANGED decrypting
     \/ \E f \in Files :
          /\ picker = card.life
          /\ IF disposed
             THEN card' = unread /\ UNCHANGED decrypting
             ELSE decrypting' = decrypting \cup {[life |-> picker, file |-> f]} /\ UNCHANGED card
  /\ UNCHANGED <<database, queue, settled, service, bounds, imported>>

\* The settings page is left and opened again.
Reopen ==
  /\ card.life < MaxLives
  /\ card' = freshCard(card.life + 1)
  /\ UNCHANGED <<database, queue, settled, picker, decrypting, service, bounds, imported>>

failedToApply(c) == [c EXCEPT !.busy = FALSE, !.preview = None, !.says = "not applied"]

\* apply(): the preview it was given the token of, and no other.
isPrepared(token) == prepared # None /\ prepared.token = token

\* applyTransfer() up to the lock; the prepared preview is used up at once.
Confirm ==
  /\ card.preview # None /\ ~card.busy
  /\ IF ~disposed /\ isPrepared(card.preview.token)
     THEN /\ queue' = Append(queue, [kind |-> "apply", life |-> card.life, preview |-> prepared])
          /\ prepared' = None
          /\ card' = [card EXCEPT !.busy = TRUE, !.says = "nothing", !.of = card.preview.token]
     ELSE /\ card' = [failedToApply(card) EXCEPT !.of = card.preview.token]
          /\ UNCHANGED <<queue, prepared>>
  /\ UNCHANGED <<database, settled, picker, decrypting, generation, disposed, tokens, bounds, imported>>

\* cancel()
cancelled(token) == IF prepared # None /\ prepared.token = token THEN None ELSE prepared

CancelPreview ==
  /\ card.preview # None /\ ~card.busy
  /\ prepared' = cancelled(card.preview.token)
  /\ card' = [card EXCEPT !.preview = None, !.says = "nothing"]
  /\ UNCHANGED <<database, queue, settled, picker, decrypting, generation, disposed, tokens, bounds, imported>>

\* The card's own timer, which runs while it is busy as well.
CardExpires ==
  /\ card.preview # None
  /\ prepared' = cancelled(card.preview.token)
  /\ card' = [card EXCEPT !.preview = None, !.says = "expired"]
  /\ UNCHANGED <<database, queue, settled, picker, decrypting, generation, disposed, tokens, bounds, imported>>

-----------------------------------------------------------------------------
(* The service *)

\* decrypt(), and prepare() up to the lock: the attempt is counted before its
\* entries are found to be invalid.
Decrypted(d) ==
  /\ decrypting' = decrypting \ {d}
  /\ \/ /\ ~disposed
        /\ generation' = generation + 1
        /\ queue' = Append(queue, [kind |-> "prepare", life |-> d.life, file |-> d.file, generation |-> generation + 1])
        /\ UNCHANGED card
     \/ /\ generation' = generation \/ (~disposed /\ generation' = generation + 1)
        /\ tell(d.life, unread)
        /\ UNCHANGED queue
  /\ UNCHANGED <<database, settled, picker, prepared, disposed, tokens, bounds, imported>>

holds(kind) == tx = None /\ queue # <<>> /\ Head(queue).kind = kind
job == Head(queue)
leave(result) == queue' = Tail(queue) /\ settled' = Append(settled, result)

prepareResult(preview) ==
  [kind |-> "prepare", life |-> job.life, generation |-> job.generation, preview |-> preview]

\* Under the lock: read everything, note what the file would overwrite.
PrepareReads ==
  /\ holds("prepare")
  /\ \/ /\ tokens' = tokens + 1
        /\ leave(prepareResult([token |-> tokens + 1, file |-> job.file,
                                view |-> Import!Overwritten(job.file, rows, settings)]))
     \/ leave(prepareResult(None)) /\ UNCHANGED tokens
  /\ UNCHANGED <<database, picker, decrypting, prepared, generation, disposed, card, bounds, imported>>

\* prepare() after the lock: a newer preparation has replaced this one.
PrepareEnds ==
  /\ settled # <<>> /\ Head(settled).kind = "prepare"
  /\ settled' = Tail(settled)
  /\ LET result == Head(settled) IN
     IF result.preview = None \/ disposed \/ result.generation # generation
     THEN tell(result.life, unread) /\ UNCHANGED prepared
     ELSE /\ prepared' = result.preview
          /\ tell(result.life, [card EXCEPT !.busy = FALSE, !.preview = result.preview])
  /\ UNCHANGED <<database, queue, picker, decrypting, generation, disposed, tokens, bounds, imported>>

\* The service's timer.
PreviewExpires ==
  /\ prepared # None
  /\ prepared' = None
  /\ UNCHANGED <<database, queue, settled, picker, decrypting, generation, disposed, tokens, card, bounds, imported>>

\* dispose(), when the database is closed
Dispose ==
  /\ ~disposed
  /\ disposed' = TRUE /\ prepared' = None /\ generation' = generation + 1
  /\ UNCHANGED <<database, queue, settled, picker, decrypting, tokens, card, bounds, imported>>

-----------------------------------------------------------------------------
(* apply() under the lock *)

applyResult(ok) == [kind |-> "apply", life |-> job.life, token |-> job.preview.token, ok |-> ok]

\* Mutant: only a file with settings is compared.
unchangedSettingsOnly(p) ==
  p.file.settings # NoSettings => p.view.settings = settings

\* dateFingerprint() and rawSettingsFingerprint()
unchangedSince(p) == Import!Overwritten(p.file, rows, settings) = p.view

Begin ==
  /\ holds("apply") /\ unchangedSince(job.preview)
  /\ tx' = [rows |-> rows, settings |-> settings,
            todo |-> DOMAIN job.preview.file.entries
                       \cup IF job.preview.file.settings = NoSettings THEN {} ELSE {"settings"}]
  /\ UNCHANGED <<rows, settings, queue, settled, picker, decrypting, service, card, bounds, imported>>

\* The journal changed, or a read or the BEGIN failed.
Refuse ==
  /\ holds("apply")
  /\ leave(applyResult(FALSE))
  /\ UNCHANGED <<database, picker, decrypting, service, card, bounds, imported>>

\* One statement; nobody outside sees in which order they come.
Statement ==
  /\ tx # None
  /\ \E s \in tx.todo :
       tx' = IF s = "settings"
             THEN [tx EXCEPT !.settings = job.preview.file.settings, !.todo = @ \ {s}]
             ELSE [tx EXCEPT !.rows[s] = job.preview.file.entries[s], !.todo = @ \ {s}]
  /\ UNCHANGED <<rows, settings, queue, settled, picker, decrypting, service, card, bounds, imported>>

Commit ==
  /\ tx # None /\ tx.todo = {}
  /\ rows' = tx.rows /\ settings' = tx.settings /\ tx' = None
  /\ leave(applyResult(TRUE))
  /\ imported' = imported \cup {job.preview.token}
  /\ UNCHANGED <<picker, decrypting, service, card, bounds>>

\* Mutant: the failure ends in the catch block.
failureOfSwallowed == TRUE

\* The failure is thrown again after the rollback.
failureOf == FALSE

\* A statement or the commit fails; the rollback, whose own failure the code would
\* swallow, is taken to end the transaction.
RollBack ==
  /\ tx # None
  /\ tx' = None
  /\ leave(applyResult(failureOf))
  /\ UNCHANGED <<rows, settings, picker, decrypting, service, card, bounds, imported>>

ApplyEnds ==
  /\ settled # <<>> /\ Head(settled).kind = "apply"
  /\ settled' = Tail(settled)
  /\ tell(Head(settled).life,
          IF Head(settled).ok
          THEN [card EXCEPT !.busy = FALSE, !.preview = None, !.says = "restored"]
          ELSE failedToApply(card))
  /\ UNCHANGED <<database, queue, picker, decrypting, service, bounds, imported>>

-----------------------------------------------------------------------------
(* Around the transfer *)

\* Another service writes, in a turn of its own with the lock.
Edit ==
  /\ tx = None /\ edits < MaxEdits
  /\ edits' = edits + 1
  /\ \/ \E d \in Dates, c \in Contents \cup {NoRow} :
          rows' = [rows EXCEPT ![d] = c] /\ rows' # rows /\ UNCHANGED settings
     \/ settings' \in Values \ {settings} /\ UNCHANGED rows
  /\ UNCHANGED <<tx, queue, settled, picker, decrypting, service, card, picks, kills, imported>>

\* The process dies, and the application starts again: an open transaction is gone.
Kill ==
  /\ kills < MaxKills
  /\ kills' = kills + 1
  /\ tx' = None /\ queue' = <<>> /\ settled' = <<>>
  /\ picker' = None /\ decrypting' = {}
  /\ prepared' = None /\ generation' = 0 /\ disposed' = FALSE
  /\ card' = freshCard(card.life)
  /\ UNCHANGED <<rows, settings, tokens, picks, edits, imported>>

Next ==
  \/ Pick \/ PickerReturns \/ Reopen \/ Confirm \/ CancelPreview \/ CardExpires
  \/ \E d \in decrypting : Decrypted(d)
  \/ PrepareReads \/ PrepareEnds \/ PreviewExpires \/ Dispose
  \/ Begin \/ Refuse \/ Statement \/ Commit \/ RollBack \/ ApplyEnds
  \/ Edit \/ Kill

Spec == Init /\ [][Next]_vars

-----------------------------------------------------------------------------
\* data-transfer.ts, DataTransferCard.tsx: an import is one step of the journal and
\* the settings, of a preview the user agreed to on the screen, and only while that
\* preview still describes what it overwrites; nothing else of a transfer is ever
\* seen in the database, through failures, late answers of a left card and kills.
ImplementsImport == Import!Spec

\* DataTransferCard.tsx:228-237: "Restored" is said of an import that is there, and
\* "couldn't apply" of one that is not.
ReportIsTrue ==
  /\ card.says = "restored" => card.of \in imported
  /\ card.says = "not applied" => card.of \notin imported
=============================================================================
