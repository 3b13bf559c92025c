---------------------------- MODULE JournalEditor ----------------------------
(***************************************************************************)
(* The daily editor of the Android app over the storage queue.  One date   *)
(* is edited by a succession of mounts (open the date, leave it, open it   *)
(* again); a left mount lives on until its writes have settled.  Every     *)
(* read and write of a mount goes through the connection's Serializer,     *)
(* which starts the next operation only when the previous one has settled  *)
(* in JavaScript.                                                          *)
(*                                                                         *)
(* A text is a member of Texts.  Storing the empty text deletes the row,   *)
(* and a missing row is read back as the empty text, so the row's content  *)
(* is a text as well.                                                      *)
(***************************************************************************)
EXTENDS Naturals, Sequences

CONSTANTS
  Texts,      \* the contents the entry can have
  NoText,     \* "no write in flight"
  MaxMounts,  \* bound on how often the date is opened
  MaxEdits,   \* bound on the user's changes
  MaxHides    \* bound on how often the app goes to the background

ASSUME TextsAssumption == NoText \notin Texts
ASSUME BoundsAssumption == MaxMounts \in Nat /\ MaxEdits \in Nat /\ MaxHides \in Nat

VARIABLES
  db,       \* the row's content
  queue,    \* operations of the Serializer, the running one first
  slot,     \* how the running operation ended, before JavaScript hears of it
  ed,       \* ed[m]: the state and refs of mount m
  cur,      \* the newest mount
  visible,  \* document.visibilityState
  edits, hides,  \* used up bounds
  typed,    \* history: the text the user last typed
  landed,   \* history: which of the user's changes the row holds
  slips,    \* history: the known ways the row can fall behind that happened
  skipped   \* history: the app is hidden, and hiding it queued nothing of an unsaved
            \* text because an earlier background write had not settled

vars == <<db, queue, slot, ed, cur, visible, edits, hides, typed, landed, slips, skipped>>

-----------------------------------------------------------------------------
Mounts == 1 .. MaxMounts
SaveStates == {"idle", "saving", "saved", "error"}

\* The ways the row is known to fall behind the user's text:
\*   reverted     the last acknowledged text was typed back while the row held, or
\*                was about to hold, another one: the clean editor saves nothing
\*   overtaken    a write was acknowledged as the editor's text while a write of
\*                another text, queued on going to the background, was behind it
\*   disarmed     the app was hidden again before the background write settled:
\*                the save timer of a newer text was cleared and nothing was queued
\*   reloaded     the date was opened again before the left mount had stored
\*                everything: the new mount shows, and may store, an old text
\*   flushFailed  a write of a left mount failed; nobody retries it
Slips == {"reverted", "disarmed", "reloaded", "flushFailed", "overtaken"}

\* stamp: the user's change a text comes from.
Op == [mount : Mounts, kind : {"get", "write", "background"},
       text : Texts \cup {NoText}, stamp : 0 .. MaxEdits]

Editor == [phase : {"unborn", "loading", "open", "gone"},
           value : Texts, stamp : 0 .. MaxEdits, lastSaved : Texts,
           inFlight : Texts \cup {NoText},   \* inFlightWriteRef
           flushOutcome : BOOLEAN,           \* the write in flight is the unmount flush
           pending : BOOLEAN, flushPending : BOOLEAN,
           background : BOOLEAN,             \* backgroundFlushRef
           saveState : SaveStates,
           saveTimer : BOOLEAN, retryTimer : BOOLEAN]

\* The refs and state of a mount showing text t.
mounted(phase, t) ==
  [phase |-> phase, value |-> t, stamp |-> 0, lastSaved |-> t, inFlight |-> NoText,
   flushOutcome |-> FALSE, pending |-> FALSE, flushPending |-> FALSE,
   background |-> FALSE, saveState |-> "saved", saveTimer |-> FALSE, retryTimer |-> FALSE]

cancelled(e) == e.phase = "gone"
dirty(e) == e.value # e.lastSaved

Running == [state |-> "running", text |-> NoText]

Init ==
  /\ db \in Texts
  /\ queue = <<>>
  /\ slot = Running
  /\ ed = [m \in Mounts |-> mounted("unborn", db)]
  /\ cur = 0
  /\ visible = TRUE
  /\ edits = 0 /\ hides = 0
  /\ typed = db
  /\ landed = 0
  /\ slips = {}
  /\ skipped = FALSE

-----------------------------------------------------------------------------
operation(m, kind, text, stamp) == [mount |-> m, kind |-> kind, text |-> text, stamp |-> stamp]

\* runWrite(): take the single-flight lock and queue the upsert.
startWrite(m, e, text, isFlush, q) ==
  /\ ed' = [ed EXCEPT ![m] = [e EXCEPT !.inFlight = text, !.flushOutcome = isFlush]]
  /\ queue' = Append(q, operation(m, "write", text, e.stamp))

\* Mutant: the request made during a write is forgotten.
drainForgets(m, e, q) ==
  /\ ed' = [ed EXCEPT ![m] = [e EXCEPT !.pending = FALSE, !.flushPending = FALSE]]
  /\ queue' = q

\* drain(): after a settle, run the write that was asked for meanwhile, with the
\* latest text; a plain request is dropped when the editor became clean.
drain(m, e, q) ==
  LET idle == [e EXCEPT !.pending = FALSE, !.flushPending = FALSE]
  IN  IF e.pending /\ (e.flushPending \/ dirty(e))
      THEN startWrite(m, idle, e.value, e.flushPending, q)
      ELSE ed' = [ed EXCEPT ![m] = idle] /\ queue' = q

\* saveLatest(): disarm the retry, then write, or ask for a write after the
\* one in flight.
saveLatest(m, e) ==
  LET calm == [e EXCEPT !.retryTimer = FALSE]
      busy == [calm EXCEPT !.saveState = "saving"]
  IN  \/ /\ ~dirty(e)
         /\ ed' = [ed EXCEPT ![m] = calm]
         /\ UNCHANGED queue
      \/ /\ dirty(e) /\ e.inFlight # NoText
         /\ ed' = [ed EXCEPT ![m] = [busy EXCEPT !.pending = TRUE]]
         /\ UNCHANGED queue
      \/ /\ dirty(e) /\ e.inFlight = NoText
         /\ startWrite(m, busy, e.value, FALSE, queue)

-----------------------------------------------------------------------------
\* JournalView mounts an editor for the date and queues the read of its entry.
OpenDate ==
  /\ cur < MaxMounts
  /\ cur # 0 => cancelled(ed[cur])
  /\ cur' = cur + 1
  /\ ed' = [ed EXCEPT ![cur + 1] = mounted("loading", db)]
  /\ queue' = Append(queue, operation(cur + 1, "get", NoText, 0))
  /\ UNCHANGED <<db, slot, visible, edits, hides, typed, landed, slips, skipped>>

\* The running operation meets the database.  An upsert that fails may have
\* stored its text before the read-back failed.
Execute ==
  /\ queue # <<>>
  /\ slot = Running
  /\ LET op == Head(queue)
     IN  \/ /\ op.kind = "get"
            /\ slot' \in {[state |-> "ok", text |-> db], [state |-> "failed", text |-> NoText]}
            /\ UNCHANGED <<db, landed>>
         \/ /\ op.kind # "get"
            /\ db' = op.text
            /\ landed' = op.stamp
            /\ slot' \in {[state |-> s, text |-> op.text] : s \in {"ok", "failed"}}
         \/ /\ op.kind # "get"
            /\ slot' = [state |-> "failed", text |-> op.text]
            /\ UNCHANGED <<db, landed>>
  /\ UNCHANGED <<queue, ed, cur, visible, edits, hides, typed, slips, skipped>>

\* What an earlier mount still has to store.
Outstanding(m) ==
  \/ ed[m].inFlight # NoText \/ ed[m].pending
  \/ \E i \in 1 .. Len(queue) : queue[i].mount = m

\* The entry arrives; a left mount ignores it, a failed read mounts no editor.
SettleGet ==
  /\ queue # <<>> /\ slot.state # "running" /\ Head(queue).kind = "get"
  /\ LET m == Head(queue).mount
     IN  /\ ed' = IF cancelled(ed[m]) THEN ed
                  ELSE [ed EXCEPT ![m] = IF slot.state = "ok" THEN mounted("open", slot.text)
                                         ELSE [@ EXCEPT !.phase = "gone"]]
         /\ slips' = IF \E k \in Mounts : k < m /\ Outstanding(k)
                     THEN slips \cup {"reloaded"} ELSE slips
  /\ queue' = Tail(queue)
  /\ slot' = Running
  /\ UNCHANGED <<db, cur, visible, edits, hides, typed, landed, skipped>>

\* Mutant: outcomes are applied without asking whether the text is still the editor's.
applyOutcomeStale(e, ok) ==
  LET released == [e EXCEPT !.inFlight = NoText, !.flushOutcome = FALSE]
  IN  IF ok THEN [released EXCEPT !.saveState = "saved", !.lastSaved = e.inFlight]
      ELSE [released EXCEPT !.saveState = "error", !.retryTimer = ~cancelled(e)]

\* Mutant: a failed save shows its error and arms no retry.
applyOutcomeNoRetry(e, ok) ==
  LET released == [e EXCEPT !.inFlight = NoText, !.flushOutcome = FALSE]
  IN  IF cancelled(e) \/ e.value # e.inFlight THEN released
      ELSE IF ok THEN [released EXCEPT !.lastSaved = e.inFlight, !.saveState = "saved"]
           ELSE [released EXCEPT !.saveState = "error"]

\* How the outcome of a serialized write is applied to its mount: only when the
\* text is still the editor's, and never to a left mount, whose flush is merely
\* noted.
applyOutcome(e, ok) ==
  LET settled == e.inFlight
      released == [e EXCEPT !.inFlight = NoText, !.flushOutcome = FALSE]
  IN  CASE cancelled(e) ->
             [released EXCEPT !.lastSaved = IF ok /\ e.flushOutcome THEN settled ELSE @]
        [] ~cancelled(e) /\ e.value # settled -> released
        [] ~cancelled(e) /\ e.value = settled /\ ok ->
             [released EXCEPT !.lastSaved = settled, !.saveState = "saved"]
        [] ~cancelled(e) /\ e.value = settled /\ ~ok ->
             [released EXCEPT !.saveState = "error", !.retryTimer = TRUE]

\* Mutant: a failed write is sent again, behind what was queued since.
SettleWriteResends ==
  /\ queue # <<>> /\ slot.state # "running" /\ Head(queue).kind = "write"
  /\ IF slot.state = "failed"
     THEN queue' = Append(Tail(queue), Head(queue)) /\ UNCHANGED ed
     ELSE drain(Head(queue).mount, applyOutcome(ed[Head(queue).mount], TRUE), Tail(queue))
  /\ slot' = Running
  /\ UNCHANGED <<db, cur, visible, edits, hides, typed, landed, slips, skipped>>

\* A serialized write settles: its outcome, then the write asked for meanwhile.
SettleWrite ==
  /\ queue # <<>> /\ slot.state # "running" /\ Head(queue).kind = "write"
  /\ LET m == Head(queue).mount
         ok == slot.state = "ok"
         applied == applyOutcome(ed[m], ok)
     IN  /\ drain(m, applied, Tail(queue))
         /\ slips' = slips
              \cup {f \in {"flushFailed"} : cancelled(ed[m]) /\ ~ok}
              \cup {f \in {"overtaken"} : ~dirty(applied) /\ ed[m].background}
  /\ slot' = Running
  /\ UNCHANGED <<db, cur, visible, edits, hides, typed, landed, skipped>>

\* The outcome of a write queued while the app was going to the background.
SettleBackground ==
  /\ queue # <<>> /\ slot.state # "running" /\ Head(queue).kind = "background"
  /\ LET m == Head(queue).mount
         e == ed[m]
         released == [e EXCEPT !.background = FALSE]
     IN  /\ ed' = [ed EXCEPT ![m] =
              IF cancelled(e) THEN released
              ELSE IF slot.state = "failed"
              THEN [released EXCEPT !.saveState = "error", !.retryTimer = TRUE]
              ELSE IF e.inFlight = NoText /\ e.value = slot.text
              THEN [released EXCEPT !.lastSaved = slot.text, !.saveState = "saved"]
              ELSE released]
  /\ queue' = Tail(queue)
  /\ slot' = Running
  /\ UNCHANGED <<db, cur, visible, edits, hides, typed, landed, slips, skipped>>

-----------------------------------------------------------------------------
Open == cur # 0 /\ ed[cur].phase = "open"

Busy(m) == ed[m].inFlight # NoText \/ ed[m].pending \/ ed[m].background

\* handleChange() and the debounce effect: (re)arm the timer while dirty.  Typing
\* back the last acknowledged text makes the editor clean, although the row may
\* hold, or be about to hold, another text.
Type(t) ==
  /\ Open /\ visible
  /\ edits < MaxEdits
  /\ t # ed[cur].value
  /\ ed' = [ed EXCEPT ![cur].value = t,
                      ![cur].stamp = edits + 1,
                      ![cur].saveState = "idle",
                      ![cur].saveTimer = (t # ed[cur].lastSaved)]
  /\ typed' = t
  /\ edits' = edits + 1
  /\ slips' = slips \cup {f \in {"reverted"} : t = ed[cur].lastSaved /\ (db # t \/ Busy(cur))}
  /\ UNCHANGED <<db, queue, slot, cur, visible, hides, landed, skipped>>

SaveTimerFires ==
  /\ Open
  /\ ed[cur].saveTimer
  /\ saveLatest(cur, [ed[cur] EXCEPT !.saveTimer = FALSE])
  /\ UNCHANGED <<db, slot, cur, visible, edits, hides, typed, landed, slips, skipped>>

RetryTimerFires ==
  /\ Open
  /\ ed[cur].retryTimer
  /\ saveLatest(cur, ed[cur])
  /\ UNCHANGED <<db, slot, cur, visible, edits, hides, typed, landed, slips, skipped>>

\* Mutant: going to the background leaves a write in flight to its drain.
HideTrustsDrain ==
  /\ visible /\ hides < MaxHides
  /\ visible' = FALSE
  /\ hides' = hides + 1
  /\ IF Open /\ dirty(ed[cur]) /\ ed[cur].inFlight = NoText
     THEN startWrite(cur, [ed[cur] EXCEPT !.saveTimer = FALSE], ed[cur].value, FALSE, queue)
     ELSE /\ ed' = [m \in Mounts |-> [ed[m] EXCEPT !.saveTimer = FALSE]]
          /\ UNCHANGED queue
  /\ skipped' = FALSE
  /\ UNCHANGED <<db, slot, cur, edits, typed, landed, slips>>

\* The editor's text is in the write in flight, or in its newest queued operation.
UnderWay(m) ==
  \/ ed[m].inFlight = ed[m].value
  \/ \E i \in DOMAIN queue :
       /\ queue[i].mount = m /\ queue[i].text = ed[m].value
       /\ \A j \in DOMAIN queue : queue[j].mount = m => j <= i

\* visibilitychange to hidden: flushOnBackground().
Hide ==
  /\ visible /\ hides < MaxHides
  /\ visible' = FALSE
  /\ hides' = hides + 1
  /\ skipped' = (Open /\ dirty(ed[cur]) /\ ed[cur].background /\ ~UnderWay(cur))
  /\ IF ~Open THEN UNCHANGED <<ed, queue, slips>>
     ELSE LET e == ed[cur]
              calm == [e EXCEPT !.saveTimer = FALSE]
              busy == [calm EXCEPT !.retryTimer = FALSE, !.saveState = "saving"]
          IN  \/ /\ ~dirty(e) \/ e.background
                 /\ ed' = [ed EXCEPT ![cur] = calm]
                 /\ slips' = IF dirty(e) /\ e.saveTimer THEN slips \cup {"disarmed"} ELSE slips
                 /\ UNCHANGED queue
              \/ /\ dirty(e) /\ ~e.background /\ e.inFlight = NoText
                 /\ startWrite(cur, busy, e.value, FALSE, queue)
                 /\ UNCHANGED slips
              \/ /\ dirty(e) /\ ~e.background /\ e.inFlight # NoText
                 /\ ed' = [ed EXCEPT ![cur] = [busy EXCEPT !.background = TRUE]]
                 /\ queue' = Append(queue, operation(cur, "background", e.value, e.stamp))
                 /\ UNCHANGED slips
  /\ UNCHANGED <<db, slot, cur, edits, typed, landed>>

Show ==
  /\ ~visible
  /\ visible' = TRUE
  /\ skipped' = FALSE
  /\ UNCHANGED <<db, queue, slot, ed, cur, edits, hides, typed, landed, slips>>

\* Mutant: unmounting during a write trusts that write and flushes nothing.
LeaveTrustsWrite ==
  /\ cur # 0 /\ ed[cur].phase = "open" /\ visible
  /\ dirty(ed[cur]) => ed[cur].inFlight # NoText
  /\ ed' = [ed EXCEPT ![cur].phase = "gone", ![cur].saveTimer = FALSE,
                      ![cur].retryTimer = FALSE]
  /\ UNCHANGED <<db, queue, slot, cur, visible, edits, hides, typed, landed, slips, skipped>>

\* The user leaves the date: unmount, and flush a dirty text behind any write.
Leave ==
  /\ cur # 0 /\ ed[cur].phase \in {"loading", "open"}
  /\ visible
  /\ LET e == ed[cur]
         gone == [e EXCEPT !.phase = "gone", !.saveTimer = FALSE, !.retryTimer = FALSE]
     IN  \/ /\ e.phase = "loading" \/ ~dirty(e)
            /\ ed' = [ed EXCEPT ![cur] = gone]
            /\ UNCHANGED queue
         \/ /\ e.phase = "open" /\ dirty(e) /\ e.inFlight # NoText
            /\ ed' = [ed EXCEPT ![cur] = [gone EXCEPT !.pending = TRUE, !.flushPending = TRUE]]
            /\ UNCHANGED queue
         \/ /\ e.phase = "open" /\ dirty(e) /\ e.inFlight = NoText
            /\ startWrite(cur, gone, e.value, TRUE, queue)
  /\ UNCHANGED <<db, slot, cur, visible, edits, hides, typed, landed, slips, skipped>>

\* The process is killed: the row is all that remains.
Kill ==
  /\ cur # 0
  /\ queue' = <<>>
  /\ slot' = Running
  /\ ed' = [m \in Mounts |-> IF m <= cur THEN mounted("gone", db) ELSE ed[m]]
  /\ visible' = TRUE
  /\ typed' = db
  /\ slips' = {}
  /\ skipped' = FALSE
  /\ UNCHANGED <<db, cur, edits, hides, landed>>

Settle == SettleGet \/ SettleWrite \/ SettleBackground

Next ==
  \/ OpenDate
  \/ Execute
  \/ SettleGet
  \/ SettleWrite
  \/ SettleBackground
  \/ \E t \in Texts : Type(t)
  \/ SaveTimerFires
  \/ RetryTimerFires
  \/ Hide
  \/ Show
  \/ Leave
  \/ Kill

Spec == Init /\ [][Next]_vars

\* The event loop runs due timers and settled promises, the storage queue runs
\* its head, and storage does not fail for ever.
Fairness ==
  /\ WF_vars(Execute) /\ WF_vars(Settle)
  /\ WF_vars(SaveTimerFires) /\ WF_vars(RetryTimerFires)
  /\ SF_vars(Execute /\ slot'.state = "ok")

FairSpec == Spec /\ Fairness

-----------------------------------------------------------------------------
\* Something will still write: an operation or a timer is under way.
Armed(m) == Busy(m) \/ ed[m].saveTimer \/ ed[m].retryTimer

\* A dirty editor always has a write, a queued request or a timer that will
\* save it, unless going to the background twice disarmed its save timer
\* (JournalEditor.tsx: every handler that returns early or ignores a stale
\* outcome must leave the next save armed).
DirtyIsArmed ==
  Open /\ dirty(ed[cur]) /\ "disarmed" \notin slips => Armed(cur)

\* When nothing is left to run, the row holds what the user typed last and the
\* open editor shows it, but for the known ways to fall behind in slips.
LastTypedIsStored ==
  (queue = <<>> /\ (Open => ~Armed(cur)) /\ slips = {})
     => db = typed /\ (Open => ed[cur].value = db)

\* While the app is hidden the open editor's unsaved text is in an operation it has
\* queued at the storage layer, or its save failed and the retry is armed: it is
\* never only in a debounce timer or in "a JS pending flag that a killed process
\* can lose" (JournalEditor.tsx:262-264), but when hiding the app queued nothing
\* because an earlier background write had not settled (skipped, :276).
HiddenIsDurable ==
  ~visible /\ Open /\ dirty(ed[cur]) /\ ~skipped =>
    \/ ed[cur].retryTimer
    \/ \E i \in DOMAIN queue : queue[i].mount = cur /\ queue[i].text = ed[cur].value

\* The row only moves forward: a write of an older change never lands after a
\* newer one, whichever mount issued it ("an older value can never land after
\* a newer one").
OlderNeverLands == [][landed' >= landed]_vars

\* The outcome of the running operation is stale: its mount was left, or shows
\* another text by now.
Stale(op) == cancelled(ed[op.mount]) \/ ed[op.mount].value # op.text

Unpainted(m) ==
  /\ ed'[m].saveState = ed[m].saveState
  /\ ed'[m].retryTimer = ed[m].retryTimer
  /\ ed'[m].value = ed[m].value

\* The stale outcome of a serialized write paints neither "Saved" nor an error
\* and arms no retry, on the open editor as on a left one.
StaleWriteIsSilent ==
  [][SettleWrite /\ Stale(Head(queue)) => Unpainted(Head(queue).mount)]_vars

\* What the comment on the background handler promises: once hidden and at rest,
\* "the database always ends with the newest value".  It does not: see the
\* slips "reverted" and "overtaken".
DatabaseEndsWithNewest ==
  (~visible /\ queue = <<>> /\ Open /\ ~Armed(cur) /\ "reloaded" \notin slips)
     => db = ed[cur].value

\* Once the user stops typing the row catches up with the last text, through
\* any number of failed saves ("retries the LATEST value every 5s until it
\* succeeds"), but for the known ways to fall behind.
EventuallyStored == []<>(db = typed \/ slips # {})
=============================================================================
