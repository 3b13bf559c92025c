------------------------- MODULE NotificationActions -------------------------
(***************************************************************************)
(* From the tap on a reminder to the weekly page: WeeklyActionBuffer and   *)
(* the plugin on the native side, the WeeklyNotificationAdapter that the   *)
(* coordinator binds once per life of the web view, and the bridge between *)
(* them, which keeps the order of calls and of messages.                   *)
(***************************************************************************)
EXTENDS Naturals, SequencesExt

CONSTANTS
  Ids,         \* taps; a posted notification carries a fresh id
  MAX_ACTIONS  \* the limit of both buffers

ASSUME ActionsAssumption == MAX_ACTIONS \in Nat \ {0} /\ "none" \notin Ids

VARIABLES
  pending,     \* WeeklyActionBuffer, oldest first; it belongs to the process
  intent,      \* the intent the activity was last opened with
  emitting,    \* accepted by captureIntent() and not yet handed to the listeners
  retained,    \* events the bridge keeps until somebody listens
  listening,   \* a native listener is registered
  toNative,    \* plugin calls under way
  toJs,        \* events and answers under way
  entries,     \* the adapter's entries in order
  installing,  \* its installationQueue
  binding,     \* the binding: none, installing, bound or failed
  pump,        \* its pump
  tapped,      \* history: captured in this process
  delivered,   \* history: given to the listener in this life of the web view
  everDelivered, \* history: given to a listener in this process
  lost,        \* history: taps a full buffer turned away
  late         \* history: acknowledged before their event was handed on

nativeVars == <<pending, intent, emitting, retained, listening>>
bridgeVars == <<toNative, toJs>>
adapterVars == <<entries, installing, binding, pump>>
tapHistory == <<tapped, delivered, everDelivered, lost, late>>
actionVars == <<nativeVars, bridgeVars, adapterVars, tapHistory>>

-----------------------------------------------------------------------------
NoId == "none"
idle == [at |-> "idle", todo |-> <<>>, pending |-> FALSE]

\* call: "listen", "consume", "acknowledge" or "unlisten"
call(what, id) == [call |-> what, id |-> id]

\* is: "event", "acknowledged" or "rejected", "pending" or "failed"
message(is, ids) == [is |-> is, ids |-> ids]

ids(es) == [i \in DOMAIN es |-> es[i].id]
known(es, id) == \E i \in DOMAIN es : es[i].id = id

\* The elements of s at the positions P, in their order.
rank(P, i) == Cardinality({j \in P : j <= i})
only(s, P) == [k \in 1..Cardinality(P) |-> s[CHOOSE i \in P : rank(P, i) = k]]

freshWebView ==
  /\ listening' = FALSE
  /\ toNative' = <<>> /\ toJs' = <<>>
  /\ entries' = <<>> /\ installing' = <<>>
  /\ binding' = "none" /\ pump' = idle
  /\ delivered' = {}

ActionsInit ==
  /\ pending = <<>> /\ intent = NoId /\ emitting = NoId /\ retained = <<>>
  /\ listening = FALSE /\ toNative = <<>> /\ toJs = <<>>
  /\ entries = <<>> /\ installing = <<>> /\ binding = "none" /\ pump = idle
  /\ tapped = {} /\ delivered = {} /\ everDelivered = {} /\ lost = {} /\ late = {}

-----------------------------------------------------------------------------
(* The native side *)

\* WeeklyActionBuffer.accept(): nothing twice, and the oldest goes first.
accept(buffer, id) ==
  LET grown == IF Contains(buffer, id) THEN buffer ELSE Append(buffer, id)
  IN  IF Len(grown) > MAX_ACTIONS THEN Tail(grown) ELSE grown

\* captureIntent(): only what the buffer accepts is emitted.
capture(buffer, id) ==
  /\ pending' = accept(buffer, id)
  /\ emitting' = IF Contains(buffer, id) THEN NoId ELSE id
  /\ lost' = lost \cup (ToSet(buffer) \ ToSet(pending'))

\* A tap on a notification, which carries an id of its own.
Tap(id) ==
  /\ id \notin tapped /\ emitting = NoId
  /\ capture(pending, id)
  /\ intent' = id
  /\ tapped' = tapped \cup {id}
  /\ UNCHANGED <<retained, listening, bridgeVars, adapterVars, delivered, everDelivered, late>>

\* notifyListeners(retainUntilConsumed)
Emit ==
  /\ emitting # NoId
  /\ emitting' = NoId
  /\ IF listening
     THEN toJs' = Append(toJs, message("event", <<emitting>>)) /\ UNCHANGED retained
     ELSE retained' = Append(retained, emitting) /\ UNCHANGED toJs
  /\ late' = IF Contains(pending, emitting) THEN late ELSE late \cup {emitting}
  /\ UNCHANGED <<pending, intent, listening, toNative, adapterVars, tapped, delivered, everDelivered, lost>>

answer(is, what) == toJs' = Append(toJs, message(is, what))

ServeListen ==
  /\ listening' = TRUE
  /\ toJs' = toJs \o [i \in DOMAIN retained |-> message("event", <<retained[i]>>)]
  /\ retained' = <<>>
  /\ UNCHANGED pending

ServeConsume ==
  /\ answer("pending", pending) \/ answer("failed", <<>>)
  /\ UNCHANGED <<pending, retained, listening>>

ServeUnlisten ==
  /\ listening' = FALSE
  /\ UNCHANGED <<pending, retained, toJs>>

\* acknowledgeAction(): an id that is not there any more is rejected.
ServeAcknowledge(id) ==
  /\ \/ /\ Contains(pending, id)
        /\ pending' = only(pending, {i \in DOMAIN pending : pending[i] # id})
        /\ answer("acknowledged", <<id>>)
     \/ answer("rejected", <<id>>) /\ UNCHANGED pending
  /\ UNCHANGED <<retained, listening>>

Serve ==
  /\ toNative # <<>>
  /\ toNative' = Tail(toNative)
  /\ LET c == Head(toNative) IN
     \/ c.call = "listen" /\ ServeListen
     \/ c.call = "consume" /\ ServeConsume
     \/ c.call = "unlisten" /\ ServeUnlisten
     \/ c.call = "acknowledge" /\ ServeAcknowledge(c.id)
  /\ UNCHANGED <<intent, emitting, adapterVars, tapHistory>>

\* The activity and its web view are made anew in the same process: load() emits
\* what the buffer holds, and the activity is opened with its last intent again.
Recreate ==
  /\ emitting = NoId
  /\ freshWebView
  /\ retained' = pending
  /\ IF intent = NoId
     THEN UNCHANGED <<pending, emitting, lost>>
     ELSE capture(pending, intent)
  /\ UNCHANGED <<intent, tapped, everDelivered, late>>

-----------------------------------------------------------------------------
(* The adapter *)

room(es, queued) == Len(es) + Len(queued) < MAX_ACTIONS

\* enqueue(): nothing twice, and a full adapter drops the newest.
enqueue(es, new) ==
  LET fresh == only(new, {i \in DOMAIN new : /\ ~known(es, new[i])
                                            /\ \A j \in 1..(i - 1) : new[j] # new[i]})
      grown == es \o [k \in DOMAIN fresh |-> [id |-> fresh[k], state |-> "buffered"]]
  IN  IF Len(grown) > MAX_ACTIONS THEN SubSeq(grown, 1, MAX_ACTIONS) ELSE grown

setState(es, id, state) ==
  [i \in DOMAIN es |-> IF es[i].id = id THEN [es[i] EXCEPT !.state = state] ELSE es[i]]

inState(es, state) == ids(only(es, {i \in DOMAIN es : es[i].state = state}))

\* pump(): first what still awaits its acknowledgement, then what is buffered.
startPump(es) == [at |-> "acknowledge", todo |-> inState(es, "delivered-awaiting-ack"), pending |-> FALSE]

\* requestPump()
requestPump(es) == pump' = IF pump.at = "idle" THEN startPump(es) ELSE [pump EXCEPT !.pending = TRUE]

\* addActionListener(): listen first, so that no warm tap is missed, then consume.
Bind ==
  /\ binding = "none"
  /\ binding' = "installing"
  /\ toNative' = toNative \o <<call("listen", NoId), call("consume", NoId)>>
  /\ UNCHANGED <<nativeVars, toJs, entries, installing, pump, tapHistory>>

received == Head(toJs)
hear(is) == toJs # <<>> /\ received.is = is /\ toJs' = Tail(toJs)

\* What a full adapter had no room for.
drop(new, kept) ==
  lost' = IF Len(kept) < MAX_ACTIONS THEN lost ELSE lost \cup (ToSet(new) \ ToSet(ids(kept)))

\* receiveAction()
HearEvent ==
  /\ hear("event")
  /\ LET id == received.ids[1] IN
     CASE binding = "installing" ->
            /\ LET takes == ~known(entries, id) /\ ~Contains(installing, id) IN
               /\ installing' = IF takes /\ room(entries, installing)
                                THEN Append(installing, id) ELSE installing
               /\ lost' = IF takes /\ ~room(entries, installing) THEN lost \cup {id} ELSE lost
            /\ UNCHANGED <<entries, pump>>
       [] binding = "bound" ->
            /\ entries' = enqueue(entries, <<id>>)
            /\ IF entries' # entries THEN requestPump(entries') ELSE UNCHANGED pump
            /\ drop(<<id>>, entries')
            /\ UNCHANGED installing
       [] OTHER -> UNCHANGED <<entries, installing, pump, lost>>
  /\ UNCHANGED <<nativeVars, toNative, binding, tapped, delivered, everDelivered, late>>

\* What the consumed list holds besides the actions queued during installation.
consumed ==
  only(received.ids, {i \in DOMAIN received.ids : ~Contains(installing, received.ids[i])})

\* Mutant: what came while installing is forgotten.
installedColdOnly == enqueue(entries, consumed)

\* The consumed actions go first, then those that came while installing.
installed == enqueue(enqueue(entries, consumed), installing)

HearPending ==
  /\ hear("pending")
  /\ entries' = installed
  /\ drop(received.ids \o installing, entries')
  /\ installing' = <<>>
  /\ binding' = "bound"
  /\ requestPump(entries')
  /\ UNCHANGED <<nativeVars, toNative, tapped, delivered, everDelivered, late>>

\* A failed consume takes the listener back; nobody binds again in this life.
HearFailed ==
  /\ hear("failed")
  /\ binding' = "failed"
  /\ toNative' = Append(toNative, call("unlisten", NoId))
  /\ UNCHANGED <<nativeVars, entries, installing, pump, tapHistory>>

\* Mutant: a rejected one is delivered again.
remainingBuffered(es, id) ==
  IF received.is = "acknowledged" THEN only(es, {i \in DOMAIN es : es[i].id # id})
  ELSE setState(es, id, "buffered")

\* tryAcknowledge(): a rejected one is retained for a later pump.
remaining(es, id) ==
  IF received.is = "acknowledged" THEN only(es, {i \in DOMAIN es : es[i].id # id}) ELSE es

pumpOn == pump' = [pump EXCEPT !.todo = Tail(@)]

HearAcknowledged ==
  /\ hear("acknowledged") \/ hear("rejected")
  /\ entries' = remaining(entries, received.ids[1])
  /\ pumpOn
  /\ UNCHANGED <<nativeVars, toNative, installing, binding, tapHistory>>

awaiting(id) ==
  \/ \E i \in DOMAIN toNative : toNative[i] = call("acknowledge", id)
  \/ \E i \in DOMAIN toJs : toJs[i].is \in {"acknowledged", "rejected"} /\ toJs[i].ids = <<id>>

acknowledge(id) == toNative' = Append(toNative, call("acknowledge", id))

PumpAcknowledge ==
  /\ pump.at = "acknowledge" /\ pump.todo # <<>>
  /\ ~awaiting(Head(pump.todo))
  /\ acknowledge(Head(pump.todo))
  /\ UNCHANGED <<nativeVars, toJs, adapterVars, tapHistory>>

\* The rest of the entries in order; the listener is called once for each that is
\* buffered.
PumpDeliver ==
  /\ pump.at = "deliver" /\ pump.todo # <<>>
  /\ LET id == Head(pump.todo) IN
     /\ ~awaiting(id)
     /\ entries' = setState(entries, id, "delivered-awaiting-ack")
     /\ delivered' = delivered \cup {id}
     /\ everDelivered' = everDelivered \cup {id}
     /\ acknowledge(id)
  /\ UNCHANGED <<nativeVars, toJs, installing, binding, pump, tapped, lost, late>>

\* The pump's next phase, its end, and the pump requested meanwhile.
PumpTurns ==
  /\ pump.at # "idle" /\ pump.todo = <<>>
  /\ pump' = CASE pump.at = "acknowledge" ->
                    [pump EXCEPT !.at = "deliver", !.todo = inState(entries, "buffered")]
               [] pump.at = "deliver" /\ pump.pending -> startPump(entries)
               [] OTHER -> idle
  /\ UNCHANGED <<nativeVars, bridgeVars, entries, installing, binding, tapHistory>>

ActionStep ==
  \/ Emit \/ Serve \/ Bind
  \/ HearEvent \/ HearPending \/ HearFailed \/ HearAcknowledged
  \/ PumpAcknowledge \/ PumpDeliver \/ PumpTurns
=============================================================================
