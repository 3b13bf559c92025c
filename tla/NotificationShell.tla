-------------------------- MODULE NotificationShell --------------------------
(***************************************************************************)
(* What notifications ask of the application around them: a tapped         *)
(* reminder opens the weekly page and brings a hidden application to the   *)
(* front, and the screens show the permission the device has. Both parts   *)
(* live in the web view and start again when the activity is made anew.    *)
(***************************************************************************)
EXTENDS NotificationActions, NotificationPermission

vars == <<actionVars, permissionVars>>

Init == ActionsInit /\ PermissionInit

\* onNewIntent() of a visible application, and of a hidden one.
TapInFront(id) ==
  /\ visible /\ userEvent
  /\ Tap(id)
  /\ UNCHANGED <<device, visible, dialog, dialogs, calls, answers, hookVars>>

TapReturns(id) ==
  /\ ~visible /\ userEvent
  /\ Tap(id)
  /\ shownAgain
  /\ UNCHANGED <<device, dialog, dialogs, answers>>

\* The web view is made anew, in front or to be in front; a dialog is dismissed.
RecreateShell ==
  /\ userEvent
  /\ Recreate
  /\ mounted
  /\ visible' = TRUE /\ dialog' = FALSE
  /\ UNCHANGED <<device, dialogs>>

Next ==
  \/ \E id \in Ids : TapInFront(id) \/ TapReturns(id)
  \/ Show /\ UNCHANGED actionVars
  \/ PermissionStep /\ UNCHANGED actionVars
  \/ RecreateShell
  \/ ActionStep /\ UNCHANGED permissionVars

Spec == Init /\ [][Next]_vars

-----------------------------------------------------------------------------
gives(id) == pump.at = "deliver" /\ PumpDeliver /\ Head(pump.todo) = id

\* weekly-notification-adapter.ts:254 "never invokes the callback again": in one life
\* of the web view the listener is called once for each tap. The exception is a tap
\* whose event the main thread hands on after the whole round trip of its delivery
\* and acknowledgement by way of the consumed list.
GivenOnce == [][\A id \in Ids : gives(id) => id \notin delivered \/ id \in late]_vars

\* Every tap reaches the weekly page of the current web view or of an earlier one,
\* warm, cold or across a new activity, unless a full buffer turned it away or the
\* binding failed: nothing is forgotten between the listener, the consumed list and
\* the events the bridge kept.
EveryTapArrives ==
  binding = "bound" /\ emitting = NoId /\ toNative = <<>> /\ toJs = <<>> /\ pump.at = "idle"
    => tapped \subseteq everDelivered \cup lost
=============================================================================
