----------------------- MODULE NotificationPermission -----------------------
(***************************************************************************)
(* The notification permission as the screens show it: the hook           *)
(* use-notification-permission, the plugin that answers it, and the device *)
(* whose settings the user changes while the application is hidden.        *)
(***************************************************************************)
EXTENDS Naturals, SequencesExt

CONSTANTS
  Levels,    \* Android API levels the application may run on
  MaxEvents  \* bound: what the user does, in and around the application

VARIABLES
  device,     \* API level, runtime grant, mark "asked", app and channel switches
  visible,    \* document.visibilityState
  dialog,     \* the system's permission dialog is open
  dialogs,    \* history: how often it was opened
  calls,      \* plugin calls under way, in order
  answers,    \* their answers
  generation, \* generationRef
  shown,      \* status and blockedAt
  loading,
  error,
  events      \* what the user has done so far

hookVars == <<generation, shown, loading, error>>
permissionVars == <<device, visible, dialog, dialogs, calls, answers, hookVars, events>>

-----------------------------------------------------------------------------
Unread == "unread"

\* permissionDecision()
permissionDecision(d) ==
  IF d.api < 24 THEN "unsupported"
  ELSE IF d.api >= 33 /\ ~d.granted THEN IF d.requested THEN "denied runtime" ELSE "prompt"
  ELSE IF ~d.app THEN "denied app"
  ELSE IF d.api >= 26 /\ ~d.channel THEN "denied channel"
  ELSE "granted"

\* What a status read is for: a plain refresh(), the check at the head of
\* requestIfPrompt(), or its look at the outcome, after a failed request or not.
status(gen, purpose) == [call |-> "status", gen |-> gen, purpose |-> purpose]
request == [call |-> "request", gen |-> 0, purpose |-> "check"]
open == [call |-> "open", gen |-> 0, purpose |-> "refresh"]

tell(c, value) == answers' = Append(answers, [to |-> c, value |-> value])

\* The provider mounts and refreshes.
mounted ==
  /\ calls' = <<status(1, "refresh")>> /\ answers' = <<>>
  /\ generation' = 1 /\ shown' = Unread /\ loading' = TRUE /\ error' = FALSE

PermissionInit ==
  /\ device \in [api : Levels, granted : {FALSE}, requested : {FALSE}, app : {TRUE}, channel : {TRUE}]
  /\ visible = TRUE /\ dialog = FALSE /\ dialogs = 0
  /\ calls = <<status(1, "refresh")>> /\ answers = <<>>
  /\ generation = 1 /\ shown = Unread /\ loading = TRUE /\ error = FALSE
  /\ events = 0

-----------------------------------------------------------------------------
(* The user and the device *)

\* refresh(): only the answer to the newest one counts.
refresh(purpose) ==
  /\ generation' = generation + 1
  /\ loading' = TRUE
  /\ calls' = Append(calls, status(generation + 1, purpose))
  /\ UNCHANGED <<shown, error>>

userEvent == events < MaxEvents /\ events' = events + 1

Hide ==
  /\ visible /\ ~dialog /\ userEvent
  /\ visible' = FALSE
  /\ UNCHANGED <<device, dialog, dialogs, calls, answers, hookVars>>

\* Mutant: nothing is read again when the application comes back.
shownAgainOnly == visible' = TRUE /\ UNCHANGED <<calls, hookVars>>

\* onVisibilityChange()
shownAgain == visible' = TRUE /\ refresh("refresh")

Show ==
  /\ ~visible
  /\ shownAgain
  /\ UNCHANGED <<device, dialog, dialogs, answers, events>>

\* The system's settings, while the application is hidden.
ChangeDevice ==
  /\ ~visible
  /\ device' \in {[device EXCEPT !.granted = ~@], [device EXCEPT !.app = ~@], [device EXCEPT !.channel = ~@]}
  /\ UNCHANGED <<visible, dialog, dialogs, calls, answers, hookVars, events>>

\* "Allow notifications", and every switch of the weekly review to on.
RequestIfPrompt ==
  /\ visible /\ ~dialog /\ userEvent
  /\ refresh("check")
  /\ UNCHANGED <<device, visible, dialog, dialogs, answers>>

\* "Open notification settings", offered while the shown status is a refusal.
OpenSystemSettings ==
  /\ visible /\ ~dialog /\ userEvent
  /\ shown \in {"denied runtime", "denied app", "denied channel"}
  /\ calls' = Append(calls, open)
  /\ UNCHANGED <<device, visible, dialog, dialogs, answers, hookVars>>

DialogAnswered ==
  /\ dialog
  /\ dialog' = FALSE
  /\ \E grant \in BOOLEAN : device' = [device EXCEPT !.granted = grant]
  /\ tell(request, "done") \/ tell(request, "failed")
  /\ UNCHANGED <<visible, dialogs, calls, hookVars, events>>

-----------------------------------------------------------------------------
(* The plugin *)

served(what) == calls # <<>> /\ Head(calls).call = what /\ calls' = Tail(calls)

ServeStatus ==
  /\ served("status")
  /\ tell(Head(calls), permissionDecision(device)) \/ tell(Head(calls), "failed")
  /\ UNCHANGED <<device, visible, dialog, dialogs, hookVars, events>>

\* Mutant: the mark is left to the callback.
markLater == device

\* markPermissionRequested(): before the dialog, and a failed write opens none.
mark == [device EXCEPT !.requested = TRUE]

\* Only a level of 33 or more ever says "prompt", so no older one is asked.
ServeRequest ==
  /\ served("request")
  /\ \/ /\ tell(request, "failed")
        /\ UNCHANGED <<device, dialog, dialogs>>
     \/ /\ device' = mark
        /\ IF device.granted
           THEN tell(request, "done") /\ UNCHANGED <<dialog, dialogs>>
           ELSE dialog' = TRUE /\ dialogs' = dialogs + 1 /\ UNCHANGED answers
  /\ UNCHANGED <<visible, hookVars, events>>

ServeOpen ==
  /\ served("open")
  /\ \/ visible' = FALSE /\ UNCHANGED answers
     \/ tell(open, "failed") /\ UNCHANGED visible
  /\ UNCHANGED <<device, dialog, dialogs, hookVars, events>>

-----------------------------------------------------------------------------
(* The hook *)

heard(what) == answers # <<>> /\ Head(answers).to.call = what /\ answers' = Tail(answers)

\* What refresh() makes of an answer, and then what its caller does: the check asks
\* only if its own read said "prompt"; a failed request is reported in any case.
HearStatus ==
  /\ heard("status")
  /\ LET read == Head(answers)
         current == read.to.gen = generation
         good == read.value # "failed"
     IN /\ shown' = IF current /\ good THEN read.value ELSE shown
        /\ loading' = (loading /\ ~current)
        /\ error' = (read.to.purpose = "failed outcome" \/ IF current THEN ~good ELSE error)
        /\ calls' = IF current /\ read.to.purpose = "check" /\ read.value = "prompt"
                    THEN Append(calls, request) ELSE calls
  /\ UNCHANGED <<device, visible, dialog, dialogs, generation, events>>

HearRequest ==
  /\ heard("request")
  /\ refresh(IF Head(answers).value = "failed" THEN "failed outcome" ELSE "outcome")
  /\ UNCHANGED <<device, visible, dialog, dialogs, events>>

HearOpen ==
  /\ heard("open")
  /\ error' = TRUE
  /\ UNCHANGED <<device, visible, dialog, dialogs, calls, generation, shown, loading, events>>

PermissionStep ==
  \/ Hide \/ ChangeDevice \/ RequestIfPrompt \/ OpenSystemSettings \/ DialogAnswered
  \/ ServeStatus \/ ServeRequest \/ ServeOpen
  \/ HearStatus \/ HearRequest \/ HearOpen

-----------------------------------------------------------------------------
\* use-notification-permission.ts: once everything asked for has been answered, a
\* screen in front shows what the device says, or an error; whatever was changed
\* in the dialog or in the settings, and however the reads overlapped.
ShownPermissionIsActual ==
  visible /\ ~dialog /\ calls = <<>> /\ answers = <<>>
    => ~loading /\ (error \/ shown = permissionDecision(device))

\* markPermissionRequested() and permissionDecision(): the user is asked once, even
\* if two switches ask at the same time and whatever fails in between.
AskedOnce == dialogs <= 1
=============================================================================
