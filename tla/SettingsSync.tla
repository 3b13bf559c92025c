---------------------------- MODULE SettingsSync ----------------------------
(***************************************************************************)
(* The settings and everybody who shows or follows them: the queue of the  *)
(* database (Serializer), SettingsService, the useSettings hooks of the    *)
(* notification provider and of the settings form with their change        *)
(* events, the writers beside them (a restored backup, the first setup),   *)
(* and the WeeklyNotificationCoordinator, which hands the provider's       *)
(* settings to the native reminder.                                        *)
(*                                                                         *)
(* An operation meets the database (Execute) before JavaScript hears of it *)
(* (Settle), so everything else may come in between.                       *)
(***************************************************************************)
EXTENDS Naturals, Sequences

CONSTANTS
  Zones,      \* time zones; the weekly hour is one more field of this kind
  UTC,        \* the default
  MaxWrites,  \* bound on the user's changes and restores
  MaxShows,   \* bound on returns from the background
  MaxQueue    \* bound on operations ahead of a newly opened form

ASSUME SyncAssumption ==
  /\ UTC \in Zones /\ "none" \notin Zones
  /\ MaxWrites \in Nat /\ MaxShows \in Nat /\ MaxQueue \in Nat

VARIABLES
  row,         \* the stored settings, merged over the defaults
  configured,  \* the app has been set up
  queue,       \* the Serializer: its running operation first
  slot,        \* what the running operation has done to the database
  hook,        \* the state of each mounted useSettings
  waiting,     \* updates waiting for an earlier one of the same hook instance
  coord,       \* WeeklyNotificationCoordinator.snapshot
  calls,       \* its queue of native reconciliations
  native,      \* what the native reminder was last told
  writes, shows,
  behind,      \* history: hooks that a stored change was not announced to
  refused,     \* history: the last native reconciliation failed
  bypassed     \* history: the coordinator read what the provider did not show

queueVars == <<queue, slot, waiting>>
reminderVars == <<coord, calls, native, refused, bypassed>>
boundVars == <<writes, shows>>
syncVars == <<row, configured, queueVars, hook, reminderVars, boundVars, behind>>

-----------------------------------------------------------------------------
Settings == [enabled : BOOLEAN, zone : Zones]
DEFAULT_SETTINGS == [enabled |-> FALSE, zone |-> UTC]
NoSettings == [enabled |-> FALSE, zone |-> "none"]

\* The provider stands for every reader; the routes' and AppearanceSync's hooks
\* are like it.
Hooks == {"provider", "form"}

\* The mounted settings form, and the one left behind with its updates.
Instances == {"form", "left"}

\* What one control writes, and what a restored backup writes.
Patches == [{"enabled"} -> BOOLEAN] \cup [{"zone"} -> Zones]
NoPatch == <<>>

patched(settings, patch) ==
  [x \in DOMAIN settings |-> IF x \in DOMAIN patch THEN patch[x] ELSE settings[x]]

\* current: of the newest generation of its hook.
Ops == [kind : {"get", "update", "restore", "setup"},
        by : Hooks \cup Instances \cup {"coordinator", "service"},
        patch : Patches \cup Settings \cup {NoPatch}, current : BOOLEAN]
op(kind, by, patch) == [kind |-> kind, by |-> by, patch |-> patch, current |-> TRUE]
get(by) == op("get", by, NoPatch)

Unmet == [done |-> FALSE, ok |-> FALSE, read |-> NoSettings]

NoHook == [mounted |-> FALSE, settings |-> NoSettings, error |-> FALSE]
mountedHook == [NoHook EXCEPT !.mounted = TRUE]
showing(settings) == [mounted |-> TRUE, settings |-> settings, error |-> FALSE]

-----------------------------------------------------------------------------
(* useSettings: generations, loads, events and the chain of updates *)

\* A newer read or update of a hook begins: answers to its older ones are dropped.
outdate(ops, by) ==
  [i \in DOMAIN ops |-> IF ops[i].by = by THEN [ops[i] EXCEPT !.current = FALSE] ELSE ops[i]]

load(ops, h) == Append(outdate(ops, h), get(h))

\* An update of a form that was left has no screen to answer to.
startUpdate(ops, by, patch) ==
  Append(outdate(ops, by), [op("update", by, patch) EXCEPT !.current = (by # "left")])

notify(ops, h, except) == IF h # except /\ hook[h].mounted THEN load(ops, h) ELSE ops

\* publishSettingsChanged(): every subscribed hook but the origin reads again, in
\* the order they subscribed.
publish(ops, except) == notify(notify(ops, "provider", except), "form", except)

updating(by) == \E i \in DOMAIN queue : queue[i].kind = "update" /\ queue[i].by = by

\* Once an update has settled, the next one of the same hook instance starts.
continue(ops, by) ==
  IF waiting[by] = <<>>
  THEN queue' = ops /\ UNCHANGED waiting
  ELSE /\ queue' = startUpdate(ops, by, Head(waiting[by]))
       /\ waiting' = [waiting EXCEPT ![by] = Tail(@)]

freshHooks == [h \in Hooks |-> IF h = "provider" THEN mountedHook ELSE NoHook]
nothingWaits == [i \in Instances |-> <<>>]

SyncInit ==
  /\ \/ configured = FALSE /\ row = DEFAULT_SETTINGS
     \/ configured = TRUE /\ row \in Settings
  /\ native \in {NoSettings, row}
  /\ queue = <<get("provider")>> /\ slot = Unmet /\ waiting = nothingWaits
  /\ hook = freshHooks
  /\ coord = NoSettings /\ calls = <<>>
  /\ writes = 0 /\ shows = 0
  /\ behind = {} /\ refused = FALSE /\ bypassed = FALSE

-----------------------------------------------------------------------------
(* The settings form and the other writers *)

\* The settings route is mounted: a fresh hook instance reads.
OpenForm ==
  /\ configured /\ ~hook["form"].mounted
  /\ Len(queue) <= MaxQueue
  /\ hook' = [hook EXCEPT !["form"] = mountedHook]
  /\ queue' = load(queue, "form")
  /\ UNCHANGED <<row, configured, slot, waiting, reminderVars, boundVars, behind>>

\* It is left: its updates go on, but answers to it show nothing any more.  Bound:
\* one form at a time is left with updates.
LeaveForm ==
  /\ hook["form"].mounted
  /\ waiting["left"] = <<>> /\ ~updating("left")
  /\ hook' = [hook EXCEPT !["form"] = NoHook]
  /\ queue' = [i \in DOMAIN queue |->
                 IF queue[i].by # "form" THEN queue[i]
                 ELSE [queue[i] EXCEPT !.current = FALSE,
                                       !.by = IF queue[i].kind = "update" THEN "left" ELSE "form"]]
  /\ waiting' = [i \in Instances |-> IF i = "left" THEN waiting["form"] ELSE <<>>]
  /\ behind' = behind \ {"form"}
  /\ UNCHANGED <<row, configured, slot, reminderVars, boundVars>>

\* The controls are rendered once the settings are read.
editable == hook["form"].settings # NoSettings /\ writes < MaxWrites

Update(patch) ==
  /\ editable
  /\ IF updating("form")
     THEN waiting' = [waiting EXCEPT !["form"] = Append(@, patch)] /\ UNCHANGED queue
     ELSE queue' = startUpdate(queue, "form", patch) /\ UNCHANGED waiting
  /\ writes' = writes + 1
  /\ UNCHANGED <<row, configured, hook, slot, reminderVars, shows, behind>>

\* DataTransferService.apply() of a backup, from the card on the same screen.
Restore(settings) ==
  /\ editable
  /\ queue' = Append(queue, op("restore", "service", settings))
  /\ writes' = writes + 1
  /\ UNCHANGED <<row, configured, hook, slot, waiting, reminderVars, shows, behind>>

\* AuthService.setup() seeds the device's time zone; it may be tried again.
Setup(zone) ==
  /\ ~configured
  /\ \A i \in DOMAIN queue : queue[i].kind # "setup"
  /\ queue' = Append(queue, op("setup", "service", [zone |-> zone]))
  /\ UNCHANGED <<row, configured, hook, slot, waiting, reminderVars, boundVars, behind>>

\* "Try again" after a failed first read.
Reload ==
  /\ hook["form"].mounted /\ hook["form"].settings = NoSettings /\ hook["form"].error
  /\ Len(queue) <= MaxQueue
  /\ queue' = load(queue, "form")
  /\ UNCHANGED <<row, configured, hook, slot, waiting, reminderVars, boundVars, behind>>

-----------------------------------------------------------------------------
(* SettingsService over the Serializer *)

first == Head(queue)
rest == Tail(queue)

\* get(): the whole row, or a failed read.
ExecuteGet ==
  /\ queue # <<>> /\ ~slot.done /\ first.kind = "get"
  /\ \E ok \in BOOLEAN :
       slot' = [done |-> TRUE, ok |-> ok, read |-> IF ok THEN row ELSE NoSettings]
  /\ UNCHANGED <<row, configured, queue, waiting, hook, reminderVars, boundVars, behind>>

\* update() and apply(): one transaction, all or nothing.  It can be rejected and
\* yet be stored: the read-back fails, or the answer to the commit is lost.
ExecuteWrite ==
  /\ queue # <<>> /\ ~slot.done /\ first.kind # "get"
  /\ \E ok, durable \in BOOLEAN :
       /\ ok => durable
       /\ row' = IF durable THEN patched(row, first.patch) ELSE row
       /\ slot' = [done |-> TRUE, ok |-> ok, read |-> IF ok THEN row' ELSE NoSettings]
       /\ behind' = IF row' # row /\ (~ok \/ first.kind = "setup")
                    THEN {h \in Hooks : hook[h].mounted}
                    ELSE behind
  /\ UNCHANGED <<configured, queue, waiting, hook, reminderVars, boundVars>>

settled == queue # <<>> /\ slot.done /\ slot' = Unmet

\* WeeklyNotificationCoordinator.enqueue()
reconcileNative(settings) == calls' = Append(calls, settings)

\* Mutant: the coordinator is only told when the reminder is switched.
setOwnerIfSwitched(settings) ==
  /\ coord' = settings
  /\ bypassed' = FALSE
  /\ IF settings.enabled = coord.enabled THEN UNCHANGED calls ELSE reconcileNative(settings)

\* setOwner(): a snapshot it does not hold yet is reconciled.
setOwner(settings) ==
  /\ coord' = settings
  /\ bypassed' = FALSE
  /\ IF settings = coord THEN UNCHANGED calls ELSE reconcileNative(settings)

\* A hook's read is answered.  The provider's effect runs when the settings it
\* shows change.
SettleLoad ==
  /\ settled /\ first.kind = "get" /\ first.by \in Hooks
  /\ queue' = rest
  /\ IF first.current
     THEN hook' = [hook EXCEPT ![first.by] =
                     IF slot.ok THEN showing(slot.read) ELSE [@ EXCEPT !.error = TRUE]]
     ELSE UNCHANGED hook
  /\ behind' = IF first.current /\ slot.ok THEN behind \ {first.by} ELSE behind
  /\ IF hook'["provider"].settings # hook["provider"].settings
     THEN setOwner(slot.read)
     ELSE UNCHANGED <<coord, calls, bypassed>>
  /\ UNCHANGED <<row, configured, waiting, native, refused, boundVars>>

\* reconcile() after the app came back: the stored settings, not the provider's.
SettleReconcile ==
  /\ settled /\ first.kind = "get" /\ first.by = "coordinator"
  /\ queue' = rest
  /\ IF slot.ok
     THEN /\ coord' = slot.read
          /\ reconcileNative(slot.read)
          /\ bypassed' = (slot.read # hook["provider"].settings)
     ELSE UNCHANGED <<coord, calls, bypassed>>
  /\ UNCHANGED <<row, configured, waiting, hook, native, refused, boundVars, behind>>

\* Mutant: a form that was left in the meantime announces nothing.
announcedIfCurrent == slot.ok /\ first.current

\* "The write landed even if THIS instance unmounted mid-flight"
announced == slot.ok

SettleUpdate ==
  /\ settled /\ first.kind = "update"
  /\ hook' = CASE first.current /\ slot.ok  -> [hook EXCEPT !["form"] = showing(slot.read)]
               [] first.current /\ ~slot.ok -> [hook EXCEPT !["form"].error = TRUE]
               [] OTHER                     -> hook
  /\ behind' = IF first.current /\ slot.ok THEN behind \ {"form"} ELSE behind
  /\ continue(IF announced THEN publish(rest, first.by) ELSE rest, first.by)
  /\ UNCHANGED <<row, configured, reminderVars, boundVars>>

SettleRestore ==
  /\ settled /\ first.kind = "restore"
  /\ queue' = IF slot.ok THEN publish(rest, "service") ELSE rest
  /\ UNCHANGED <<row, configured, waiting, hook, reminderVars, boundVars, behind>>

\* The verifier follows, or fails.
SettleSetup ==
  /\ settled /\ first.kind = "setup"
  /\ queue' = rest
  /\ configured' \in {FALSE, slot.ok}
  /\ UNCHANGED <<row, waiting, hook, reminderVars, boundVars, behind>>

-----------------------------------------------------------------------------
\* One native call at a time, in order; a failing one may have half happened.
NativeAnswers ==
  /\ calls # <<>>
  /\ calls' = Tail(calls)
  /\ \/ native' = Head(calls) /\ refused' = FALSE
     \/ native' \in {native, Head(calls)} /\ refused' = TRUE
  /\ UNCHANGED <<row, configured, queueVars, hook, coord, bypassed, boundVars, behind>>

\* The app comes back from the background.
Show ==
  /\ shows < MaxShows /\ shows' = shows + 1
  /\ queue' = Append(queue, get("coordinator"))
  /\ UNCHANGED <<row, configured, slot, waiting, hook, reminderVars, writes, behind>>

\* The process dies and the app is started again.
Restart ==
  /\ queue' = <<get("provider")>> /\ slot' = Unmet /\ waiting' = nothingWaits
  /\ hook' = freshHooks
  /\ coord' = NoSettings /\ calls' = <<>>
  /\ behind' = {} /\ refused' = FALSE /\ bypassed' = FALSE
  /\ UNCHANGED <<row, configured, native, writes, shows>>

SyncNext ==
  \/ OpenForm \/ LeaveForm \/ Reload
  \/ \E patch \in Patches : Update(patch)
  \/ \E settings \in Settings : Restore(settings)
  \/ \E zone \in Zones : Setup(zone)
  \/ ExecuteGet \/ ExecuteWrite
  \/ SettleLoad \/ SettleReconcile \/ SettleUpdate \/ SettleRestore \/ SettleSetup
  \/ NativeAnswers \/ Show \/ Restart

SyncSpec == SyncInit /\ [][SyncNext]_syncVars

-----------------------------------------------------------------------------
Quiet ==
  /\ queue = <<>> /\ calls = <<>>
  /\ \A i \in Instances : waiting[i] = <<>>

\* Once everything has been answered, every hook without an error shows what is
\* stored, whoever wrote it and in whatever order reads, updates and events came;
\* only a change that was stored but rejected, or the first setup's seed, which
\* nobody announces, can leave a hook behind.
HooksConverge ==
  Quiet => \A h \in Hooks :
    hook[h].mounted /\ ~hook[h].error => hook[h].settings = row \/ h \in behind

\* The native reminder then has the stored settings if the provider shows them and
\* the last native call succeeded; only a reading of the coordinator past a
\* provider that was behind can leave it with others.
ReminderFollowsSettings ==
  Quiet /\ hook["provider"].settings = row /\ ~refused => native = row \/ bypassed
=============================================================================
