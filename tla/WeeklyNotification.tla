------------------------- MODULE WeeklyNotification -------------------------
(***************************************************************************)
(* The native weekly reminder of the Android app: the controller that      *)
(* decides whether a due week still has to be announced, the preference    *)
(* file that remembers what was announced, the single alarm that wakes the *)
(* app, and the receiver that runs after an alarm, a boot or a clock       *)
(* change.                                                                 *)
(*                                                                         *)
(* One reconciliation runs at a time (RECONCILIATION_LOCK), but it is a    *)
(* sequence of effects, and the process can be killed between any two of   *)
(* them.  A preference commit that reports failure has already changed     *)
(* the in-memory map; the file may or may not have followed.               *)
(***************************************************************************)
EXTENDS Integers, FiniteSets

CONSTANTS
  Slots,        \* the (timezone, hour) pairs a reminder can be set to
  DefaultSlot,  \* the slot UTC at hour 0, which every device knows
  Period,       \* instants in a week
  Phase,        \* Phase[s]: the instant of the week at which slot s falls due
  MaxTime,      \* bound on the device clock
  Empty         \* preferences that hold no scheduling key

ASSUME PeriodAssumption == Period \in Nat \ {0}
ASSUME SlotsAssumption == DefaultSlot \in Slots
ASSUME PhaseAssumption == Phase \in [Slots -> 0 .. Period - 1]
ASSUME TimeAssumption == MaxTime \in Nat

VARIABLES
  mem,        \* the preference map as the running process sees it
  disk,       \* the preference file
  alarm,      \* the instant the one pending alarm is set for, or NoAlarm
  broadcast,  \* a system broadcast is waiting for the receiver
  clock,      \* the device clock, which the user may also set
  allowed,    \* notification permission, app switch and channel all on
  known,      \* slots whose timezone this OS release knows
  ctl,        \* the reconciliation in progress
  outcome,    \* how the last reconciliation ended
  shown,      \* history: weeks handed to the notification manager
  repeated,   \* history: weeks handed to it more than once
  forgotten   \* history: latest week whose claim a failed post erased

vars == <<mem, disk, alarm, broadcast, clock, allowed, known, ctl, outcome,
          shown, repeated, forgotten>>

environment == <<broadcast, clock, allowed, known>>
history == <<shown, repeated, forgotten>>

-----------------------------------------------------------------------------
Time == 0 .. MaxTime
NoAlarm == -1
NoWeek == -1

\* Week numbers stand for the Monday keys, which order like the dates.
Weeks == Nat
Markers == Weeks \cup {NoWeek}

ReminderSettings == [enabled : BOOLEAN, slot : Slots]
Snapshot == [enabled : BOOLEAN, slot : Slots, last : Markers, claimed : Markers]
Steps == {"idle", "store", "cancel", "plan", "claim", "post", "clear", "record",
          "arm", "rejectCancel", "rejectStore"}

ASSUME EmptyAssumption == Empty \notin Snapshot

Outcomes == {"none", "scheduled", "disabled", "failed", "rejected", "killed"}

\* Mutant: the due week counted from the first Sunday after the epoch.
latestDueWeekOffByOne(s, now) == (now - Phase[s]) \div Period

latestDueWeek(s, now) == (now + Period - Phase[s]) \div Period
nextSundayAt(s, now) == latestDueWeek(s, now) * Period + Phase[s]

\* Mutant: the week after the marker counts as covered.
coveredTooFar(marker, due) == marker + 1 >= due

covered(marker, due) == marker >= due

\* Mutant: a settings change drops the claim.
withSettingsDropsClaim(snapshot, in) ==
  [snapshot EXCEPT !.enabled = in.enabled, !.slot = in.slot, !.claimed = NoWeek]

withSettings(snapshot, in) ==
  [snapshot EXCEPT !.enabled = in.enabled, !.slot = in.slot]

withMarkers(snapshot, last, claimed) ==
  [snapshot EXCEPT !.last = last, !.claimed = claimed]

\* The snapshot a first reconciliation seeds: no week announced yet.
seedSnapshot(in) ==
  [enabled |-> in.enabled, slot |-> in.slot, last |-> NoWeek, claimed |-> NoWeek]

validSettings(in) == in.slot \in known

\* What reading the preferences salvages: an unknown timezone falls back to UTC.
salvage(snapshot) ==
  IF snapshot.slot \in known THEN snapshot
  ELSE [snapshot EXCEPT !.slot = DefaultSlot]

\* Mutant: rejection starts over without the markers.
retainedSnapshotForgets(read) ==
  seedSnapshot([enabled |-> FALSE, slot |-> DefaultSlot])

\* Rejected input or a corrupt file leaves a disabled snapshot with its markers.
retainedSnapshot(read) ==
  IF read = Empty THEN seedSnapshot([enabled |-> FALSE, slot |-> DefaultSlot])
  ELSE [salvage(read) EXCEPT !.enabled = FALSE]

\* commit() applies the edit to the in-memory map first.  TRUE means the file
\* holds it too.  FALSE says nothing about the file, and an exception means
\* neither changed.
writeOk(snapshot) == mem' = snapshot /\ disk' = snapshot

writeFails(snapshot) ==
  \/ mem' = snapshot /\ disk' \in {disk, snapshot}
  \/ UNCHANGED <<mem, disk>>

-----------------------------------------------------------------------------
Resting == [pc |-> "idle", snap |-> seedSnapshot([enabled |-> FALSE, slot |-> DefaultSlot]),
            due |-> 0, next |-> 0, failed |-> FALSE, denied |-> FALSE]

TypeOK ==
  /\ mem \in Snapshot \cup {Empty}
  /\ disk \in Snapshot \cup {Empty}
  /\ alarm \in Nat \cup {NoAlarm}
  /\ broadcast \in BOOLEAN
  /\ clock \in Nat
  /\ allowed \in BOOLEAN
  /\ known \in SUBSET Slots /\ DefaultSlot \in known
  /\ ctl \in [pc : Steps, snap : Snapshot, due : Weeks, next : Nat,
              failed : BOOLEAN, denied : BOOLEAN]
  /\ outcome \in Outcomes
  /\ shown \in SUBSET Weeks
  /\ repeated \in SUBSET Weeks
  /\ forgotten \in Markers

Init ==
  /\ mem = Empty
  /\ disk = Empty
  /\ alarm = NoAlarm
  /\ broadcast = FALSE
  /\ clock = 0
  /\ allowed \in BOOLEAN
  /\ known = Slots
  /\ ctl = Resting
  /\ outcome = "none"
  /\ shown = {}
  /\ repeated = {}
  /\ forgotten = NoWeek

goto(step) == ctl' = [ctl EXCEPT !.pc = step]
fail(step) == ctl' = [ctl EXCEPT !.pc = step, !.failed = TRUE]
finish(result) == ctl' = Resting /\ outcome' = result

-----------------------------------------------------------------------------
\* reconcile(): read the snapshot, reject what is invalid, else prepare the
\* snapshot that carries the incoming settings and the stored markers.
reconcile(in) ==
  /\ ctl.pc = "idle"
  /\ ctl' = IF ~validSettings(in) \/ (mem # Empty /\ mem.slot \notin known)
            THEN [Resting EXCEPT !.pc = "rejectCancel", !.snap = retainedSnapshot(mem)]
            ELSE [Resting EXCEPT !.pc = "store",
                                 !.snap = IF mem = Empty THEN seedSnapshot(in)
                                          ELSE withSettings(mem, in)]
  /\ UNCHANGED <<mem, disk, alarm, outcome, history>>

\* The app calls the plugin with the settings it holds.
AppReconcile(in) == reconcile(in) /\ UNCHANGED environment

\* The receiver reconciles with the stored settings; nothing stored, nothing done.
reconcileStoredState ==
  /\ broadcast
  /\ broadcast' = FALSE
  /\ \/ /\ mem = Empty
        /\ ctl.pc = "idle"
        /\ UNCHANGED <<mem, disk, alarm, ctl, outcome, history>>
     \/ /\ mem # Empty
        /\ reconcile([enabled |-> mem.enabled, slot |-> salvage(mem).slot])
  /\ UNCHANGED <<clock, allowed, known>>

\* The preferences cannot be read: the call fails, the receiver only logs it.
ReadFails ==
  /\ ctl.pc = "idle"
  /\ outcome' = "failed"
  /\ broadcast' \in {broadcast, FALSE}
  /\ UNCHANGED <<mem, disk, alarm, clock, allowed, known, ctl, history>>

StoreSettings ==
  /\ ctl.pc = "store"
  /\ \/ /\ writeOk(ctl.snap)
        /\ goto(IF ctl.snap.enabled THEN "plan" ELSE "cancel")
        /\ UNCHANGED outcome
     \/ /\ writeFails(ctl.snap)
        /\ finish("failed")
  /\ UNCHANGED <<alarm, environment, history>>

cancelAlarm ==
  /\ ctl.pc = "cancel"
  /\ \/ alarm' = NoAlarm /\ finish("disabled")
     \/ alarm' = alarm /\ finish("failed")
  /\ UNCHANGED <<mem, disk, environment, history>>

\* reconcileEnabled() up to the claim: the due week and the next alarm are
\* computed from one reading of the clock; the arithmetic and canPost() may throw.
Plan ==
  /\ ctl.pc = "plan"
  /\ LET due == latestDueWeek(ctl.snap.slot, clock)
         planned == [ctl EXCEPT !.due = due,
                                !.next = nextSundayAt(ctl.snap.slot, clock)]
     IN  \/ /\ covered(ctl.snap.last, due) \/ covered(ctl.snap.claimed, due)
            /\ ctl' = [planned EXCEPT !.pc = "arm"]
            /\ UNCHANGED outcome
         \/ /\ ~covered(ctl.snap.last, due)
            /\ ~covered(ctl.snap.claimed, due)
            /\ ctl' = IF allowed THEN [planned EXCEPT !.pc = "claim"]
                      ELSE [planned EXCEPT !.pc = "arm", !.denied = TRUE]
            /\ UNCHANGED outcome
         \/ finish("failed")
  /\ UNCHANGED <<mem, disk, alarm, environment, history>>

\* Mutant: the claim is written as if the week had been announced.
claimedAsNotified == withMarkers(ctl.snap, ctl.due, ctl.due)

claimedSnapshot == withMarkers(ctl.snap, ctl.snap.last, ctl.due)
clearedSnapshot == withMarkers(ctl.snap, ctl.snap.last, NoWeek)
recordedSnapshot == withMarkers(ctl.snap, ctl.due, NoWeek)

\* Mutant: the result of the claim write is ignored.
WriteClaimUnchecked ==
  /\ ctl.pc = "claim"
  /\ writeOk(claimedSnapshot) \/ writeFails(claimedSnapshot)
  /\ goto("post")
  /\ UNCHANGED <<alarm, outcome, environment, history>>

WriteClaim ==
  /\ ctl.pc = "claim"
  /\ \/ writeOk(claimedSnapshot) /\ goto("post")
     \/ writeFails(claimedSnapshot) /\ fail("arm")
  /\ UNCHANGED <<alarm, outcome, environment, history>>

postWeeklyNotification ==
  /\ ctl.pc = "post"
  /\ \/ /\ shown' = shown \cup {ctl.due}
        /\ repeated' = repeated \cup ({ctl.due} \cap shown)
        /\ goto("record")
     \/ /\ fail("clear")
        /\ UNCHANGED <<shown, repeated>>
  /\ UNCHANGED <<mem, disk, alarm, outcome, environment, forgotten>>

\* After a post that threw: drop the claim so that the week can be retried.
\* The claim this one replaced is dropped with it.
clearClaimBestEffort ==
  /\ ctl.pc = "clear"
  /\ goto("arm")
  /\ \/ /\ mem' = clearedSnapshot
        /\ disk' \in {disk, clearedSnapshot}
        /\ forgotten' = IF ctl.snap.claimed > forgotten THEN ctl.snap.claimed ELSE forgotten
     \/ UNCHANGED <<mem, disk, forgotten>>
  /\ UNCHANGED <<alarm, outcome, environment, shown, repeated>>

RecordPosted ==
  /\ ctl.pc = "record"
  /\ \/ writeOk(recordedSnapshot) /\ goto("arm")
     \/ writeFails(recordedSnapshot) /\ fail("arm")
  /\ UNCHANGED <<alarm, outcome, environment, history>>

\* Mutant: an alarm manager failure is swallowed.
scheduleNextSwallows ==
  /\ ctl.pc = "arm"
  /\ alarm' \in {ctl.next, alarm}
  /\ finish(IF ctl.failed THEN "failed" ELSE "scheduled")
  /\ UNCHANGED <<mem, disk, environment, history>>

scheduleNext ==
  /\ ctl.pc = "arm"
  /\ \/ alarm' = ctl.next /\ finish(IF ctl.failed THEN "failed" ELSE "scheduled")
     \/ alarm' = alarm /\ finish("failed")
  /\ UNCHANGED <<mem, disk, environment, history>>

\* rejectDisabled(): cancel first, then write; the call fails in every case.
RejectCancel ==
  /\ ctl.pc = "rejectCancel"
  /\ alarm' \in {alarm, NoAlarm}
  /\ goto("rejectStore")
  /\ UNCHANGED <<mem, disk, outcome, environment, history>>

RejectStore ==
  /\ ctl.pc = "rejectStore"
  /\ writeOk(ctl.snap) \/ writeFails(ctl.snap)
  /\ finish("rejected")
  /\ UNCHANGED <<alarm, environment, history>>

-----------------------------------------------------------------------------
Tick ==
  /\ clock < MaxTime
  /\ clock' = clock + 1
  /\ UNCHANGED <<mem, disk, alarm, broadcast, allowed, known, ctl, outcome, history>>

\* The user sets the clock, in either direction; the system announces it.
SetClock(t) ==
  /\ clock' = t
  /\ broadcast' = TRUE
  /\ UNCHANGED <<mem, disk, alarm, allowed, known, ctl, outcome, history>>

\* A device timezone change or an app update.
OtherBroadcast ==
  /\ ~broadcast
  /\ broadcast' = TRUE
  /\ UNCHANGED <<mem, disk, alarm, clock, allowed, known, ctl, outcome, history>>

AlarmFires ==
  /\ alarm # NoAlarm
  /\ alarm <= clock
  /\ alarm' = NoAlarm
  /\ broadcast' = TRUE
  /\ UNCHANGED <<mem, disk, clock, allowed, known, ctl, outcome, history>>

PermissionChanges ==
  /\ allowed' = ~allowed
  /\ UNCHANGED <<mem, disk, alarm, broadcast, clock, known, ctl, outcome, history>>

\* The process dies; the next one reads the preferences from the file.
killProcess ==
  /\ mem' = disk
  /\ ctl' = Resting
  /\ outcome' = IF ctl.pc = "idle" THEN outcome ELSE "killed"

Kill ==
  /\ killProcess
  /\ UNCHANGED <<disk, alarm, environment, history>>

\* A reboot drops alarms, may bring other timezone data, and is announced.
Reboot ==
  /\ killProcess
  /\ alarm' = NoAlarm
  /\ broadcast' = TRUE
  /\ known' \in {k \in SUBSET Slots : DefaultSlot \in k}
  /\ UNCHANGED <<disk, clock, allowed, history>>

ControllerStep ==
  \/ StoreSettings \/ cancelAlarm \/ Plan \/ WriteClaim \/ postWeeklyNotification
  \/ clearClaimBestEffort \/ RecordPosted \/ scheduleNext \/ RejectCancel \/ RejectStore

Next ==
  \/ \E in \in ReminderSettings : AppReconcile(in)
  \/ reconcileStoredState
  \/ ReadFails
  \/ ControllerStep
  \/ Tick
  \/ \E t \in Time : SetClock(t)
  \/ OtherBroadcast
  \/ AlarmFires
  \/ PermissionChanges
  \/ Kill
  \/ Reboot

Spec == Init /\ [][Next]_vars

-----------------------------------------------------------------------------
\* Whatever is killed, refused, rolled back or written twice, a week is
\* announced at most once, except a week at or before a claim that a later
\* week overwrote and a failed post then erased (clearClaimBestEffort).
AtMostOncePerWeek == \A w \in repeated : w <= forgotten

\* lastNotifiedWeek, in memory or on file, names a week that was handed to the
\* notification manager: no crash point records a reminder that never went out.
RecordedWasPosted ==
  \A s \in {mem, disk} : s # Empty /\ s.last # NoWeek => s.last \in shown

\* A result is true when it is returned and stays true until something else
\* happens: "scheduled" means a durable enabled snapshot and an alarm on its own
\* slot (or a broadcast that will re-arm it), "disabled" a durable disabled one
\* and no alarm.
ResultIsTruthful ==
  ctl.pc = "idle" =>
    /\ outcome = "scheduled" =>
         /\ mem = disk /\ mem # Empty /\ mem.enabled
         /\ broadcast \/ (alarm # NoAlarm /\ alarm % Period = Phase[mem.slot])
    /\ outcome = "disabled" =>
         disk # Empty /\ ~disk.enabled /\ alarm = NoAlarm

\* The alarm for the next week is armed without failure only when the week due
\* now is taken care of or the user withholds permission: catch-up precedes re-arming.
CatchUpBeforeArming ==
  ctl.pc = "arm" /\ ~ctl.failed /\ ~ctl.denied =>
    mem.last >= ctl.due \/ mem.claimed >= ctl.due

\* Nothing is posted unless the file already holds the claim for that very week
\* in an enabled snapshot, so a crash right after the post cannot repeat it.
PostIsWriteAhead ==
  [][shown' # shown \/ repeated' # repeated =>
       disk # Empty /\ disk.enabled /\ disk.claimed = ctl.due]_vars

\* The durable notified marker never goes back, not even through a rejected
\* reconciliation, a failed write, a crash or a clock set back.
MarkerNeverRegresses ==
  [][disk # Empty => disk' # Empty /\ disk'.last >= disk.last]_vars

=============================================================================
