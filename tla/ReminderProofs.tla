--------------------------- MODULE ReminderProofs ---------------------------
(***************************************************************************)
(* The native weekly reminder, for every set of slots, every week length   *)
(* and every clock: types, the at-most-once promise with its exact         *)
(* exception, the truth of the notified marker, and the two action         *)
(* properties of the preference file.  Then the settings it is to follow,  *)
(* for any time zones and any number of changes, forms and returns: once   *)
(* everything is answered every hook shows what is stored, and the native  *)
(* reminder has it.                                                        *)
(***************************************************************************)
EXTENDS WeeklyNotification, SettingsSync, TLAPS, SequenceTheorems

-----------------------------------------------------------------------------
(* The native reminder *)

\* A week's announcement is remembered by a snapshot.
Remembers(s, w) == s # Empty /\ (s.last >= w \/ s.claimed >= w)

\* Every announced week is either remembered by s or was given up with a claim.
RemembersShown(s) == \A w \in shown : w <= forgotten \/ Remembers(s, w)

\* The notified marker of s names an announced week.
TrueMarker(s) == s # Empty /\ s.last # NoWeek => s.last \in shown

BeforePost == {"store", "cancel", "plan", "claim", "rejectCancel", "rejectStore"}
AfterClaim == {"post", "clear", "record"}

\* The inductive invariant: both copies of the preferences and the snapshot a
\* reconciliation carries remember what was announced; from the claim on, the
\* file holds the claim and the due week is ahead of the carried markers.
MemoryInv == RemembersShown(mem) /\ TrueMarker(mem)
DiskInv == RemembersShown(disk) /\ TrueMarker(disk)
CarriedInv ==
  /\ ctl.pc \in BeforePost \cup {"post", "clear"} => RemembersShown(ctl.snap)
  /\ ctl.pc \in BeforePost \cup AfterClaim => TrueMarker(ctl.snap)
DueInv ==
  ctl.pc \in {"claim"} \cup AfterClaim => ctl.due > ctl.snap.last /\ ctl.due > ctl.snap.claimed
ClaimInv ==
  /\ ctl.pc \in {"plan", "claim"} => ctl.snap.enabled /\ mem = ctl.snap /\ disk = ctl.snap
  /\ ctl.pc \in AfterClaim =>
       ctl.snap.enabled /\ mem = claimedSnapshot /\ disk = claimedSnapshot
  /\ ctl.pc = "record" => ctl.due \in shown
MarkerInv ==
  disk # Empty =>
    /\ mem # Empty /\ mem.last >= disk.last
    /\ ctl.pc \in BeforePost \cup AfterClaim => ctl.snap.last >= disk.last

IInv ==
  /\ TypeOK
  /\ AtMostOncePerWeek
  /\ MemoryInv
  /\ DiskInv
  /\ CarriedInv
  /\ DueInv
  /\ ClaimInv
  /\ MarkerInv

-----------------------------------------------------------------------------
\* The due week and the next instant of a slot are natural numbers.
LEMMA ScheduleType ==
  ASSUME NEW s \in Slots, NEW now \in Nat
  PROVE  latestDueWeek(s, now) \in Nat /\ nextSundayAt(s, now) \in Nat
<1>1. Phase[s] \in 0 .. Period - 1
  BY PhaseAssumption
<1>2. now + Period - Phase[s] \in Nat
  BY <1>1, PeriodAssumption
<1>3. (now + Period - Phase[s]) \div Period \in Nat
  BY <1>2, PeriodAssumption
<1>4. \A d \in Nat : d * Period + Phase[s] \in Nat
  BY <1>1, PeriodAssumption
<1> QED
  BY <1>3, <1>4 DEF latestDueWeek, nextSundayAt

\* The three snapshots a reconciliation derives from the one it carries.
LEMMA MarkedSnapshots ==
  ASSUME TypeOK
  PROVE  /\ ctl.snap # Empty
         /\ claimedSnapshot \in Snapshot /\ claimedSnapshot # Empty
         /\ clearedSnapshot \in Snapshot /\ clearedSnapshot # Empty
         /\ recordedSnapshot \in Snapshot /\ recordedSnapshot # Empty
         /\ claimedSnapshot.enabled = ctl.snap.enabled
         /\ claimedSnapshot.last = ctl.snap.last /\ claimedSnapshot.claimed = ctl.due
         /\ clearedSnapshot.last = ctl.snap.last /\ clearedSnapshot.claimed = NoWeek
         /\ recordedSnapshot.last = ctl.due /\ recordedSnapshot.claimed = NoWeek
<1>1. ctl.snap \in Snapshot /\ ctl.due \in Markers /\ ctl.snap.last \in Markers
  BY DEF TypeOK, Snapshot, Markers
<1>2. /\ claimedSnapshot \in Snapshot /\ clearedSnapshot \in Snapshot
      /\ recordedSnapshot \in Snapshot
  BY <1>1 DEF claimedSnapshot, clearedSnapshot, recordedSnapshot, withMarkers, Snapshot, Markers
<1> QED
  BY <1>1, <1>2, EmptyAssumption
     DEF claimedSnapshot, clearedSnapshot, recordedSnapshot, withMarkers, Snapshot

LEMMA RestingType == Resting \in [pc : Steps, snap : Snapshot, due : Weeks, next : Nat,
                                  failed : BOOLEAN, denied : BOOLEAN]
BY SlotsAssumption DEF Resting, Steps, Snapshot, Weeks, Markers, NoWeek, seedSnapshot

\* Type correctness: every variable keeps its type under every step, crash
\* and environment change (the state of WeeklyNotificationController and of
\* AndroidWeeklyNotificationPlatform).
THEOREM TypeCorrect == Spec => []TypeOK
<1>1. Init => TypeOK
  <2> SUFFICES ASSUME Init PROVE TypeOK
    OBVIOUS
  <2>1. alarm \in Nat \cup {NoAlarm} /\ forgotten \in Markers /\ outcome \in Outcomes
    BY DEF Init, Markers, Outcomes
  <2> QED
    BY <2>1, SlotsAssumption, RestingType DEF Init, TypeOK
<1>2. TypeOK /\ [Next]_vars => TypeOK'
  <2> SUFFICES ASSUME TypeOK, [Next]_vars PROVE TypeOK'
    OBVIOUS
  <2> USE SlotsAssumption, EmptyAssumption, RestingType
      DEF TypeOK, environment, history, goto, fail, finish, writeOk, writeFails
  <2>1. ASSUME NEW in \in ReminderSettings, reconcile(in),
               broadcast' \in BOOLEAN, UNCHANGED <<clock, allowed, known>>
        PROVE  TypeOK'
    <3>1. seedSnapshot(in) \in Snapshot
      BY DEF seedSnapshot, ReminderSettings, Snapshot, Markers
    <3>2. ASSUME mem # Empty
          PROVE  withSettings(mem, in) \in Snapshot
      BY <3>2 DEF withSettings, ReminderSettings, Snapshot
    <3>3. retainedSnapshot(mem) \in Snapshot
      <4>1. CASE mem = Empty
        BY <4>1 DEF retainedSnapshot, seedSnapshot, Snapshot, Markers
      <4>2. CASE mem # Empty
        <5>1. salvage(mem) \in Snapshot
          BY <4>2 DEF salvage, Snapshot
        <5> QED
          BY <4>2, <5>1 DEF retainedSnapshot, Snapshot
      <4> QED
        BY <4>1, <4>2
    <3>4. ctl' \in [pc : Steps, snap : Snapshot, due : Weeks, next : Nat,
                    failed : BOOLEAN, denied : BOOLEAN]
      BY <2>1, <3>1, <3>2, <3>3 DEF reconcile, Steps
    <3> QED
      BY <2>1, <3>4 DEF reconcile
  <2>2. ASSUME NEW in \in ReminderSettings, AppReconcile(in)
        PROVE  TypeOK'
    BY <2>1, <2>2 DEF AppReconcile
  <2>3. CASE reconcileStoredState
    <3>1. mem # Empty => [enabled |-> mem.enabled, slot |-> salvage(mem).slot] \in ReminderSettings
      BY DEF salvage, ReminderSettings, Snapshot
    <3> QED
      BY <2>1, <2>3, <3>1 DEF reconcileStoredState
  <2>4. CASE StoreSettings
    BY <2>4 DEF StoreSettings, Steps, Outcomes
  <2>5. CASE cancelAlarm
    BY <2>5 DEF cancelAlarm, Outcomes, NoAlarm
  <2>6. CASE Plan
    <3>1. latestDueWeek(ctl.snap.slot, clock) \in Nat /\ nextSundayAt(ctl.snap.slot, clock) \in Nat
      BY ScheduleType DEF Snapshot
    <3> DEFINE planned == [ctl EXCEPT !.due = latestDueWeek(ctl.snap.slot, clock),
                                      !.next = nextSundayAt(ctl.snap.slot, clock)]
    <3>2. \/ ctl' = [planned EXCEPT !.pc = "arm"] /\ UNCHANGED outcome
          \/ ctl' = [planned EXCEPT !.pc = "claim"] /\ UNCHANGED outcome
          \/ ctl' = [planned EXCEPT !.pc = "arm", !.denied = TRUE] /\ UNCHANGED outcome
          \/ ctl' = Resting /\ outcome' = "failed"
      BY <2>6 DEF Plan
    <3>3. UNCHANGED <<mem, disk, alarm, broadcast, clock, allowed, known, shown, repeated, forgotten>>
      BY <2>6 DEF Plan
    <3>4. planned \in [pc : Steps, snap : Snapshot, due : Weeks, next : Nat,
                       failed : BOOLEAN, denied : BOOLEAN]
      BY <3>1 DEF Weeks
    <3> QED
      BY <3>2, <3>3, <3>4 DEF Steps, Outcomes
  <2>7. claimedSnapshot \in Snapshot /\ clearedSnapshot \in Snapshot /\ recordedSnapshot \in Snapshot
    BY MarkedSnapshots
  <2>8. CASE WriteClaim
    BY <2>7, <2>8 DEF WriteClaim, Steps
  <2>9. CASE postWeeklyNotification
    BY <2>9 DEF postWeeklyNotification, Steps
  <2>10. CASE clearClaimBestEffort
    BY <2>7, <2>10 DEF clearClaimBestEffort, Steps, Snapshot
  <2>11. CASE RecordPosted
    BY <2>7, <2>11 DEF RecordPosted, Steps
  <2>12. CASE scheduleNext
    BY <2>12 DEF scheduleNext, Outcomes
  <2>13. CASE RejectCancel
    BY <2>13 DEF RejectCancel, Steps
  <2>14. CASE RejectStore
    BY <2>14 DEF RejectStore, Outcomes
  <2>15. CASE Tick
    BY <2>15 DEF Tick
  <2>16. ASSUME NEW t \in Time, SetClock(t)
         PROVE  TypeOK'
    BY <2>16, TimeAssumption DEF SetClock, Time
  <2>17. CASE ReadFails \/ OtherBroadcast \/ AlarmFires \/ PermissionChanges
    BY <2>17 DEF ReadFails, OtherBroadcast, AlarmFires, PermissionChanges, Outcomes
  <2>18. CASE Kill \/ Reboot
    BY <2>18 DEF Kill, Reboot, killProcess, Outcomes
  <2>19. CASE UNCHANGED vars
    BY <2>19 DEF vars
  <2> QED
    BY <2>2, <2>3, <2>4, <2>5, <2>6, <2>8, <2>9, <2>10, <2>11, <2>12, <2>13, <2>14,
       <2>15, <2>16, <2>17, <2>18, <2>19 DEF Next, ControllerStep
<1> QED
  BY <1>1, <1>2, PTL DEF Spec

-----------------------------------------------------------------------------
\* Starting a reconciliation copies the markers of the in-memory snapshot, or
\* none when nothing is stored.
LEMMA ReconcilePreserves ==
  ASSUME IInv, TypeOK', NEW in \in ReminderSettings, reconcile(in)
  PROVE  IInv'
<1> USE DEF IInv, NoWeek
<1>1. UNCHANGED <<mem, disk, shown, repeated, forgotten>>
  BY DEF reconcile, history
<1>2. ctl'.pc \in BeforePost \ {"plan", "claim"}
  BY DEF reconcile, Resting, BeforePost
<1>3. CASE mem = Empty
  <2>1. ctl'.snap.last = NoWeek /\ ctl'.snap.claimed = NoWeek
    BY <1>3 DEF reconcile, Resting, retainedSnapshot, seedSnapshot
  <2>2. disk = Empty
    BY <1>3 DEF MarkerInv
  <2>3. \A w \in shown : w <= forgotten
    BY <1>3 DEF MemoryInv, RemembersShown, Remembers
  <2> QED
    BY <1>1, <1>2, <2>1, <2>2, <2>3
       DEF AtMostOncePerWeek, MemoryInv, DiskInv, CarriedInv, DueInv, ClaimInv, MarkerInv,
           RemembersShown, TrueMarker, Remembers, BeforePost, AfterClaim
<1>4. CASE mem # Empty
  <2>1. mem \in Snapshot
    BY <1>4 DEF TypeOK
  <2>2. ctl'.snap.last = mem.last /\ ctl'.snap.claimed = mem.claimed
    BY <1>4, <2>1 DEF reconcile, Resting, retainedSnapshot, salvage, withSettings, Snapshot
  <2>3. ctl'.snap # Empty
    BY EmptyAssumption DEF TypeOK
  <2> QED
    BY <1>1, <1>2, <1>4, <2>2, <2>3
       DEF AtMostOncePerWeek, MemoryInv, DiskInv, CarriedInv, DueInv, ClaimInv, MarkerInv,
           RemembersShown, TrueMarker, Remembers, BeforePost, AfterClaim
<1> QED
  BY <1>3, <1>4

\* A step that leaves the preferences, the carried snapshot, the due week and
\* the history alone, and moves to a step that asks no more, keeps IInv.
LEMMA QuietPreserves ==
  ASSUME IInv, TypeOK', UNCHANGED <<mem, disk, shown, repeated, forgotten>>,
         \/ ctl'.pc \in {"idle", "arm"}
         \/ ctl' = ctl
         \/ ctl.pc = "rejectCancel" /\ ctl' = [ctl EXCEPT !.pc = "rejectStore"]
  PROVE  IInv'
<1>1. CASE ctl'.pc \in {"idle", "arm"}
  BY <1>1 DEF IInv, AtMostOncePerWeek, MemoryInv, DiskInv, CarriedInv, DueInv, ClaimInv,
              MarkerInv, RemembersShown, TrueMarker, Remembers, BeforePost, AfterClaim
<1>2. CASE ctl' = ctl
  BY <1>2 DEF IInv, AtMostOncePerWeek, MemoryInv, DiskInv, CarriedInv, DueInv, ClaimInv,
              MarkerInv, RemembersShown, TrueMarker, Remembers, BeforePost, AfterClaim,
              claimedSnapshot
<1>3. CASE ctl.pc = "rejectCancel" /\ ctl' = [ctl EXCEPT !.pc = "rejectStore"]
  <2>1. ctl'.pc = "rejectStore" /\ ctl'.snap = ctl.snap
    BY <1>3 DEF IInv, TypeOK
  <2> QED
    BY <1>3, <2>1
       DEF IInv, AtMostOncePerWeek, MemoryInv, DiskInv, CarriedInv, DueInv, ClaimInv,
           MarkerInv, RemembersShown, TrueMarker, Remembers, BeforePost, AfterClaim
<1> QED
  BY <1>1, <1>2, <1>3

\* The program's writes and the post, one step of the controller at a time.
LEMMA ControllerPreserves ==
  ASSUME IInv, TypeOK', ControllerStep
  PROVE  IInv'
<1> USE EmptyAssumption DEF NoWeek
<1> DEFINE Parts == /\ AtMostOncePerWeek' /\ MemoryInv' /\ DiskInv' /\ CarriedInv'
                    /\ DueInv' /\ ClaimInv' /\ MarkerInv'
<1>1. TypeOK /\ ctl.snap # Empty /\ ctl.snap \in Snapshot
  BY DEF IInv, TypeOK
<1>2. CASE StoreSettings
  <2>1. ctl.pc = "store" /\ UNCHANGED <<shown, repeated, forgotten>>
    BY <1>2 DEF StoreSettings, history
  <2>2. RemembersShown(ctl.snap) /\ TrueMarker(ctl.snap)
    BY <2>1 DEF IInv, CarriedInv, BeforePost
  <2>3. disk # Empty => ctl.snap.last >= disk.last
    BY <2>1 DEF IInv, MarkerInv, BeforePost
  <2>4. CASE mem' = ctl.snap /\ disk' = ctl.snap /\ ctl' = [ctl EXCEPT !.pc = IF ctl.snap.enabled THEN "plan" ELSE "cancel"]
    <3>1. ctl'.snap = ctl.snap /\ ctl'.pc = IF ctl.snap.enabled THEN "plan" ELSE "cancel"
      BY <2>4, <1>1 DEF TypeOK
    <3> QED
      BY <1>1, <2>1, <2>2, <2>4, <3>1
         DEF IInv, AtMostOncePerWeek, MemoryInv, DiskInv, CarriedInv, DueInv, ClaimInv,
             MarkerInv, RemembersShown, TrueMarker, Remembers, BeforePost, AfterClaim,
             Snapshot, Markers, Weeks
  <2>5. CASE writeFails(ctl.snap) /\ finish("failed")
    <3>1. ctl'.pc = "idle"
      BY <2>5 DEF finish, Resting
    <3> QED
      BY <1>1, <2>1, <2>2, <2>3, <2>5, <3>1
         DEF IInv, AtMostOncePerWeek, MemoryInv, DiskInv, CarriedInv, DueInv, ClaimInv,
             MarkerInv, RemembersShown, TrueMarker, Remembers, BeforePost, AfterClaim,
             writeFails, Snapshot, Markers, Weeks
  <2> QED
    BY <1>2, <2>4, <2>5 DEF StoreSettings, writeOk, goto
<1>3. CASE RejectStore
  <2>1. ctl.pc = "rejectStore" /\ ctl'.pc = "idle" /\ UNCHANGED <<shown, repeated, forgotten>>
    BY <1>3 DEF RejectStore, history, finish, Resting
  <2>2. RemembersShown(ctl.snap) /\ TrueMarker(ctl.snap)
    BY <2>1 DEF IInv, CarriedInv, BeforePost
  <2>3. disk # Empty => ctl.snap.last >= disk.last
    BY <2>1 DEF IInv, MarkerInv, BeforePost
  <2> QED
    BY <1>1, <1>3, <2>1, <2>2, <2>3
       DEF IInv, AtMostOncePerWeek, MemoryInv, DiskInv, CarriedInv, DueInv, ClaimInv,
           MarkerInv, RemembersShown, TrueMarker, Remembers, BeforePost, AfterClaim,
           RejectStore, writeOk, writeFails, Snapshot, Markers, Weeks
<1>4. CASE Plan
  <2>1. /\ ctl.pc = "plan"
        /\ UNCHANGED <<mem, disk, shown, repeated, forgotten>>
    BY <1>4 DEF Plan, history
  <2>2. CASE ctl'.pc \in {"idle", "arm"}
    BY <2>1, <2>2, QuietPreserves
  <2>3. CASE ctl'.pc \notin {"idle", "arm"}
    <3>1. /\ ctl'.pc = "claim" /\ ctl'.snap = ctl.snap
          /\ ~covered(ctl.snap.last, ctl'.due) /\ ~covered(ctl.snap.claimed, ctl'.due)
      <4> DEFINE planned(d, n) == [ctl EXCEPT !.due = d, !.next = n]
      <4>1. PICK d, n :
              /\ \/ ctl' = [planned(d, n) EXCEPT !.pc = "arm"]
                 \/ ctl' = [planned(d, n) EXCEPT !.pc = "arm", !.denied = TRUE]
                 \/ /\ ctl' = [planned(d, n) EXCEPT !.pc = "claim"]
                    /\ ~covered(ctl.snap.last, d) /\ ~covered(ctl.snap.claimed, d)
                 \/ ctl' = Resting
        BY <1>4 DEF Plan, finish
      <4>2. ctl' # Resting
        BY <2>3 DEF Resting
      <4> QED
        BY <1>1, <2>3, <4>1, <4>2 DEF TypeOK
    <3>2. ctl'.due > ctl.snap.last /\ ctl'.due > ctl.snap.claimed
      BY <3>1, <1>1 DEF covered, TypeOK, Snapshot, Markers, Weeks
    <3> QED
      BY <1>1, <2>1, <3>1, <3>2
         DEF IInv, AtMostOncePerWeek, MemoryInv, DiskInv, CarriedInv, DueInv, ClaimInv,
             MarkerInv, RemembersShown, TrueMarker, Remembers, BeforePost, AfterClaim
  <2> QED
    BY <2>2, <2>3
<1>5. CASE WriteClaim
  <2>1. /\ ctl.pc = "claim" /\ ctl'.snap = ctl.snap /\ ctl'.due = ctl.due
        /\ UNCHANGED <<shown, repeated, forgotten>>
    BY <1>1, <1>5 DEF WriteClaim, history, goto, fail, TypeOK
  <2>2. \/ ctl'.pc = "post" /\ mem' = claimedSnapshot /\ disk' = claimedSnapshot
        \/ ctl'.pc = "arm" /\ mem' = claimedSnapshot /\ disk' \in {disk, claimedSnapshot}
        \/ ctl'.pc = "arm" /\ UNCHANGED <<mem, disk>>
    BY <1>1, <1>5 DEF WriteClaim, writeOk, writeFails, goto, fail, TypeOK
  <2>3. /\ claimedSnapshot # Empty /\ claimedSnapshot.last = ctl.snap.last
        /\ claimedSnapshot.claimed = ctl.due /\ claimedSnapshot' = claimedSnapshot
    <3>1. claimedSnapshot' = claimedSnapshot
      BY <2>1 DEF claimedSnapshot
    <3> QED
      BY <1>1, <3>1, MarkedSnapshots
  <2>4. RemembersShown(claimedSnapshot) /\ TrueMarker(claimedSnapshot)
    BY <1>1, <2>1, <2>3 DEF IInv, CarriedInv, DueInv, RemembersShown, TrueMarker, Remembers,
       BeforePost, AfterClaim, TypeOK, Snapshot, Markers, Weeks
  <2> QED
    BY <1>1, <2>1, <2>2, <2>3, <2>4
       DEF IInv, AtMostOncePerWeek, MemoryInv, DiskInv, CarriedInv, DueInv, ClaimInv,
           MarkerInv, RemembersShown, TrueMarker, Remembers, BeforePost, AfterClaim,
           Snapshot, Markers, Weeks
<1>6. CASE postWeeklyNotification
  <2>1. /\ ctl.pc = "post" /\ ctl'.snap = ctl.snap /\ ctl'.due = ctl.due
        /\ claimedSnapshot' = claimedSnapshot
        /\ UNCHANGED <<mem, disk, forgotten>>
    <3>1. /\ ctl.pc = "post" /\ ctl'.snap = ctl.snap /\ ctl'.due = ctl.due
          /\ UNCHANGED <<mem, disk, forgotten>>
      BY <1>1, <1>6 DEF postWeeklyNotification, goto, fail, TypeOK
    <3> QED
      BY <3>1 DEF claimedSnapshot
  <2>2. /\ claimedSnapshot # Empty /\ claimedSnapshot.last = ctl.snap.last
        /\ claimedSnapshot.claimed = ctl.due
    BY <1>1, MarkedSnapshots
  <2>3. ctl.due \in shown => ctl.due <= forgotten
    BY <1>1, <2>1 DEF IInv, CarriedInv, DueInv, RemembersShown, Remembers, BeforePost,
       AfterClaim, TypeOK, Snapshot, Markers, Weeks
  <2>4. CASE ctl'.pc = "record" /\ shown' = shown \cup {ctl.due}
              /\ repeated' = repeated \cup ({ctl.due} \cap shown)
    BY <1>1, <2>1, <2>2, <2>3, <2>4
       DEF IInv, AtMostOncePerWeek, MemoryInv, DiskInv, CarriedInv, DueInv, ClaimInv,
           MarkerInv, RemembersShown, TrueMarker, Remembers, BeforePost, AfterClaim,
           TypeOK, Snapshot, Markers, Weeks
  <2>5. CASE ctl'.pc = "clear" /\ UNCHANGED <<shown, repeated>>
    BY <1>1, <2>1, <2>2, <2>5
       DEF IInv, AtMostOncePerWeek, MemoryInv, DiskInv, CarriedInv, DueInv, ClaimInv,
           MarkerInv, RemembersShown, TrueMarker, Remembers, BeforePost, AfterClaim
  <2> QED
    BY <1>1, <1>6, <2>4, <2>5 DEF postWeeklyNotification, goto, fail, TypeOK
<1>7. CASE clearClaimBestEffort
  <2>1. /\ ctl.pc = "clear" /\ ctl'.pc = "arm"
        /\ UNCHANGED <<shown, repeated>>
    BY <1>1, <1>7 DEF clearClaimBestEffort, goto, TypeOK
  <2>2. CASE UNCHANGED <<mem, disk, forgotten>>
    BY <2>1, <2>2, QuietPreserves
  <2>3. CASE /\ mem' = clearedSnapshot
             /\ disk' \in {disk, clearedSnapshot}
             /\ forgotten' = IF ctl.snap.claimed > forgotten THEN ctl.snap.claimed ELSE forgotten
    <3>1. /\ clearedSnapshot # Empty /\ clearedSnapshot.last = ctl.snap.last
          /\ clearedSnapshot.claimed = NoWeek
      BY <1>1, MarkedSnapshots
    <3>2. forgotten' \in Int /\ forgotten' >= forgotten /\ forgotten' >= ctl.snap.claimed
      BY <1>1, <2>3 DEF TypeOK, Snapshot, Markers, Weeks
    <3>3. \A w \in shown : w <= forgotten' \/ ctl.snap.last >= w
      BY <1>1, <2>1, <3>2 DEF IInv, CarriedInv, RemembersShown, Remembers, BeforePost,
         TypeOK, Snapshot, Markers, Weeks
    <3>4. TrueMarker(ctl.snap) /\ (disk # Empty => ctl.snap.last >= disk.last)
      BY <2>1 DEF IInv, CarriedInv, MarkerInv, AfterClaim
    <3>5. \A w \in shown : w <= forgotten' \/ Remembers(disk, w)
      BY <1>1, <3>2 DEF IInv, DiskInv, RemembersShown, Remembers, TypeOK, Markers, Weeks
    <3>6. AtMostOncePerWeek'
      BY <1>1, <2>1, <3>2 DEF IInv, AtMostOncePerWeek, TypeOK, Markers, Weeks
    <3>7. MemoryInv' /\ DiskInv'
      BY <1>1, <2>1, <2>3, <3>1, <3>3, <3>4, <3>5
         DEF IInv, MemoryInv, DiskInv, RemembersShown, TrueMarker, Remembers
    <3>8. MarkerInv'
      BY <1>1, <2>1, <2>3, <3>1, <3>4
         DEF IInv, MarkerInv, BeforePost, AfterClaim, TypeOK, Snapshot, Markers, Weeks
    <3> QED
      BY <2>1, <3>6, <3>7, <3>8 DEF IInv, CarriedInv, DueInv, ClaimInv, BeforePost, AfterClaim
  <2> QED
    BY <1>7, <2>2, <2>3 DEF clearClaimBestEffort
<1>8. CASE RecordPosted
  <2>1. /\ ctl.pc = "record" /\ ctl'.pc = "arm"
        /\ UNCHANGED <<shown, repeated, forgotten>>
    BY <1>1, <1>8 DEF RecordPosted, goto, fail, history, TypeOK
  <2>2. /\ mem' \in {mem, recordedSnapshot} /\ disk' \in {disk, recordedSnapshot}
        /\ disk' = disk \/ mem' = recordedSnapshot
    BY <1>8 DEF RecordPosted, writeOk, writeFails
  <2>3. /\ recordedSnapshot # Empty /\ recordedSnapshot.last = ctl.due
        /\ claimedSnapshot.last = ctl.snap.last /\ claimedSnapshot.claimed = ctl.due
    BY <1>1, MarkedSnapshots
  <2>4. mem = claimedSnapshot /\ disk = claimedSnapshot /\ ctl.due \in shown
        /\ ctl.due > ctl.snap.last
    BY <2>1 DEF IInv, ClaimInv, DueInv, AfterClaim
  <2>5. RemembersShown(recordedSnapshot) /\ TrueMarker(recordedSnapshot)
    BY <1>1, <2>3, <2>4 DEF IInv, MemoryInv, RemembersShown, TrueMarker, Remembers,
       TypeOK, Snapshot, Markers, Weeks
  <2>6. MemoryInv' /\ DiskInv' /\ AtMostOncePerWeek'
    BY <2>1, <2>2, <2>5
       DEF IInv, MemoryInv, DiskInv, AtMostOncePerWeek, RemembersShown, TrueMarker, Remembers
  <2>7. MarkerInv'
    BY <1>1, <2>1, <2>2, <2>3, <2>4
       DEF IInv, MarkerInv, BeforePost, AfterClaim, TypeOK, Snapshot, Markers, Weeks
  <2> QED
    BY <2>1, <2>6, <2>7 DEF IInv, CarriedInv, DueInv, ClaimInv, BeforePost, AfterClaim
<1>9. CASE cancelAlarm \/ scheduleNext \/ RejectCancel
  BY <1>9, QuietPreserves
     DEF cancelAlarm, scheduleNext, RejectCancel, history, finish, Resting, goto
<1> QED
  BY <1>2, <1>3, <1>4, <1>5, <1>6, <1>7, <1>8, <1>9 DEF ControllerStep

\* A killed process forgets its copy: the file alone carries the promise.
LEMMA KillPreserves ==
  ASSUME IInv, TypeOK', killProcess, UNCHANGED <<disk, shown, repeated, forgotten>>
  PROVE  IInv'
<1>1. mem' = disk /\ ctl'.pc = "idle"
  BY DEF killProcess, Resting
<1>2. disk # Empty => disk.last \in Int
  BY DEF IInv, TypeOK, Snapshot, Markers, Weeks, NoWeek
<1> QED
  BY <1>1, <1>2
     DEF IInv, AtMostOncePerWeek, MemoryInv, DiskInv, CarriedInv, DueInv, ClaimInv,
         MarkerInv, RemembersShown, TrueMarker, Remembers, BeforePost, AfterClaim

LEMMA InitInvariant == Init => IInv
<1> SUFFICES ASSUME Init PROVE IInv
  OBVIOUS
<1>1. TypeOK
  <2>1. alarm \in Nat \cup {NoAlarm} /\ forgotten \in Markers /\ outcome \in Outcomes
    BY DEF Init, Markers, Outcomes
  <2> QED
    BY <2>1, SlotsAssumption, RestingType DEF Init, TypeOK
<1> QED
  BY <1>1 DEF Init, IInv, AtMostOncePerWeek, MemoryInv, DiskInv, CarriedInv, DueInv,
     ClaimInv, MarkerInv, RemembersShown, TrueMarker, Remembers, Resting, BeforePost, AfterClaim

LEMMA StepInvariant == IInv /\ TypeOK' /\ [Next]_vars => IInv'
<1> SUFFICES ASSUME IInv, TypeOK', [Next]_vars PROVE IInv'
  OBVIOUS
<1>1. ASSUME NEW in \in ReminderSettings, AppReconcile(in)
      PROVE  IInv'
  BY <1>1, ReconcilePreserves DEF AppReconcile
<1>2. CASE reconcileStoredState
  <2>1. CASE mem = Empty
    BY <1>2, <2>1, QuietPreserves DEF reconcileStoredState, history
  <2>2. CASE mem # Empty
    <3>1. [enabled |-> mem.enabled, slot |-> salvage(mem).slot] \in ReminderSettings
      BY <2>2, SlotsAssumption DEF IInv, TypeOK, salvage, ReminderSettings, Snapshot
    <3> QED
      BY <1>2, <2>2, <3>1, ReconcilePreserves DEF reconcileStoredState
  <2> QED
    BY <2>1, <2>2
<1>3. CASE ControllerStep
  BY <1>3, ControllerPreserves
<1>4. CASE ReadFails \/ Tick \/ (\E t \in Time : SetClock(t)) \/ OtherBroadcast \/ AlarmFires
           \/ PermissionChanges
  BY <1>4, QuietPreserves
     DEF ReadFails, Tick, SetClock, OtherBroadcast, AlarmFires, PermissionChanges, history
<1>5. CASE Kill \/ Reboot
  BY <1>5, KillPreserves DEF Kill, Reboot, history
<1>6. CASE UNCHANGED vars
  BY <1>6, QuietPreserves DEF vars
<1> QED
  BY <1>1, <1>2, <1>3, <1>4, <1>5, <1>6 DEF Next

THEOREM InductiveInvariant == Spec => []IInv
<1>1. IInv /\ TypeOK' /\ [Next]_vars => IInv'
  BY StepInvariant
<1> QED
  BY <1>1, InitInvariant, TypeCorrect, PTL DEF Spec

\* The weekly reminder is announced at most once per week, whatever crashes,
\* refused writes, clock changes and settings changes happen in between; the
\* only exception is a week whose claim was overwritten and then erased.
THEOREM AtMostOnce == Spec => []AtMostOncePerWeek
<1>1. IInv => AtMostOncePerWeek
  BY DEF IInv
<1> QED
  BY <1>1, InductiveInvariant, PTL

\* No crash point leaves lastNotifiedWeek naming a week that never went out.
THEOREM NotifiedWasPosted == Spec => []RecordedWasPosted
<1>1. IInv => RecordedWasPosted
  BY DEF IInv, MemoryInv, DiskInv, TrueMarker, RecordedWasPosted
<1> QED
  BY <1>1, InductiveInvariant, PTL

\* A post happens only under a durable claim of the same week.
THEOREM WriteAhead == Spec => PostIsWriteAhead
<1>1. IInv /\ [Next]_vars =>
        [shown' # shown \/ repeated' # repeated =>
           disk # Empty /\ disk.enabled /\ disk.claimed = ctl.due]_vars
  <2> SUFFICES ASSUME IInv, Next, shown' # shown \/ repeated' # repeated
               PROVE  disk # Empty /\ disk.enabled /\ disk.claimed = ctl.due
    BY DEF vars
  <2>1. postWeeklyNotification
    BY DEF Next, AppReconcile, reconcile, reconcileStoredState, ReadFails, ControllerStep, StoreSettings,
           cancelAlarm, Plan, WriteClaim, clearClaimBestEffort, RecordPosted, scheduleNext,
           RejectCancel, RejectStore, Tick, SetClock, OtherBroadcast, AlarmFires,
           PermissionChanges, Kill, Reboot, history
  <2>2. ctl.snap.enabled /\ disk = claimedSnapshot /\ ctl.snap \in Snapshot
    BY <2>1 DEF IInv, ClaimInv, AfterClaim, postWeeklyNotification, TypeOK
  <2> QED
    BY <2>2, MarkedSnapshots DEF IInv
<1> QED
  BY <1>1, InductiveInvariant, PTL DEF Spec, PostIsWriteAhead

\* The durable notified marker never regresses.
THEOREM MarkerMonotone == Spec => MarkerNeverRegresses
<1>1. IInv /\ IInv' /\ [Next]_vars =>
        [disk # Empty => disk' # Empty /\ disk'.last >= disk.last]_vars
  <2> SUFFICES ASSUME IInv, IInv', Next, disk # Empty
               PROVE  disk' # Empty /\ disk'.last >= disk.last
    BY DEF vars
  <2>1. disk \in Snapshot /\ disk.last \in Int /\ ctl.snap \in Snapshot /\ ctl.due \in Nat
    BY DEF IInv, TypeOK, Snapshot, Markers, Weeks, NoWeek
  <2>2. \/ disk' = disk
        \/ ctl.pc \in {"store", "rejectStore"} /\ disk' = ctl.snap
        \/ ctl.pc = "claim" /\ disk' = claimedSnapshot
        \/ ctl.pc = "clear" /\ disk' = clearedSnapshot
        \/ ctl.pc = "record" /\ disk' = recordedSnapshot
    BY DEF Next, AppReconcile, reconcile, reconcileStoredState, ReadFails, ControllerStep, StoreSettings,
           cancelAlarm, Plan, WriteClaim, postWeeklyNotification, clearClaimBestEffort,
           RecordPosted, scheduleNext, RejectCancel, RejectStore, Tick, SetClock,
           OtherBroadcast, AlarmFires, PermissionChanges, Kill, Reboot, writeOk, writeFails
  <2>4. ctl.pc \in BeforePost \cup AfterClaim => ctl.snap.last >= disk.last
    BY DEF IInv, MarkerInv
  <2>5. ctl.pc = "record" => ctl.due > ctl.snap.last
    BY DEF IInv, DueInv, AfterClaim
  <2> QED
    BY <2>1, <2>2, <2>4, <2>5, MarkedSnapshots
       DEF IInv, BeforePost, AfterClaim, Snapshot, Markers, Weeks, NoWeek
<1> QED
  BY <1>1, InductiveInvariant, PTL DEF Spec, MarkerNeverRegresses

-----------------------------------------------------------------------------
\* An alarm the controller computes is on its slot: the remainder by the week
\* recovers the phase.
LEMMA NextIsOnSlot ==
  ASSUME NEW s \in Slots, NEW now \in Nat
  PROVE  nextSundayAt(s, now) % Period = Phase[s]
<1> DEFINE d == latestDueWeek(s, now)
           n == d * Period + Phase[s]
           q == n \div Period
           m == n % Period
<1>1. Period \in Nat /\ Period > 0 /\ Phase[s] \in Int /\ 0 <= Phase[s] /\ Phase[s] < Period
  BY PeriodAssumption, PhaseAssumption
<1>2. d \in Int
  BY ScheduleType
<1> HIDE DEF d
<1>3. n \in Int
  BY <1>1, <1>2
<1>4. q \in Int /\ m \in Int /\ 0 <= m /\ m < Period /\ n = Period * q + m
  <2> HIDE DEF n
  <2> QED
    BY <1>1, <1>3
<1> HIDE DEF q, m
<1>5. Period * (d - q) = m - Phase[s]
  BY <1>1, <1>2, <1>4
<1>6. d - q = 0
  <2>1. ASSUME d - q >= 1 PROVE FALSE
    <3>1. Period * (d - q) >= Period
      BY <1>1, <1>2, <1>4, <2>1
    <3> QED
      BY <1>1, <1>4, <1>5, <3>1
  <2>2. ASSUME d - q <= -1 PROVE FALSE
    <3>1. Period * (d - q) <= -Period
      BY <1>1, <1>2, <1>4, <2>2
    <3> QED
      BY <1>1, <1>4, <1>5, <3>1
  <2> QED
    BY <1>2, <1>4, <2>1, <2>2
<1> QED
  BY <1>1, <1>2, <1>4, <1>5, <1>6 DEF nextSundayAt, d, n, m

\* What the steps between the stored settings and the result know: which snapshot
\* the file holds, that the computed alarm is on the slot of the carried snapshot,
\* and that an unfailed arming comes with that snapshot in memory and on file.
ArmInv ==
  /\ ctl.pc = "cancel" => disk = ctl.snap /\ ~ctl.snap.enabled
  /\ ctl.pc \in {"claim", "arm"} \cup AfterClaim => ctl.next % Period = Phase[ctl.snap.slot]
  /\ ctl.pc = "clear" => ctl.failed
  /\ ctl.pc = "arm" /\ ~ctl.failed =>
       mem = disk /\ mem # Empty /\ mem.enabled /\ mem.slot = ctl.snap.slot

ResultInv == ArmInv /\ ResultIsTruthful /\ CatchUpBeforeArming

\* Between two reconciliations a result stays true: only the environment moves,
\* and what takes the alarm away sends the broadcast that brings it back.
LEMMA EnvironmentKeepsResult ==
  ASSUME IInv, ResultInv, UNCHANGED <<mem, disk, ctl>>,
         outcome' = outcome \/ outcome' = "failed",
         \/ alarm' = alarm /\ (broadcast => broadcast')
         \/ alarm' = NoAlarm /\ broadcast'
  PROVE  ResultInv'
BY DEF ResultInv, ArmInv, ResultIsTruthful, CatchUpBeforeArming, AfterClaim

\* A reconciliation begins without a word about its result.
LEMMA StartKeepsResult ==
  ASSUME ctl'.pc \in {"rejectCancel", "rejectStore", "store", "plan"}
  PROVE  ResultInv'
BY DEF ResultInv, ArmInv, ResultIsTruthful, CatchUpBeforeArming, AfterClaim

\* A reconciliation that ends with a failure promises nothing.
LEMMA FailureKeepsResult ==
  ASSUME ctl' = Resting, outcome' \in {"failed", "rejected", "killed"}
  PROVE  ResultInv'
BY DEF ResultInv, ArmInv, ResultIsTruthful, CatchUpBeforeArming, AfterClaim, Resting

\* One step of the controller at a time.
LEMMA ControllerKeepsResult ==
  ASSUME IInv, ResultInv, ControllerStep
  PROVE  ResultInv'
<1>1. /\ TypeOK /\ ctl.snap \in Snapshot /\ ctl.snap # Empty
      /\ ctl.snap.slot \in Slots /\ clock \in Nat
  BY EmptyAssumption DEF IInv, TypeOK, Snapshot
<1>2. CASE StoreSettings
  <2>1. CASE finish("failed")
    BY <2>1, FailureKeepsResult DEF finish
  <2>2. CASE disk' = ctl.snap /\ goto(IF ctl.snap.enabled THEN "plan" ELSE "cancel")
    <3>1. ctl'.snap = ctl.snap /\ ctl'.pc = IF ctl.snap.enabled THEN "plan" ELSE "cancel"
      BY <1>1, <2>2 DEF goto, TypeOK
    <3> QED
      BY <2>2, <3>1 DEF ResultInv, ArmInv, ResultIsTruthful, CatchUpBeforeArming, AfterClaim
  <2> QED
    BY <1>2, <2>1, <2>2 DEF StoreSettings, writeOk
<1>3. CASE cancelAlarm
  <2>1. CASE finish("failed")
    BY <2>1, FailureKeepsResult DEF finish
  <2>2. CASE alarm' = NoAlarm /\ finish("disabled")
    <3>1. disk' = ctl.snap /\ ~ctl.snap.enabled /\ ctl' = Resting /\ outcome' = "disabled"
      BY <1>3, <2>2 DEF ResultInv, ArmInv, cancelAlarm, finish
    <3> QED
      BY <1>1, <2>2, <3>1
         DEF ResultInv, ArmInv, ResultIsTruthful, CatchUpBeforeArming, AfterClaim, Resting
  <2> QED
    BY <1>3, <2>1, <2>2 DEF cancelAlarm
<1>4. CASE Plan
  <2> DEFINE due == latestDueWeek(ctl.snap.slot, clock)
             next == nextSundayAt(ctl.snap.slot, clock)
  <2>1. /\ mem = ctl.snap /\ disk = ctl.snap /\ ctl.snap.enabled
        /\ UNCHANGED <<mem, disk>>
    BY <1>4 DEF IInv, ClaimInv, Plan
  <2>2. next % Period = Phase[ctl.snap.slot] /\ due \in Nat
    BY <1>1, NextIsOnSlot, ScheduleType
  <2> HIDE DEF due, next
  <2>3. CASE finish("failed")
    BY <2>3, FailureKeepsResult DEF finish
  <2>4. CASE /\ covered(ctl.snap.last, due) \/ covered(ctl.snap.claimed, due)
             /\ ctl' = [[ctl EXCEPT !.due = due, !.next = next] EXCEPT !.pc = "arm"]
    <3>1. /\ ctl'.pc = "arm" /\ ctl'.snap = ctl.snap /\ ctl'.due = due /\ ctl'.next = next
      BY <1>1, <2>4 DEF TypeOK
    <3> QED
      BY <1>1, <2>1, <2>2, <2>4, <3>1
         DEF ResultInv, ArmInv, ResultIsTruthful, CatchUpBeforeArming, AfterClaim, covered
  <2>5. CASE ctl' = [[ctl EXCEPT !.due = due, !.next = next] EXCEPT !.pc = "claim"]
    <3>1. ctl'.pc = "claim" /\ ctl'.snap = ctl.snap /\ ctl'.next = next
      BY <1>1, <2>5 DEF TypeOK
    <3> QED
      BY <2>2, <3>1 DEF ResultInv, ArmInv, ResultIsTruthful, CatchUpBeforeArming, AfterClaim
  <2>6. CASE ctl' = [[ctl EXCEPT !.due = due, !.next = next] EXCEPT !.pc = "arm", !.denied = TRUE]
    <3>1. /\ ctl'.pc = "arm" /\ ctl'.snap = ctl.snap /\ ctl'.next = next /\ ctl'.denied
      BY <1>1, <2>6 DEF TypeOK
    <3> QED
      BY <1>1, <2>1, <2>2, <3>1
         DEF ResultInv, ArmInv, ResultIsTruthful, CatchUpBeforeArming, AfterClaim
  <2> QED
    BY <1>4, <2>3, <2>4, <2>5, <2>6 DEF Plan, due, next
<1>5. CASE WriteClaim
  <2>1. /\ ctl.pc = "claim" /\ ctl'.pc \in {"post", "arm"} /\ ctl'.snap = ctl.snap
        /\ ctl'.next = ctl.next /\ (ctl'.pc = "arm" => ctl'.failed)
    BY <1>1, <1>5 DEF WriteClaim, goto, fail, TypeOK
  <2> QED
    BY <2>1 DEF ResultInv, ArmInv, ResultIsTruthful, CatchUpBeforeArming, AfterClaim
<1>6. CASE postWeeklyNotification
  <2>1. /\ ctl.pc = "post" /\ ctl'.pc \in {"record", "clear"} /\ ctl'.snap = ctl.snap
        /\ ctl'.next = ctl.next /\ (ctl'.pc = "clear" => ctl'.failed)
    BY <1>1, <1>6 DEF postWeeklyNotification, goto, fail, TypeOK
  <2> QED
    BY <2>1 DEF ResultInv, ArmInv, ResultIsTruthful, CatchUpBeforeArming, AfterClaim
<1>7. CASE clearClaimBestEffort
  <2>1. /\ ctl.pc = "clear" /\ ctl'.pc = "arm" /\ ctl'.snap = ctl.snap
        /\ ctl'.next = ctl.next /\ ctl'.failed = ctl.failed
    BY <1>1, <1>7 DEF clearClaimBestEffort, goto, TypeOK
  <2> QED
    BY <2>1 DEF ResultInv, ArmInv, ResultIsTruthful, CatchUpBeforeArming, AfterClaim
<1>8. CASE RecordPosted
  <2>1. /\ ctl.pc = "record" /\ ctl'.pc = "arm" /\ ctl'.snap = ctl.snap
        /\ ctl'.next = ctl.next /\ ctl'.due = ctl.due
        /\ ctl'.failed \/ (mem' = recordedSnapshot /\ disk' = recordedSnapshot)
    BY <1>1, <1>8 DEF RecordPosted, writeOk, goto, fail, TypeOK
  <2>2. /\ recordedSnapshot # Empty /\ recordedSnapshot.last = ctl.due
        /\ recordedSnapshot.enabled = ctl.snap.enabled /\ recordedSnapshot.slot = ctl.snap.slot
    BY <1>1, MarkedSnapshots DEF recordedSnapshot, withMarkers, Snapshot
  <2>3. ctl.snap.enabled /\ ctl.due \in Nat
    BY <1>1, <2>1 DEF IInv, ClaimInv, AfterClaim, TypeOK, Weeks
  <2>4. ctl'.next % Period = Phase[ctl'.snap.slot]
    BY <2>1 DEF ResultInv, ArmInv, AfterClaim
  <2>5. ~ctl'.failed => /\ mem' = disk' /\ mem' # Empty /\ mem'.enabled
                        /\ mem'.slot = ctl'.snap.slot /\ mem'.last = ctl'.due
    BY <2>1, <2>2, <2>3
  <2>6. ctl'.due \in Nat
    BY <2>1, <2>3
  <2>7. ArmInv'
    BY <2>1, <2>4, <2>5 DEF ArmInv, AfterClaim
  <2>8. ResultIsTruthful' /\ CatchUpBeforeArming'
    BY <2>1, <2>5, <2>6 DEF ResultIsTruthful, CatchUpBeforeArming
  <2> QED
    BY <2>7, <2>8 DEF ResultInv
<1>9. CASE scheduleNext
  <2>1. CASE finish("failed")
    BY <2>1, FailureKeepsResult DEF finish
  <2>2. CASE ~ctl.failed /\ alarm' = ctl.next /\ finish("scheduled")
    <3>1. /\ mem' = disk' /\ mem' # Empty /\ mem'.enabled /\ mem'.slot = ctl.snap.slot
          /\ ctl.next % Period = Phase[ctl.snap.slot] /\ ctl' = Resting /\ outcome' = "scheduled"
          /\ ctl.next \in Nat
      BY <1>1, <1>9, <2>2 DEF ResultInv, ArmInv, scheduleNext, finish, TypeOK
    <3> QED
      BY <2>2, <3>1 DEF ResultInv, ArmInv, ResultIsTruthful, CatchUpBeforeArming, AfterClaim,
         Resting, NoAlarm
  <2> QED
    BY <1>9, <2>1, <2>2 DEF scheduleNext
<1>10. CASE RejectCancel
  <2>1. ctl'.pc = "rejectStore"
    BY <1>1, <1>10 DEF RejectCancel, goto, TypeOK
  <2> QED
    BY <2>1, StartKeepsResult
<1>11. CASE RejectStore
  BY <1>11, FailureKeepsResult DEF RejectStore, finish
<1> QED
  BY <1>2, <1>3, <1>4, <1>5, <1>6, <1>7, <1>8, <1>9, <1>10, <1>11 DEF ControllerStep

\* The second inductive invariant holds in every reachable state.
LEMMA ResultInvariant == Spec => []ResultInv
<1>1. Init => ResultInv
  BY DEF Init, ResultInv, ArmInv, ResultIsTruthful, CatchUpBeforeArming, AfterClaim, Resting
<1>2. ASSUME IInv, ResultInv, [Next]_vars
      PROVE  ResultInv'
  <2>1. ASSUME NEW in, reconcile(in)
        PROVE  ResultInv'
    <3>1. ctl'.pc \in {"rejectCancel", "store"}
      BY <2>1 DEF reconcile, Resting
    <3> QED
      BY <3>1, StartKeepsResult
  <2>2. CASE reconcileStoredState
    <3>1. CASE mem = Empty /\ UNCHANGED <<mem, disk, alarm, ctl, outcome>>
      BY <1>2, <3>1 DEF ResultInv, ArmInv, ResultIsTruthful, CatchUpBeforeArming, AfterClaim
    <3> QED
      BY <2>1, <2>2, <3>1 DEF reconcileStoredState
  <2>3. CASE ControllerStep
    BY <1>2, <2>3, ControllerKeepsResult
  <2>4. CASE ReadFails
    <3>1. ctl.pc = "idle" /\ ctl' = ctl /\ outcome' = "failed"
      BY <2>4 DEF ReadFails
    <3> QED
      BY <3>1 DEF ResultInv, ArmInv, ResultIsTruthful, CatchUpBeforeArming, AfterClaim
  <2>5. CASE Tick \/ (\E t \in Time : SetClock(t)) \/ OtherBroadcast \/ AlarmFires
             \/ PermissionChanges \/ UNCHANGED vars
    BY <1>2, <2>5, EnvironmentKeepsResult
       DEF Tick, SetClock, OtherBroadcast, AlarmFires, PermissionChanges, vars
  <2>6. CASE Kill \/ Reboot
    <3>1. /\ mem' = disk /\ disk' = disk /\ ctl' = Resting
          /\ \/ alarm' = alarm /\ broadcast' = broadcast
             \/ alarm' = NoAlarm /\ broadcast'
      BY <2>6 DEF Kill, Reboot, killProcess, environment
    <3>2. CASE ctl.pc = "idle"
      <4>1. outcome' = outcome
        BY <2>6, <3>2 DEF Kill, Reboot, killProcess
      <4> QED
        BY <1>2, <3>1, <3>2, <4>1
           DEF ResultInv, ArmInv, ResultIsTruthful, CatchUpBeforeArming, AfterClaim, Resting
    <3>3. CASE ctl.pc # "idle"
      <4>1. outcome' = "killed"
        BY <2>6, <3>3 DEF Kill, Reboot, killProcess
      <4> QED
        BY <3>1, <4>1, FailureKeepsResult
    <3> QED
      BY <3>2, <3>3
  <2> QED
    BY <1>2, <2>1, <2>2, <2>3, <2>4, <2>5, <2>6 DEF Next, AppReconcile
<1> QED
  BY <1>1, <1>2, InductiveInvariant, PTL DEF Spec

\* A result the plugin returned stays true until something else happens: an alarm
\* on the slot of a durable enabled snapshot, or a broadcast that will re-arm it.
THEOREM ResultsAreTruthful == Spec => []ResultIsTruthful
<1>1. ResultInv => ResultIsTruthful
  BY DEF ResultInv
<1> QED
  BY <1>1, ResultInvariant, PTL

\* The next week's alarm is armed without failure only after the week due now is
\* taken care of, or while the user withholds permission.
THEOREM CatchUpFirst == Spec => []CatchUpBeforeArming
<1>1. ResultInv => CatchUpBeforeArming
  BY DEF ResultInv
<1> QED
  BY <1>1, ResultInvariant, PTL

-----------------------------------------------------------------------------
(* The settings and those who follow them *)

Answers == [done : BOOLEAN, ok : BOOLEAN, read : Settings \cup {NoSettings}]
HookStates == [mounted : BOOLEAN, settings : Settings \cup {NoSettings}, error : BOOLEAN]

\* Who asks for what.
Operations ==
  {o \in Ops : /\ o.kind # "get" => o.patch \in Patches \cup Settings
               /\ o.kind = "get" => o.by \in Hooks \cup {"coordinator"}
               /\ o.kind = "update" => o.by \in Instances
               /\ o.kind \in {"restore", "setup"} => o.by = "service"
               /\ o.by = "left" => ~o.current}

TypeInv ==
  /\ row \in Settings
  /\ queue \in Seq(Operations) /\ slot \in Answers
  /\ hook \in [Hooks -> HookStates]
  /\ waiting \in [Instances -> Seq(Patches)]
  /\ behind \subseteq Hooks /\ bypassed \in BOOLEAN /\ refused \in BOOLEAN
  /\ coord \in Settings \cup {NoSettings} /\ calls \in Seq(Settings)
  /\ native \in Settings \cup {NoSettings}

MountInv ==
  /\ hook["provider"].mounted
  /\ ~hook["form"].mounted => hook["form"] = NoHook /\ waiting["form"] = <<>>

\* Of the operations of a mounted hook the newest, and it alone, is current.
Newest(q, h, mounted) ==
  \A i \in DOMAIN q : q[i].by = h =>
    (q[i].current <=> mounted /\ \A j \in DOMAIN q : j > i => q[j].by # h)

NewestInv == \A h \in Hooks : Newest(queue, h, hook[h].mounted)

\* A success not yet heard of is still what is stored.
SlotInv ==
  /\ slot.done => queue # <<>>
  /\ slot.done /\ slot.ok => slot.read = row

\* A mounted hook shows what is stored, or will be told: by the answer to an operation
\* of its own, or by what the running operation announces.
shows_row(h) == hook[h].error \/ hook[h].settings = row \/ h \in behind
asked(q, h) == \E i \in DOMAIN q : q[i].by = h
announcing(q, h) ==
  slot.done /\ slot.ok /\ Head(q).kind \in {"update", "restore"} /\ Head(q).by # h

ConvergeInv ==
  \A h \in Hooks : hook[h].mounted => shows_row(h) \/ asked(queue, h) \/ announcing(queue, h)

\* The reminder was told, or will be, what the coordinator holds; that is what the
\* provider shows unless it was bypassed.
CoordInv ==
  /\ ~bypassed => coord = hook["provider"].settings
  /\ coord = NoSettings => calls = <<>>
  /\ coord # NoSettings =>
       IF calls = <<>> THEN native = coord \/ refused ELSE calls[Len(calls)] = coord

SyncInv == TypeInv /\ MountInv /\ NewestInv /\ SlotInv /\ ConvergeInv /\ CoordInv

-----------------------------------------------------------------------------
(* Operations in the queue *)

LEMMA HookNames == Hooks = {"provider", "form"} /\ Instances = {"form", "left"} /\ "left" \notin Hooks
BY DEF Hooks, Instances

LEMMA TailFacts ==
  ASSUME NEW S, NEW q \in Seq(S), q # <<>>
  PROVE  /\ Tail(q) \in Seq(S) /\ 1 \in DOMAIN q /\ Head(q) = q[1] /\ q[1] \in S
         /\ \A i \in DOMAIN Tail(q) : i \in Nat \ {0} /\ i + 1 \in DOMAIN q /\ Tail(q)[i] = q[i + 1]
         /\ \A i \in DOMAIN q : i \in Nat /\ (i # 1 => i - 1 \in DOMAIN Tail(q) /\ Tail(q)[i - 1] = q[i])
<1>1. /\ Len(q) \in Nat \ {0} /\ DOMAIN q = 1 .. Len(q) /\ Head(q) = q[1]
  BY EmptySeq, LenProperties
<1>2. /\ Tail(q) \in Seq(S) /\ DOMAIN Tail(q) = 1 .. Len(Tail(q)) /\ Len(Tail(q)) = Len(q) - 1
      /\ \A i \in 1 .. Len(Tail(q)) : Tail(q)[i] = q[i + 1]
  BY HeadTailProperties, LenProperties
<1>3. q[1] \in S
  BY <1>1, HeadTailProperties
<1> QED
  BY <1>1, <1>2, <1>3

LEMMA AppendFacts ==
  ASSUME NEW S, NEW q \in Seq(S), NEW e \in S
  PROVE  /\ Append(q, e) \in Seq(S) /\ Append(q, e) # <<>> /\ Len(Append(q, e)) = Len(q) + 1
         /\ DOMAIN q = 1 .. Len(q) /\ Len(q) \in Nat
         /\ DOMAIN Append(q, e) = 1 .. Len(q) + 1
         /\ Append(q, e)[Len(q) + 1] = e
         /\ \A i \in 1 .. Len(q) : Append(q, e)[i] = q[i]
         /\ q # <<>> => Head(Append(q, e)) = Head(q)
<1>1. /\ Append(q, e) \in Seq(S) /\ Len(Append(q, e)) = Len(q) + 1
      /\ \A i \in 1 .. Len(q) : Append(q, e)[i] = q[i]
      /\ Append(q, e)[Len(q) + 1] = e
  BY AppendProperties
<1>2. /\ Len(q) \in Nat /\ DOMAIN q = 1 .. Len(q)
      /\ DOMAIN Append(q, e) = 1 .. Len(q) + 1
  BY <1>1, LenProperties
<1>3. Append(q, e) # <<>>
  BY <1>1, <1>2, EmptySeq
<1>4. q # <<>> => Head(Append(q, e)) = Head(q)
  BY <1>1, <1>2, <1>3, EmptySeq
<1> QED
  BY <1>1, <1>2, <1>3, <1>4

LEMMA ElementFacts ==
  ASSUME NEW S, NEW q \in Seq(S)
  PROVE  /\ \A i \in DOMAIN q : i \in Nat \ {0} /\ q[i] \in S
         /\ q # <<>> => 1 \in DOMAIN q /\ Head(q) = q[1]
BY LenProperties, EmptySeq

\* What the queue r still says of q.
Same(q, r) ==
  /\ r \in Seq(Operations) /\ Len(r) = Len(q)
  /\ \A i \in DOMAIN q : r[i].kind = q[i].kind /\ r[i].by = q[i].by /\ r[i].patch = q[i].patch

LEMMA OutdateFacts ==
  ASSUME NEW q \in Seq(Operations), NEW by
  PROVE  /\ Same(q, outdate(q, by))
         /\ \A i \in DOMAIN q : outdate(q, by)[i].current <=> q[i].by # by /\ q[i].current
<1> DEFINE r == outdate(q, by)
<1>1. DOMAIN q = 1 .. Len(q) /\ Len(q) \in Nat
  BY LenProperties
<1>2. \A i \in 1 .. Len(q) : q[i] \in Operations
  BY <1>1, ElementFacts
<1>3. \A i \in 1 .. Len(q) :
        /\ r[i] \in Operations
        /\ r[i].kind = q[i].kind /\ r[i].by = q[i].by /\ r[i].patch = q[i].patch
        /\ r[i].current <=> q[i].by # by /\ q[i].current
  BY <1>1, <1>2 DEF outdate, Operations, Ops
<1>4. r = [i \in 1 .. Len(q) |-> r[i]]
  BY <1>1 DEF outdate
<1> HIDE DEF r
<1>5. r \in Seq(Operations) /\ Len(r) = Len(q)
  BY <1>1, <1>3, <1>4, IsASeq, LenProperties
<1> QED
  BY <1>1, <1>3, <1>5 DEF r, Same

\* A newer operation of a hook, or of another asker, at the end of the queue.
Asks(q, o, r) ==
  /\ r \in Seq(Operations) /\ r # <<>> /\ asked(r, o.by)
  /\ q # <<>> => Head(r).kind = Head(q).kind /\ Head(r).by = Head(q).by
  /\ o.by \in Hooks => Newest(r, o.by, TRUE)
  /\ \A h \in Hooks \ {o.by}, m \in BOOLEAN : Newest(q, h, m) => Newest(r, h, m)
  /\ \A h : asked(q, h) => asked(r, h)

LEMMA AskFacts ==
  ASSUME NEW q \in Seq(Operations), NEW o \in Operations, o.by \in Hooks => o.current
  PROVE  Asks(q, o, Append(outdate(q, o.by), o))
<1> DEFINE p == outdate(q, o.by)
           r == Append(p, o)
<1>1. /\ p \in Seq(Operations) /\ Len(p) = Len(q)
      /\ \A i \in DOMAIN q : /\ p[i].kind = q[i].kind /\ p[i].by = q[i].by /\ p[i].patch = q[i].patch
                             /\ p[i].current <=> q[i].by # o.by /\ q[i].current
  BY OutdateFacts DEF Same
<1> HIDE DEF p
<1>2. /\ r \in Seq(Operations) /\ r # <<>>
      /\ DOMAIN q = 1 .. Len(q) /\ Len(q) \in Nat /\ DOMAIN r = 1 .. Len(q) + 1
      /\ r[Len(q) + 1] = o
      /\ \A i \in 1 .. Len(q) : r[i] = p[i]
  BY <1>1, AppendFacts, LenProperties
<1> HIDE DEF r
<1>3. q # <<>> => Head(r).kind = Head(q).kind /\ Head(r).by = Head(q).by
  BY <1>1, <1>2, ElementFacts
<1>4. asked(r, o.by)
  BY <1>2 DEF asked
<1>5. o.by \in Hooks => Newest(r, o.by, TRUE)
  BY <1>1, <1>2 DEF Newest
<1>6. \A h \in Hooks \ {o.by}, m \in BOOLEAN : Newest(q, h, m) => Newest(r, h, m)
  <2> SUFFICES ASSUME NEW h \in Hooks \ {o.by}, NEW m \in BOOLEAN, Newest(q, h, m),
                      NEW i \in DOMAIN r, r[i].by = h
               PROVE  r[i].current <=> m /\ \A j \in DOMAIN r : j > i => r[j].by # h
    BY DEF Newest
  <2>1. i \in DOMAIN q /\ q[i].by = h /\ (r[i].current <=> q[i].current)
    BY <1>1, <1>2
  <2>2. (\A j \in DOMAIN r : j > i => r[j].by # h) <=> (\A j \in DOMAIN q : j > i => q[j].by # h)
    BY <1>1, <1>2
  <2> QED
    BY <2>1, <2>2 DEF Newest
<1>7. \A h : asked(q, h) => asked(r, h)
  BY <1>1, <1>2 DEF asked
<1> QED
  BY <1>2, <1>3, <1>4, <1>5, <1>6, <1>7 DEF Asks, p, r

\* Operations nobody waits for by generation are appended as they are.
LEMMA OthersAppend ==
  ASSUME NEW q \in Seq(Operations), NEW o \in Operations, o.by \notin Hooks,
         NEW r, r = Append(q, o)
  PROVE  /\ r \in Seq(Operations) /\ r # <<>>
         /\ q # <<>> => Head(r).kind = Head(q).kind /\ Head(r).by = Head(q).by
         /\ \A h \in Hooks, m \in BOOLEAN : Newest(q, h, m) => Newest(r, h, m)
         /\ \A h : asked(q, h) => asked(r, h)
<1>1. /\ r \in Seq(Operations) /\ r # <<>>
      /\ DOMAIN q = 1 .. Len(q) /\ Len(q) \in Nat /\ DOMAIN r = 1 .. Len(q) + 1
      /\ r[Len(q) + 1] = o
      /\ \A i \in 1 .. Len(q) : r[i] = q[i]
      /\ q # <<>> => Head(r) = Head(q)
  BY AppendFacts
<1>2. \A h \in Hooks, m \in BOOLEAN : Newest(q, h, m) => Newest(r, h, m)
  BY <1>1 DEF Newest
<1>3. \A h : asked(q, h) => asked(r, h)
  BY <1>1 DEF asked
<1> QED
  BY <1>1, <1>2, <1>3

\* The running operation is done with.
LEMMA RestFacts ==
  ASSUME NEW q \in Seq(Operations), q # <<>>
  PROVE  /\ Tail(q) \in Seq(Operations) /\ Head(q) \in Operations
         /\ \A h \in Hooks, m \in BOOLEAN : Newest(q, h, m) => Newest(Tail(q), h, m)
         /\ \A h : asked(q, h) => asked(Tail(q), h) \/ Head(q).by = h
         /\ \A h \in Hooks : Newest(q, h, TRUE) /\ Head(q).by = h /\ ~Head(q).current =>
              asked(Tail(q), h)
         /\ \A h \in Hooks : Newest(q, h, FALSE) /\ Head(q).by = h => ~Head(q).current
<1> DEFINE r == Tail(q)
<1>1. /\ r \in Seq(Operations) /\ 1 \in DOMAIN q /\ Head(q) = q[1] /\ q[1] \in Operations
      /\ \A i \in DOMAIN r : i \in Nat \ {0} /\ i + 1 \in DOMAIN q /\ r[i] = q[i + 1]
      /\ \A i \in DOMAIN q : i \in Nat /\ (i # 1 => i - 1 \in DOMAIN r /\ r[i - 1] = q[i])
  BY TailFacts
<1> HIDE DEF r
<1>2. \A h : asked(q, h) => asked(r, h) \/ Head(q).by = h
  BY <1>1 DEF asked
<1>3. \A h \in Hooks : Newest(q, h, TRUE) /\ Head(q).by = h /\ ~Head(q).current => asked(r, h)
  <2> SUFFICES ASSUME NEW h \in Hooks, Newest(q, h, TRUE), Head(q).by = h, ~Head(q).current
               PROVE  asked(r, h)
    OBVIOUS
  <2>1. ~ \A j \in DOMAIN q : j > 1 => q[j].by # h
    BY <1>1 DEF Newest
  <2>2. PICK j \in DOMAIN q : j > 1 /\ q[j].by = h
    BY <2>1
  <2>3. j - 1 \in DOMAIN r /\ r[j - 1] = q[j]
    BY <1>1, <2>2
  <2> QED
    BY <2>2, <2>3 DEF asked
<1>4. \A h \in Hooks : Newest(q, h, FALSE) /\ Head(q).by = h => ~Head(q).current
  BY <1>1 DEF Newest
<1>5. \A h \in Hooks, m \in BOOLEAN : Newest(q, h, m) => Newest(r, h, m)
  <2> SUFFICES ASSUME NEW h \in Hooks, NEW m \in BOOLEAN, Newest(q, h, m),
                      NEW i \in DOMAIN r, r[i].by = h
               PROVE  r[i].current <=> m /\ \A j \in DOMAIN r : j > i => r[j].by # h
    BY DEF Newest
  <2>1. i + 1 \in DOMAIN q /\ r[i] = q[i + 1] /\ i \in Nat
    BY <1>1
  <2>2. ASSUME \A j \in DOMAIN r : j > i => r[j].by # h, NEW j \in DOMAIN q, j > i + 1
        PROVE  q[j].by # h
    <3>1. j \in Nat /\ j - 1 \in DOMAIN r /\ r[j - 1] = q[j]
      BY <1>1, <2>1, <2>2
    <3> QED
      BY <2>1, <2>2, <3>1
  <2>3. ASSUME \A j \in DOMAIN q : j > i + 1 => q[j].by # h, NEW j \in DOMAIN r, j > i
        PROVE  r[j].by # h
    <3>1. j \in Nat /\ j + 1 \in DOMAIN q /\ r[j] = q[j + 1]
      BY <1>1
    <3> QED
      BY <2>1, <2>3, <3>1
  <2> QED
    BY <2>1, <2>2, <2>3 DEF Newest
<1> QED
  BY <1>1, <1>2, <1>3, <1>4, <1>5 DEF r

-----------------------------------------------------------------------------
(* What an operation is made of *)

LEMMA Operation ==
  /\ \A h \in Hooks : get(h) \in Operations /\ get(h).by = h /\ get(h).current
  /\ get("coordinator") \in Operations /\ get("coordinator").by = "coordinator"
  /\ \A by \in Instances, patch \in Patches :
       LET o == [op("update", by, patch) EXCEPT !.current = (by # "left")]
       IN  o \in Operations /\ o.by = by /\ (o.current <=> by # "left")
  /\ \A patch \in Patches \cup Settings, kind \in {"restore", "setup"} :
       op(kind, "service", patch) \in Operations /\ op(kind, "service", patch).by = "service"
  /\ \A zone \in Zones : [zone |-> zone] \in Patches
<1> USE DEF op, get, Hooks, Instances
<1>1. \A kind \in {"get", "update", "restore", "setup"},
         by \in Hooks \cup Instances \cup {"coordinator", "service"},
         patch \in Patches \cup Settings \cup {NoPatch}, current \in BOOLEAN :
        [kind |-> kind, by |-> by, patch |-> patch, current |-> current] \in Ops
  BY DEF Ops
<1>2. \A h \in Hooks \cup {"coordinator"} : get(h) \in Operations
  BY <1>1 DEF Operations
<1>3. ASSUME NEW by \in Instances, NEW patch \in Patches
      PROVE  LET o == [op("update", by, patch) EXCEPT !.current = (by # "left")]
             IN  o \in Operations /\ o.by = by /\ (o.current <=> by # "left")
  <2>1. [op("update", by, patch) EXCEPT !.current = (by # "left")]
          = [kind |-> "update", by |-> by, patch |-> patch, current |-> (by # "left")]
    OBVIOUS
  <2>2. (by # "left") \in BOOLEAN
    OBVIOUS
  <2>3. [kind |-> "update", by |-> by, patch |-> patch, current |-> (by # "left")] \in Operations
    BY <1>1, <2>2 DEF Operations
  <2> QED
    BY <2>1, <2>3
<1>4. \A patch \in Patches \cup Settings, kind \in {"restore", "setup"} :
        op(kind, "service", patch) \in Operations
  BY <1>1 DEF Operations
<1>5. \A zone \in Zones : [zone |-> zone] \in Patches
  BY DEF Patches
<1> QED
  BY <1>2, <1>3, <1>4, <1>5

LEMMA Known ==
  /\ NoSettings \notin Settings
  /\ NoHook \in HookStates /\ mountedHook \in HookStates
  /\ mountedHook.mounted /\ ~NoHook.mounted
  /\ mountedHook.settings = NoSettings /\ NoHook.settings = NoSettings
  /\ \A s \in Settings \cup {NoSettings} :
       /\ showing(s) \in HookStates /\ showing(s).mounted /\ showing(s).settings = s
       /\ ~showing(s).error
  /\ Unmet \in Answers /\ ~Unmet.done
  /\ DEFAULT_SETTINGS \in Settings
BY SyncAssumption DEF NoSettings, Settings, NoHook, mountedHook, HookStates, showing, Unmet, Answers,
   DEFAULT_SETTINGS

\* A patch changes some of the settings.
LEMMA PatchFacts ==
  ASSUME NEW patch \in Patches \cup Settings, NEW s \in Settings
  PROVE  patched(s, patch) \in Settings
BY DEF patched, Patches, Settings

-----------------------------------------------------------------------------
(* What the steps keep *)

\* Nothing was answered: the queue has grown at its end.
Grown(q, r) ==
  /\ q # <<>> => r # <<>> /\ Head(r).kind = Head(q).kind /\ Head(r).by = Head(q).by
  /\ \A h : asked(q, h) => asked(r, h)

LEMMA GrownKeeps ==
  ASSUME TypeInv, SlotInv, ConvergeInv, Grown(queue, queue'),
         row' = row, slot' = slot, behind' = behind,
         NEW h \in Hooks, hook'[h] = hook[h], hook[h].mounted
  PROVE  (shows_row(h) \/ asked(queue, h) \/ announcing(queue, h))'
<1>1. shows_row(h)' = shows_row(h)
  BY DEF shows_row
<1>2. asked(queue, h) => asked(queue, h)'
  BY DEF Grown, asked
<1>3. announcing(queue, h) => announcing(queue, h)'
  BY DEF Grown, announcing, SlotInv
<1> QED
  BY <1>1, <1>2, <1>3 DEF ConvergeInv

\* A hook asks anew.
LEMMA LoadFacts ==
  ASSUME NEW q \in Seq(Operations), NEW by \in Hooks
  PROVE  /\ load(q, by) \in Seq(Operations) /\ load(q, by) # <<>>
         /\ Grown(q, load(q, by)) /\ asked(load(q, by), by)
         /\ Newest(load(q, by), by, TRUE)
         /\ \A k \in Hooks \ {by}, m \in BOOLEAN : Newest(q, k, m) => Newest(load(q, by), k, m)
<1> DEFINE o == get(by)
           r == load(q, by)
<1>1. o \in Operations /\ o.by = by /\ o.current
  BY Operation
<1>2. r = Append(outdate(q, o.by), o)
  BY <1>1 DEF load
<1> HIDE DEF o, r
<1>3. Asks(q, o, r)
  BY <1>1, <1>2, AskFacts
<1>4. Grown(q, r)
  BY <1>3 DEF Grown, Asks
<1> QED
  BY <1>1, <1>3, <1>4 DEF Asks, r

\* An update of a form starts.
LEMMA StartUpdateFacts ==
  ASSUME NEW q \in Seq(Operations), NEW by \in Instances, NEW patch \in Patches
  PROVE  /\ startUpdate(q, by, patch) \in Seq(Operations) /\ startUpdate(q, by, patch) # <<>>
         /\ Grown(q, startUpdate(q, by, patch)) /\ asked(startUpdate(q, by, patch), by)
         /\ by = "form" => Newest(startUpdate(q, by, patch), "form", TRUE)
         /\ \A k \in Hooks \ {by}, m \in BOOLEAN :
              Newest(q, k, m) => Newest(startUpdate(q, by, patch), k, m)
<1> DEFINE o == [op("update", by, patch) EXCEPT !.current = (by # "left")]
<1>1. o \in Operations /\ o.by = by /\ (o.current <=> by # "left")
  BY Operation
<1>2. startUpdate(q, by, patch) = Append(outdate(q, by), o)
  BY DEF startUpdate
<1> HIDE DEF o
<1>3. o.by \in Hooks => o.current
  BY <1>1, HookNames
<1> DEFINE r == startUpdate(q, by, patch)
<1> HIDE DEF r
<1>4. Asks(q, o, r)
  <2>1. r = Append(outdate(q, o.by), o)
    BY <1>1, <1>2 DEF r
  <2> QED
    BY <1>1, <1>3, <2>1, AskFacts
<1>5. Grown(q, r)
  BY <1>4 DEF Grown, Asks
<1>6. by = "form" => by \in Hooks
  BY HookNames
<1> QED
  BY <1>1, <1>4, <1>5, <1>6 DEF Asks, r

\* The same, unless the one of the hook's instance is still running.
LEMMA OtherAppendFacts ==
  ASSUME NEW q \in Seq(Operations), NEW o \in Operations, o.by \notin Hooks
  PROVE  /\ Append(q, o) \in Seq(Operations) /\ Append(q, o) # <<>> /\ Grown(q, Append(q, o))
         /\ \A k \in Hooks, m \in BOOLEAN : Newest(q, k, m) => Newest(Append(q, o), k, m)
BY OthersAppend DEF Grown

\* A change has been published: every mounted hook but its origin asks anew.
LEMMA PublishFacts ==
  ASSUME TypeInv, MountInv, NEW q \in Seq(Operations), NEW except,
         \A h \in Hooks : Newest(q, h, hook[h].mounted)
  PROVE  /\ publish(q, except) \in Seq(Operations)
         /\ Grown(q, publish(q, except))
         /\ \A h \in Hooks : Newest(publish(q, except), h, hook[h].mounted)
         /\ \A h \in Hooks \ {except} : hook[h].mounted => asked(publish(q, except), h)
<1> DEFINE p == notify(q, "provider", except)
           r == notify(p, "form", except)
<1>0. Grown(q, q)
  BY DEF Grown
<1>1. /\ p \in Seq(Operations) /\ Grown(q, p)
      /\ \A h \in Hooks : Newest(p, h, hook[h].mounted)
      /\ "provider" # except => asked(p, "provider")
  <2>1. CASE "provider" # except
    <3>1. p = load(q, "provider")
      BY <2>1 DEF notify, MountInv
    <3>2. \A h \in Hooks : hook[h].mounted \in BOOLEAN
      BY DEF TypeInv, HookStates
    <3> QED
      BY <2>1, <3>1, <3>2, LoadFacts, HookNames DEF MountInv
  <2>2. CASE "provider" = except
    <3>1. p = q
      BY <2>2 DEF notify
    <3> QED
      BY <1>0, <2>2, <3>1
  <2> QED
    BY <2>1, <2>2
<1> HIDE DEF p
<1>2. /\ r \in Seq(Operations) /\ Grown(p, r)
      /\ \A h \in Hooks : Newest(r, h, hook[h].mounted)
      /\ "form" # except /\ hook["form"].mounted => asked(r, "form")
  <2>1. CASE "form" # except /\ hook["form"].mounted
    <3>1. r = load(p, "form")
      BY <2>1 DEF notify
    <3>2. \A h \in Hooks : hook[h].mounted \in BOOLEAN
      BY DEF TypeInv, HookStates
    <3> QED
      BY <1>1, <2>1, <3>1, <3>2, LoadFacts, HookNames
  <2>2. CASE ~("form" # except /\ hook["form"].mounted)
    <3>1. r = p
      BY <2>2 DEF notify
    <3> QED
      BY <1>1, <2>2, <3>1 DEF Grown
  <2> QED
    BY <2>1, <2>2
<1>3. publish(q, except) = r
  BY DEF publish, p
<1> HIDE DEF r
<1> QED
  BY <1>1, <1>2, <1>3, HookNames DEF Grown

-----------------------------------------------------------------------------
(* The steps *)

LEMMA CoordSame ==
  ASSUME CoordInv, UNCHANGED reminderVars,
         hook'["provider"].settings = hook["provider"].settings
  PROVE  CoordInv'
BY DEF CoordInv, reminderVars

\* Steps that only ask for more.
LEMMA GrownStep ==
  ASSUME SyncInv, Grown(queue, queue'), queue' \in Seq(Operations),
         \A h \in Hooks : Newest(queue', h, hook[h].mounted),
         waiting' \in [Instances -> Seq(Patches)],
         ~hook["form"].mounted => waiting'["form"] = <<>>,
         UNCHANGED <<row, slot, hook, behind, reminderVars>>
  PROVE  SyncInv'
<1>1. TypeInv'
  BY DEF SyncInv, TypeInv, reminderVars
<1>2. MountInv'
  BY DEF SyncInv, MountInv
<1>3. NewestInv'
  BY DEF NewestInv
<1>4. SlotInv'
  BY DEF SyncInv, SlotInv, Grown
<1>5. ConvergeInv'
  <2>1. ASSUME NEW h \in Hooks, hook'[h].mounted
        PROVE  (shows_row(h) \/ asked(queue, h) \/ announcing(queue, h))'
    BY <2>1, GrownKeeps DEF SyncInv
  <2> QED
    BY <2>1 DEF ConvergeInv
<1>6. CoordInv'
  BY CoordSame DEF SyncInv
<1> QED
  BY <1>1, <1>2, <1>3, <1>4, <1>5, <1>6 DEF SyncInv

LEMMA OpenFormKeeps == SyncInv /\ OpenForm => SyncInv'
<1> SUFFICES ASSUME SyncInv, OpenForm PROVE SyncInv'
  OBVIOUS
<1>1. /\ hook' = [hook EXCEPT !["form"] = mountedHook]
      /\ queue' = load(queue, "form")
      /\ UNCHANGED <<row, slot, waiting, behind>> /\ UNCHANGED reminderVars
      /\ ~hook["form"].mounted
  BY DEF OpenForm
<1>2. /\ hook'["form"] = mountedHook /\ hook'["provider"] = hook["provider"]
      /\ hook' \in [Hooks -> HookStates]
  BY <1>1, Known, HookNames DEF SyncInv, TypeInv
<1>3. /\ queue' \in Seq(Operations) /\ queue' # <<>> /\ Grown(queue, queue')
      /\ asked(queue', "form") /\ Newest(queue', "form", TRUE)
      /\ \A k \in Hooks \ {"form"}, m \in BOOLEAN : Newest(queue, k, m) => Newest(queue', k, m)
  <2>1. queue \in Seq(Operations) /\ "form" \in Hooks
    BY HookNames DEF SyncInv, TypeInv
  <2> DEFINE r == load(queue, "form")
  <2>2. /\ r \in Seq(Operations) /\ r # <<>> /\ Grown(queue, r)
        /\ asked(r, "form") /\ Newest(r, "form", TRUE)
        /\ \A k \in Hooks \ {"form"}, m \in BOOLEAN : Newest(queue, k, m) => Newest(r, k, m)
    BY <2>1, LoadFacts
  <2>3. queue' = r
    BY <1>1
  <2> HIDE DEF r
  <2> QED
    BY <2>2, <2>3
<1>4. TypeInv'
  BY <1>1, <1>2, <1>3 DEF SyncInv, TypeInv, reminderVars
<1>5. MountInv'
  BY <1>1, <1>2, Known DEF SyncInv, MountInv
<1>6. NewestInv'
  <2>1. hook["provider"].mounted \in BOOLEAN
    BY HookNames DEF SyncInv, TypeInv, HookStates
  <2>2. Newest(queue', "provider", hook'["provider"].mounted)
    BY <1>2, <1>3, <2>1, HookNames DEF SyncInv, NewestInv
  <2>3. hook'["form"].mounted = TRUE
    BY <1>2 DEF mountedHook, NoHook
  <2> QED
    BY <1>3, <2>2, <2>3, HookNames DEF NewestInv
<1>7. SlotInv'
  BY <1>1, <1>3 DEF SyncInv, SlotInv
<1>8. ConvergeInv'
  <2>1. (shows_row("provider") \/ asked(queue, "provider") \/ announcing(queue, "provider"))'
    BY <1>1, <1>2, <1>3, GrownKeeps, HookNames DEF SyncInv, MountInv
  <2>2. asked(queue, "form")'
    BY <1>3 DEF asked
  <2> QED
    BY <2>1, <2>2, HookNames DEF ConvergeInv
<1>9. CoordInv'
  BY <1>1, <1>2, CoordSame DEF SyncInv
<1> QED
  BY <1>4, <1>5, <1>6, <1>7, <1>8, <1>9 DEF SyncInv

LEMMA LeaveFormKeeps == SyncInv /\ LeaveForm => SyncInv'
<1> SUFFICES ASSUME SyncInv, LeaveForm PROVE SyncInv'
  OBVIOUS
<1>1. /\ hook' = [hook EXCEPT !["form"] = NoHook]
      /\ queue' = [i \in DOMAIN queue |->
                     IF queue[i].by # "form" THEN queue[i]
                     ELSE [queue[i] EXCEPT !.current = FALSE,
                                           !.by = IF queue[i].kind = "update" THEN "left" ELSE "form"]]
      /\ waiting' = [i \in Instances |-> IF i = "left" THEN waiting["form"] ELSE <<>>]
      /\ behind' = behind \ {"form"}
      /\ UNCHANGED <<row, slot>> /\ UNCHANGED reminderVars
  BY DEF LeaveForm
<1>2. /\ hook'["form"] = NoHook /\ hook'["provider"] = hook["provider"]
      /\ hook' \in [Hooks -> HookStates]
  BY <1>1, Known, HookNames DEF SyncInv, TypeInv
<1>3. /\ DOMAIN queue = 1 .. Len(queue) /\ Len(queue) \in Nat
      /\ \A i \in DOMAIN queue : queue[i] \in Operations
  BY ElementFacts, LenProperties DEF SyncInv, TypeInv
<1>4. ASSUME NEW i \in DOMAIN queue
      PROVE  /\ queue'[i] \in Operations /\ queue'[i].kind = queue[i].kind
             /\ queue[i].by # "form" => queue'[i] = queue[i]
             /\ queue[i].by = "form" => queue'[i].by \in Instances /\ ~queue'[i].current
  <2>1. CASE queue[i].by # "form"
    BY <1>1, <1>3, <2>1
  <2>2. CASE queue[i].by = "form"
    <3> DEFINE o == queue[i]
               by == IF o.kind = "update" THEN "left" ELSE "form"
    <3>1. o \in Operations
      BY <1>3
    <3>2. queue'[i] = [kind |-> o.kind, by |-> by, patch |-> o.patch, current |-> FALSE]
      BY <1>1, <2>2, <3>1 DEF Operations, Ops
    <3> QED
      BY <2>2, <3>1, <3>2 DEF Operations, Ops, Instances, Hooks
  <2> QED
    BY <2>1, <2>2
<1>5. DOMAIN queue' = DOMAIN queue /\ Len(queue') = Len(queue) /\ queue' \in Seq(Operations)
  <2>1. queue' = [i \in 1 .. Len(queue) |-> queue'[i]]
    BY <1>1, <1>3
  <2> QED
    BY <1>3, <1>4, <2>1, IsASeq, LenProperties
<1>6. TypeInv'
  BY <1>1, <1>2, <1>5, EmptySeq DEF SyncInv, TypeInv, reminderVars, Instances
<1>7. MountInv'
  BY <1>1, <1>2, Known, HookNames DEF SyncInv, MountInv
<1>8. \A i \in DOMAIN queue : /\ queue'[i].by = "provider" <=> queue[i].by = "provider"
                              /\ queue'[i].by = "provider" => queue'[i] = queue[i]
  BY <1>4, HookNames
<1>9. NewestInv'
  <2>1. Newest(queue', "form", hook'["form"].mounted)
    BY <1>2, <1>4, <1>5, Known DEF Newest
  <2>2. Newest(queue', "provider", hook'["provider"].mounted)
    <3>1. Newest(queue, "provider", hook["provider"].mounted)
      BY HookNames DEF SyncInv, NewestInv
    <3> QED
      BY <1>2, <1>5, <1>8, <3>1 DEF Newest
  <2> QED
    BY <2>1, <2>2, HookNames DEF NewestInv
<1>10. queue # <<>> => queue' # <<>> /\ Head(queue').kind = Head(queue).kind
                       /\ (Head(queue).by # "provider" => Head(queue').by # "provider")
  BY <1>4, <1>5, <1>8, ElementFacts, EmptySeq DEF SyncInv, TypeInv
<1>11. SlotInv'
  BY <1>1, <1>10 DEF SyncInv, SlotInv
<1>12. ConvergeInv'
  <2>1. hook["provider"].mounted
    BY DEF SyncInv, MountInv
  <2>2. shows_row("provider") => shows_row("provider")'
    BY <1>1, <1>2 DEF shows_row
  <2>3. asked(queue, "provider") => asked(queue, "provider")'
    BY <1>5, <1>8 DEF asked
  <2>4. announcing(queue, "provider") => announcing(queue, "provider")'
    BY <1>1, <1>10 DEF announcing, SyncInv, SlotInv
  <2> QED
    BY <1>2, <2>1, <2>2, <2>3, <2>4, Known, HookNames DEF SyncInv, ConvergeInv
<1>13. CoordInv'
  BY <1>1, <1>2, CoordSame DEF SyncInv
<1> QED
  BY <1>6, <1>7, <1>9, <1>11, <1>12, <1>13 DEF SyncInv

LEMMA MountedTypes ==
  ASSUME SyncInv
  PROVE  /\ \A h \in Hooks : hook[h].mounted \in BOOLEAN /\ Newest(queue, h, hook[h].mounted)
         /\ queue \in Seq(Operations)
         /\ hook["provider"].mounted
         /\ ~hook["form"].mounted => waiting["form"] = <<>>
BY DEF SyncInv, TypeInv, HookStates, NewestInv, MountInv

\* An operation nobody waits for by generation is asked for.
LEMMA OtherStep ==
  ASSUME SyncInv, NEW o \in Operations, o.by \notin Hooks, queue' = Append(queue, o),
         UNCHANGED <<row, slot, waiting, hook, behind, reminderVars>>
  PROVE  SyncInv'
<1> DEFINE r == Append(queue, o)
<1>1. /\ r \in Seq(Operations) /\ Grown(queue, r)
      /\ \A k \in Hooks, m \in BOOLEAN : Newest(queue, k, m) => Newest(r, k, m)
  BY MountedTypes, OtherAppendFacts
<1>2. queue' = r
  OBVIOUS
<1> HIDE DEF r
<1>3. /\ queue' \in Seq(Operations) /\ Grown(queue, queue')
      /\ \A h \in Hooks : Newest(queue', h, hook[h].mounted)
  BY <1>1, <1>2, MountedTypes
<1>4. waiting' \in [Instances -> Seq(Patches)]
  BY DEF SyncInv, TypeInv
<1> QED
  BY <1>3, <1>4, MountedTypes, GrownStep

LEMMA ReloadKeeps == SyncInv /\ Reload => SyncInv'
<1> SUFFICES ASSUME SyncInv, Reload PROVE SyncInv'
  OBVIOUS
<1> DEFINE r == load(queue, "form")
<1>1. /\ r \in Seq(Operations) /\ Grown(queue, r) /\ Newest(r, "form", TRUE)
      /\ \A k \in Hooks \ {"form"}, m \in BOOLEAN : Newest(queue, k, m) => Newest(r, k, m)
  BY MountedTypes, LoadFacts, HookNames
<1>2. /\ queue' = r /\ hook["form"].mounted
      /\ UNCHANGED <<row, slot, waiting, hook, behind, reminderVars>>
  BY DEF Reload
<1> HIDE DEF r
<1>3. /\ queue' \in Seq(Operations) /\ Grown(queue, queue')
      /\ \A h \in Hooks : Newest(queue', h, hook[h].mounted)
  BY <1>1, <1>2, MountedTypes, HookNames
<1>4. waiting' \in [Instances -> Seq(Patches)]
  BY <1>2 DEF SyncInv, TypeInv
<1> QED
  BY <1>2, <1>3, <1>4, MountedTypes, GrownStep

LEMMA UpdateKeeps == ASSUME NEW patch \in Patches PROVE SyncInv /\ Update(patch) => SyncInv'
<1> SUFFICES ASSUME SyncInv, Update(patch) PROVE SyncInv'
  OBVIOUS
<1>1. hook["form"].mounted
  BY Known DEF Update, editable, SyncInv, MountInv
<1>2. UNCHANGED <<row, slot, hook, behind, reminderVars>>
  BY DEF Update
<1>3. CASE updating("form")
  <2>1. waiting' = [waiting EXCEPT !["form"] = Append(@, patch)] /\ queue' = queue
    BY <1>3 DEF Update
  <2>2. waiting' \in [Instances -> Seq(Patches)]
    BY <2>1, AppendProperties, HookNames DEF SyncInv, TypeInv
  <2>3. Grown(queue, queue')
    BY <2>1 DEF Grown
  <2> QED
    BY <1>1, <1>2, <2>1, <2>2, <2>3, MountedTypes, GrownStep
<1>4. CASE ~updating("form")
  <2> DEFINE r == startUpdate(queue, "form", patch)
  <2>1. /\ r \in Seq(Operations) /\ Grown(queue, r) /\ Newest(r, "form", TRUE)
        /\ \A k \in Hooks \ {"form"}, m \in BOOLEAN : Newest(queue, k, m) => Newest(r, k, m)
    BY MountedTypes, StartUpdateFacts, HookNames
  <2>2. queue' = r /\ waiting' = waiting
    BY <1>4 DEF Update
  <2> HIDE DEF r
  <2>3. /\ queue' \in Seq(Operations) /\ Grown(queue, queue')
        /\ \A h \in Hooks : Newest(queue', h, hook[h].mounted)
    BY <1>1, <2>1, <2>2, MountedTypes, HookNames
  <2>4. waiting' \in [Instances -> Seq(Patches)]
    BY <2>2 DEF SyncInv, TypeInv
  <2> QED
    BY <1>1, <1>2, <2>3, <2>4, GrownStep
<1> QED
  BY <1>3, <1>4

LEMMA RestoreKeeps == ASSUME NEW settings \in Settings PROVE SyncInv /\ Restore(settings) => SyncInv'
<1> SUFFICES ASSUME SyncInv, Restore(settings) PROVE SyncInv'
  OBVIOUS
<1>1. /\ op("restore", "service", settings) \in Operations
      /\ op("restore", "service", settings).by \notin Hooks
  BY Operation, HookNames
<1>2. /\ queue' = Append(queue, op("restore", "service", settings))
      /\ UNCHANGED <<row, slot, waiting, hook, behind, reminderVars>>
  BY DEF Restore
<1> QED
  BY <1>1, <1>2, OtherStep

LEMMA SetupKeeps == ASSUME NEW zone \in Zones PROVE SyncInv /\ Setup(zone) => SyncInv'
<1> SUFFICES ASSUME SyncInv, Setup(zone) PROVE SyncInv'
  OBVIOUS
<1> DEFINE o == op("setup", "service", [zone |-> zone])
<1>1. o \in Operations /\ o.by \notin Hooks
  BY Operation, HookNames
<1>2. queue' = Append(queue, o) /\ UNCHANGED <<row, slot, waiting, hook, behind, reminderVars>>
  BY DEF Setup
<1> HIDE DEF o
<1> QED
  BY <1>1, <1>2, OtherStep

LEMMA ShowKeeps == SyncInv /\ Show => SyncInv'
<1> SUFFICES ASSUME SyncInv, Show PROVE SyncInv'
  OBVIOUS
<1>1. get("coordinator") \in Operations /\ get("coordinator").by \notin Hooks
  BY Operation, HookNames
<1>2. /\ queue' = Append(queue, get("coordinator"))
      /\ UNCHANGED <<row, slot, waiting, hook, behind, reminderVars>>
  BY DEF Show
<1> QED
  BY <1>1, <1>2, OtherStep

LEMMA ExecuteGetKeeps == SyncInv /\ ExecuteGet => SyncInv'
<1> SUFFICES ASSUME SyncInv, ExecuteGet PROVE SyncInv'
  OBVIOUS
<1>1. PICK ok \in BOOLEAN : slot' = [done |-> TRUE, ok |-> ok, read |-> IF ok THEN row ELSE NoSettings]
  BY DEF ExecuteGet
<1>2. /\ queue # <<>> /\ ~slot.done
      /\ UNCHANGED <<row, queue, waiting, hook, behind, reminderVars>>
  BY DEF ExecuteGet
<1>3. TypeInv'
  BY <1>1, <1>2 DEF SyncInv, TypeInv, Answers, reminderVars
<1>4. MountInv' /\ NewestInv' /\ CoordInv'
  BY <1>2, CoordSame DEF SyncInv, MountInv, NewestInv
<1>5. SlotInv'
  BY <1>1, <1>2 DEF SlotInv
<1>6. ConvergeInv'
  BY <1>2 DEF SyncInv, ConvergeInv, shows_row, asked, announcing
<1> QED
  BY <1>3, <1>4, <1>5, <1>6 DEF SyncInv

LEMMA ExecuteWriteKeeps == SyncInv /\ ExecuteWrite => SyncInv'
<1> SUFFICES ASSUME SyncInv, ExecuteWrite PROVE SyncInv'
  OBVIOUS
<1>1. PICK ok \in BOOLEAN, durable \in BOOLEAN :
        /\ ok => durable
        /\ row' = IF durable THEN patched(row, first.patch) ELSE row
        /\ slot' = [done |-> TRUE, ok |-> ok, read |-> IF ok THEN row' ELSE NoSettings]
        /\ behind' = IF row' # row /\ (~ok \/ first.kind = "setup")
                     THEN {h \in Hooks : hook[h].mounted}
                     ELSE behind
  BY DEF ExecuteWrite
<1>2. /\ queue # <<>> /\ ~slot.done /\ first.kind # "get"
      /\ UNCHANGED <<queue, waiting, hook, reminderVars>>
  BY DEF ExecuteWrite
<1>3. first \in Operations /\ 1 \in DOMAIN queue /\ first = queue[1]
  BY <1>2, ElementFacts, MountedTypes DEF first
<1>4. row' \in Settings
  BY <1>1, <1>2, <1>3, PatchFacts DEF Operations, SyncInv, TypeInv
<1>5. TypeInv'
  BY <1>1, <1>2, <1>4 DEF SyncInv, TypeInv, Answers, reminderVars
<1>6. MountInv' /\ NewestInv' /\ CoordInv'
  BY <1>2, CoordSame DEF SyncInv, MountInv, NewestInv
<1>7. SlotInv'
  BY <1>1, <1>2 DEF SlotInv
<1>8. ASSUME NEW h \in Hooks, hook[h].mounted
      PROVE  (shows_row(h) \/ asked(queue, h) \/ announcing(queue, h))'
  <2>1. CASE row' = row
    BY <1>1, <1>2, <1>8, <2>1 DEF SyncInv, ConvergeInv, shows_row, asked, announcing
  <2>2. CASE row' # row /\ (~ok \/ first.kind = "setup")
    BY <1>1, <1>8, <2>2 DEF shows_row
  <2>3. CASE ok /\ first.kind # "setup"
    <3>1. first.kind \in {"update", "restore"}
      BY <1>2, <1>3, <2>3 DEF Operations, Ops
    <3>2. CASE first.by = h
      BY <1>2, <1>3, <3>2 DEF asked
    <3>3. CASE first.by # h
      BY <1>1, <1>2, <2>3, <3>1, <3>3 DEF announcing, first
    <3> QED
      BY <3>2, <3>3
  <2> QED
    BY <2>1, <2>2, <2>3
<1>9. ConvergeInv'
  BY <1>2, <1>8 DEF ConvergeInv
<1> QED
  BY <1>5, <1>6, <1>7, <1>9 DEF SyncInv

\* What an answered operation leaves in the queue.
LEMMA SettledFacts ==
  ASSUME SyncInv, settled
  PROVE  /\ queue # <<>> /\ slot.done /\ slot' = Unmet
         /\ rest \in Seq(Operations) /\ first \in Operations
         /\ slot.ok => slot.read = row /\ row \in Settings
         /\ slot.read \in Settings \cup {NoSettings}
         /\ \A h \in Hooks : Newest(rest, h, hook[h].mounted)
         /\ \A h : asked(queue, h) => asked(rest, h) \/ first.by = h
         /\ \A h \in Hooks : hook[h].mounted /\ first.by = h /\ ~first.current => asked(rest, h)
         /\ \A h \in Hooks : first.by = h /\ first.current => hook[h].mounted
<1>1. queue # <<>> /\ slot.done /\ slot' = Unmet
  BY DEF settled
<1>2. slot.ok => slot.read = row /\ row \in Settings
  BY <1>1 DEF SyncInv, SlotInv, TypeInv
<1>3. slot.read \in Settings \cup {NoSettings}
  BY DEF SyncInv, TypeInv, Answers
<1>4. /\ rest \in Seq(Operations) /\ first \in Operations
      /\ \A h \in Hooks, m \in BOOLEAN : Newest(queue, h, m) => Newest(rest, h, m)
      /\ \A h : asked(queue, h) => asked(rest, h) \/ first.by = h
      /\ \A h \in Hooks : Newest(queue, h, TRUE) /\ first.by = h /\ ~first.current => asked(rest, h)
      /\ \A h \in Hooks : Newest(queue, h, FALSE) /\ first.by = h => ~first.current
  BY <1>1, MountedTypes, RestFacts DEF first, rest
<1>5. ASSUME NEW h \in Hooks
      PROVE  /\ Newest(rest, h, hook[h].mounted)
             /\ hook[h].mounted /\ first.by = h /\ ~first.current => asked(rest, h)
             /\ first.by = h /\ first.current => hook[h].mounted
  <2>1. CASE hook[h].mounted = TRUE
    BY <1>4, <2>1, MountedTypes
  <2>2. CASE hook[h].mounted = FALSE
    BY <1>4, <2>2, MountedTypes
  <2> QED
    BY <2>1, <2>2, MountedTypes
<1> QED
  BY <1>1, <1>2, <1>3, <1>4, <1>5

LEMMA SettleLoadKeeps == SyncInv /\ SettleLoad => SyncInv'
<1> SUFFICES ASSUME SyncInv, SettleLoad PROVE SyncInv'
  OBVIOUS
<1> DEFINE answered == IF slot.ok THEN showing(slot.read) ELSE [hook[first.by] EXCEPT !.error = TRUE]
<1>1. /\ settled /\ first.kind = "get" /\ first.by \in Hooks /\ queue' = rest
      /\ hook' = IF first.current THEN [hook EXCEPT ![first.by] = answered] ELSE hook
      /\ behind' = IF first.current /\ slot.ok THEN behind \ {first.by} ELSE behind
      /\ IF hook'["provider"].settings # hook["provider"].settings
         THEN setOwner(slot.read)
         ELSE UNCHANGED <<coord, calls, bypassed>>
      /\ UNCHANGED <<row, waiting, native, refused>>
  BY DEF SettleLoad
<1>2. hook[first.by] \in HookStates /\ hook \in [Hooks -> HookStates]
  BY <1>1 DEF SyncInv, TypeInv
<1>3. /\ answered \in HookStates
      /\ answered.mounted = IF slot.ok THEN TRUE ELSE hook[first.by].mounted
      /\ slot.ok => answered.settings = slot.read
      /\ ~slot.ok => answered.settings = hook[first.by].settings /\ answered.error
  BY <1>1, <1>2, SettledFacts, Known DEF HookStates, showing
<1> HIDE DEF answered
<1>4. \A h \in Hooks : hook'[h] = IF first.current /\ h = first.by THEN answered ELSE hook[h]
  BY <1>1, <1>2
<1>5. \A h \in Hooks : hook'[h].mounted = hook[h].mounted
  BY <1>1, <1>3, <1>4, SettledFacts, MountedTypes
<1>6. hook'["provider"].settings # hook["provider"].settings =>
        slot.ok /\ hook'["provider"].settings = slot.read /\ slot.read = row /\ row \in Settings
  BY <1>1, <1>3, <1>4, SettledFacts, HookNames
<1>7. TypeInv'
  <2>1. hook' \in [Hooks -> HookStates]
    BY <1>1, <1>2, <1>3
  <2>2. CASE hook'["provider"].settings # hook["provider"].settings
    <3>1. /\ coord' = slot.read /\ bypassed' = FALSE /\ slot.read \in Settings
          /\ calls' = IF slot.read = coord THEN calls ELSE Append(calls, slot.read)
      BY <1>1, <1>6, <2>2 DEF setOwner, reconcileNative
    <3>2. calls' \in Seq(Settings)
      BY <3>1, AppendProperties DEF SyncInv, TypeInv
    <3> QED
      BY <1>1, <2>1, <3>1, <3>2, SettledFacts, Known DEF SyncInv, TypeInv
  <2>3. CASE hook'["provider"].settings = hook["provider"].settings
    BY <1>1, <2>1, <2>3, SettledFacts, Known DEF SyncInv, TypeInv
  <2> QED
    BY <2>2, <2>3
<1>8. MountInv'
  <2>1. ~hook'["form"].mounted => hook'["form"] = hook["form"]
    BY <1>1, <1>4, <1>5, SettledFacts, HookNames
  <2> QED
    BY <1>1, <1>5, <2>1, HookNames DEF SyncInv, MountInv
<1>9. NewestInv'
  BY <1>1, <1>5, SettledFacts DEF NewestInv
<1>10. SlotInv'
  BY SettledFacts, <1>1, Known DEF SlotInv
<1>11. ASSUME NEW h \in Hooks, hook'[h].mounted
       PROVE  (shows_row(h) \/ asked(queue, h))'
  <2>1. hook[h].mounted
    BY <1>5, <1>11
  <2>2. asked(rest, h) => asked(queue, h)'
    BY <1>1 DEF asked
  <2>3. CASE h # first.by
    <3>1. shows_row(h) => shows_row(h)'
      BY <1>1, <1>4, <2>3 DEF shows_row
    <3>2. ~announcing(queue, h)
      BY <1>1 DEF announcing, first
    <3> QED
      BY <1>1, <2>1, <2>2, <2>3, <3>1, <3>2, SettledFacts DEF SyncInv, ConvergeInv
  <2>4. CASE h = first.by /\ first.current
    BY <1>1, <1>3, <1>4, <2>4, SettledFacts DEF shows_row
  <2>5. CASE h = first.by /\ ~first.current
    BY <1>1, <2>1, <2>2, <2>5, SettledFacts
  <2> QED
    BY <2>3, <2>4, <2>5
<1>12. ConvergeInv'
  BY <1>11 DEF ConvergeInv
<1>13. CoordInv'
  <2>1. CASE hook'["provider"].settings = hook["provider"].settings
    BY <1>1, <2>1 DEF SyncInv, CoordInv
  <2>2. CASE hook'["provider"].settings # hook["provider"].settings
    <3>1. /\ coord' = slot.read /\ bypassed' = FALSE /\ slot.read # NoSettings
          /\ calls' = IF slot.read = coord THEN calls ELSE Append(calls, slot.read)
      BY <1>1, <1>6, <2>2, Known DEF setOwner, reconcileNative
    <3>2. slot.read # coord => calls' # <<>> /\ calls'[Len(calls')] = slot.read
      BY <1>6, <2>2, <3>1, AppendFacts DEF SyncInv, TypeInv
    <3> QED
      BY <1>1, <1>6, <2>2, <3>1, <3>2 DEF SyncInv, CoordInv
  <2> QED
    BY <2>1, <2>2
<1> QED
  BY <1>7, <1>8, <1>9, <1>10, <1>12, <1>13 DEF SyncInv

LEMMA SettleReconcileKeeps == SyncInv /\ SettleReconcile => SyncInv'
<1> SUFFICES ASSUME SyncInv, SettleReconcile PROVE SyncInv'
  OBVIOUS
<1>1. /\ settled /\ first.kind = "get" /\ first.by = "coordinator" /\ queue' = rest
      /\ IF slot.ok
         THEN /\ coord' = slot.read
              /\ calls' = Append(calls, slot.read)
              /\ bypassed' = (slot.read # hook["provider"].settings)
         ELSE UNCHANGED <<coord, calls, bypassed>>
      /\ UNCHANGED <<row, waiting, hook, native, refused, behind>>
  BY DEF SettleReconcile, reconcileNative
<1>2. TypeInv'
  <2>1. coord' \in Settings \cup {NoSettings} /\ calls' \in Seq(Settings) /\ bypassed' \in BOOLEAN
    <3>1. CASE slot.ok
      <4>1. slot.read \in Settings /\ calls \in Seq(Settings)
        BY <1>1, <3>1, SettledFacts DEF SyncInv, TypeInv
      <4>2. calls' \in Seq(Settings)
        BY <1>1, <3>1, <4>1, AppendProperties
      <4>3. bypassed' \in BOOLEAN
        BY <1>1, <3>1
      <4> QED
        BY <1>1, <3>1, <4>1, <4>2, <4>3
    <3>2. CASE ~slot.ok
      BY <1>1, <3>2 DEF SyncInv, TypeInv
    <3> QED
      BY <3>1, <3>2
  <2> QED
    BY <1>1, <2>1, SettledFacts, Known DEF SyncInv, TypeInv
<1>3. MountInv' /\ NewestInv' /\ SlotInv'
  BY <1>1, SettledFacts, Known DEF SyncInv, MountInv, NewestInv, SlotInv
<1>4. ConvergeInv'
  BY <1>1, SettledFacts, HookNames DEF SyncInv, ConvergeInv, shows_row, asked, announcing, Hooks, first
<1>5. CoordInv'
  <2>1. CASE slot.ok
    <3>1. slot.read \in Settings /\ slot.read # NoSettings /\ calls \in Seq(Settings)
      BY <1>1, <2>1, SettledFacts, Known DEF SyncInv, TypeInv
    <3>2. calls' # <<>> /\ calls'[Len(calls')] = slot.read
      BY <1>1, <2>1, <3>1, AppendFacts
    <3> QED
      BY <1>1, <2>1, <3>1, <3>2 DEF CoordInv
  <2>2. CASE ~slot.ok
    BY <1>1, <2>2 DEF SyncInv, CoordInv
  <2> QED
    BY <2>1, <2>2
<1> QED
  BY <1>2, <1>3, <1>4, <1>5 DEF SyncInv

\* A change that succeeded was announced to every mounted hook but the one that made it.
LEMMA AnnouncedFacts ==
  ASSUME SyncInv, settled, NEW ops, ops = IF slot.ok THEN publish(rest, first.by) ELSE rest
  PROVE  /\ ops \in Seq(Operations)
         /\ \A h \in Hooks : Newest(ops, h, hook[h].mounted)
         /\ \A h : asked(rest, h) => asked(ops, h)
         /\ slot.ok => \A h \in Hooks \ {first.by} : hook[h].mounted => asked(ops, h)
<1>1. CASE slot.ok
  <2>1. ops = publish(rest, first.by)
    BY <1>1
  <2>2. rest \in Seq(Operations) /\ \A h \in Hooks : Newest(rest, h, hook[h].mounted)
    BY SettledFacts
  <2>3. TypeInv /\ MountInv
    BY DEF SyncInv
  <2> QED
    BY <2>1, <2>2, <2>3, PublishFacts DEF Grown
<1>2. CASE ~slot.ok
  BY <1>2, SettledFacts
<1> QED
  BY <1>1, <1>2

LEMMA SettleUpdateKeeps == SyncInv /\ SettleUpdate => SyncInv'
<1> SUFFICES ASSUME SyncInv, SettleUpdate PROVE SyncInv'
  OBVIOUS
<1> DEFINE ops == IF slot.ok THEN publish(rest, first.by) ELSE rest
<1>1. /\ settled /\ first.kind = "update"
      /\ hook' = CASE first.current /\ slot.ok  -> [hook EXCEPT !["form"] = showing(slot.read)]
                   [] first.current /\ ~slot.ok -> [hook EXCEPT !["form"].error = TRUE]
                   [] OTHER                     -> hook
      /\ behind' = IF first.current /\ slot.ok THEN behind \ {"form"} ELSE behind
      /\ continue(ops, first.by)
      /\ UNCHANGED row /\ UNCHANGED reminderVars
  BY DEF SettleUpdate, announced
<1>2. /\ ops \in Seq(Operations)
      /\ \A h \in Hooks : Newest(ops, h, hook[h].mounted)
      /\ \A h : asked(rest, h) => asked(ops, h)
      /\ slot.ok => \A h \in Hooks \ {first.by} : hook[h].mounted => asked(ops, h)
  BY <1>1, AnnouncedFacts
<1> HIDE DEF ops
<1>3. /\ first.by \in Instances /\ (first.current => first.by = "form")
      /\ first.current => hook["form"].mounted
  <2>1. first.by \in Instances /\ (first.by = "left" => ~first.current)
    BY <1>1, SettledFacts DEF Operations
  <2> QED
    BY <1>1, <2>1, SettledFacts, HookNames
<1>4. /\ queue' \in Seq(Operations) /\ waiting' \in [Instances -> Seq(Patches)]
      /\ \A h \in Hooks : Newest(queue', h, hook[h].mounted)
      /\ \A h : asked(ops, h) => asked(queue', h)
      /\ waiting["form"] = <<>> => waiting'["form"] = <<>>
  <2>1. CASE waiting[first.by] = <<>>
    BY <1>1, <1>2, <2>1 DEF continue, SyncInv, TypeInv
  <2>2. CASE waiting[first.by] # <<>>
    <3> DEFINE patch == Head(waiting[first.by])
               r == startUpdate(ops, first.by, patch)
    <3>1. patch \in Patches /\ Tail(waiting[first.by]) \in Seq(Patches)
      BY <1>3, <2>2, HeadTailProperties DEF SyncInv, TypeInv
    <3>2. queue' = r /\ waiting' = [waiting EXCEPT ![first.by] = Tail(@)]
      BY <1>1, <2>2 DEF continue
    <3> HIDE DEF patch
    <3>3. /\ r \in Seq(Operations) /\ Grown(ops, r)
          /\ first.by = "form" => Newest(r, "form", TRUE)
          /\ \A k \in Hooks \ {first.by}, m \in BOOLEAN : Newest(ops, k, m) => Newest(r, k, m)
      BY <1>2, <1>3, <3>1, StartUpdateFacts
    <3> HIDE DEF r
    <3>4. ASSUME NEW h \in Hooks PROVE Newest(queue', h, hook[h].mounted)
      <4>1. CASE h = first.by
        <5>1. h = "form"
          BY <1>3, <4>1, HookNames
        <5>2. hook["form"].mounted = TRUE
          BY <2>2, <4>1, <5>1, MountedTypes, HookNames
        <5> QED
          BY <3>2, <3>3, <4>1, <5>1, <5>2
      <4>2. CASE h # first.by
        BY <1>2, <3>2, <3>3, <4>2, MountedTypes
      <4> QED
        BY <4>1, <4>2
    <3>5. waiting' \in [Instances -> Seq(Patches)]
      BY <1>3, <3>1, <3>2 DEF SyncInv, TypeInv
    <3>6. waiting["form"] = <<>> => waiting'["form"] = <<>>
      BY <1>3, <2>2, <3>2, HookNames DEF SyncInv, TypeInv
    <3> QED
      BY <3>2, <3>3, <3>4, <3>5, <3>6 DEF Grown
  <2> QED
    BY <2>1, <2>2
<1>5. /\ hook' \in [Hooks -> HookStates] /\ hook'["provider"] = hook["provider"]
      /\ hook'["form"].mounted = hook["form"].mounted
      /\ ~first.current => hook'["form"] = hook["form"]
      /\ first.current => IF slot.ok THEN hook'["form"].settings = slot.read ELSE hook'["form"].error
  <2>1. hook \in [Hooks -> HookStates] /\ hook["form"] \in HookStates
    BY HookNames DEF SyncInv, TypeInv
  <2>2. CASE first.current /\ slot.ok
    <3>1. showing(slot.read) \in HookStates /\ showing(slot.read).mounted
          /\ showing(slot.read).settings = slot.read
      BY <1>1, SettledFacts, Known
    <3>2. hook["form"].mounted = TRUE /\ showing(slot.read).mounted = TRUE
      BY <1>3, <2>1, <2>2 DEF HookStates, showing
    <3> QED
      BY <1>1, <2>1, <2>2, <3>1, <3>2, HookNames
  <2>3. CASE first.current /\ ~slot.ok
    <3>1. hook' = [hook EXCEPT !["form"] = [hook["form"] EXCEPT !.error = TRUE]]
      BY <1>1, <2>1, <2>3
    <3>2. [hook["form"] EXCEPT !.error = TRUE] \in HookStates
      BY <2>1 DEF HookStates
    <3> QED
      BY <2>1, <2>3, <3>1, <3>2, HookNames DEF HookStates
  <2>4. CASE ~first.current
    BY <1>1, <2>1, <2>4
  <2> QED
    BY <2>2, <2>3, <2>4
<1>6. TypeInv'
  BY <1>1, <1>4, <1>5, SettledFacts, Known DEF SyncInv, TypeInv, reminderVars
<1>7. MountInv'
  BY <1>3, <1>4, <1>5 DEF SyncInv, MountInv
<1>8. NewestInv'
  <2>1. \A h \in Hooks : hook'[h].mounted = hook[h].mounted
    BY <1>5, HookNames
  <2> QED
    BY <1>4, <2>1 DEF NewestInv
<1>9. SlotInv'
  BY <1>1, SettledFacts, Known DEF SlotInv
<1>10. ASSUME NEW h \in Hooks, hook'[h].mounted
       PROVE  (shows_row(h) \/ asked(queue, h))'
  <2>1. hook[h].mounted
    BY <1>5, <1>10, HookNames
  <2>2. asked(rest, h) \/ asked(ops, h) => asked(queue, h)'
    BY <1>2, <1>4 DEF asked
  <2>3. CASE h = first.by /\ first.current
    BY <1>1, <1>3, <1>5, <2>3, SettledFacts DEF shows_row
  <2>4. CASE h = first.by /\ ~first.current
    BY <1>1, <2>1, <2>2, <2>4, SettledFacts
  <2>5. CASE h # first.by
    <3>1. CASE slot.ok
      BY <1>2, <2>1, <2>2, <2>5, <3>1
    <3>2. CASE ~slot.ok
      <4>1. ~announcing(queue, h)
        BY <3>2 DEF announcing
      <4>2. hook'[h].error = hook[h].error /\ hook'[h].settings = hook[h].settings
        BY <1>3, <1>5, <2>5, HookNames
      <4>3. shows_row(h) => shows_row(h)'
        BY <1>1, <3>2, <4>2 DEF shows_row
      <4> QED
        BY <1>1, <2>1, <2>2, <2>5, <4>1, <4>3, SettledFacts DEF SyncInv, ConvergeInv
    <3> QED
      BY <3>1, <3>2
  <2> QED
    BY <2>3, <2>4, <2>5
<1>11. ConvergeInv'
  BY <1>10 DEF ConvergeInv
<1>12. CoordInv'
  BY <1>1, <1>5, CoordSame DEF SyncInv
<1> QED
  BY <1>6, <1>7, <1>8, <1>9, <1>11, <1>12 DEF SyncInv

\* A restored backup and the setup leave every hook as it is.
LEMMA ServiceKeeps ==
  ASSUME SyncInv, settled, first.kind \in {"restore", "setup"},
         queue' = IF slot.ok /\ first.kind = "restore" THEN publish(rest, "service") ELSE rest,
         UNCHANGED <<row, waiting, hook, behind, reminderVars>>
  PROVE  SyncInv'
<1>1. first.by = "service" /\ "service" \notin Hooks
  BY SettledFacts, HookNames DEF Operations
<1>2. /\ queue' \in Seq(Operations)
      /\ \A h \in Hooks : Newest(queue', h, hook[h].mounted)
      /\ \A h : asked(rest, h) => asked(queue', h)
      /\ slot.ok /\ first.kind = "restore" => \A h \in Hooks : hook[h].mounted => asked(queue', h)
  <2>1. CASE first.kind = "restore"
    <3> DEFINE ops == queue'
    <3>1. ops = IF slot.ok THEN publish(rest, first.by) ELSE rest
      BY <1>1, <2>1
    <3> HIDE DEF ops
    <3>2. /\ ops \in Seq(Operations)
          /\ \A h \in Hooks : Newest(ops, h, hook[h].mounted)
          /\ \A h : asked(rest, h) => asked(ops, h)
          /\ slot.ok => \A h \in Hooks \ {first.by} : hook[h].mounted => asked(ops, h)
      BY <3>1, AnnouncedFacts
    <3> QED
      BY <1>1, <3>2 DEF ops
  <2>2. CASE first.kind # "restore"
    BY <2>2, SettledFacts
  <2> QED
    BY <2>1, <2>2
<1>3. TypeInv'
  BY <1>2, SettledFacts, Known DEF SyncInv, TypeInv, reminderVars
<1>4. MountInv' /\ NewestInv' /\ SlotInv'
  BY <1>2, SettledFacts, Known DEF SyncInv, MountInv, NewestInv, SlotInv
<1>5. ASSUME NEW h \in Hooks, hook[h].mounted
      PROVE  (shows_row(h) \/ asked(queue, h))'
  <2>1. asked(rest, h) => asked(queue, h)'
    BY <1>2 DEF asked
  <2>2. asked(queue, h) => asked(rest, h)
    BY <1>1, SettledFacts
  <2>3. announcing(queue, h) => asked(queue', h)
    BY <1>2, <1>5, HookNames DEF announcing, first
  <2>4. shows_row(h) => shows_row(h)'
    BY DEF shows_row
  <2> QED
    BY <1>5, <2>1, <2>2, <2>3, <2>4 DEF SyncInv, ConvergeInv, asked
<1>6. ConvergeInv'
  BY <1>5 DEF ConvergeInv
<1>7. CoordInv'
  BY CoordSame DEF SyncInv
<1> QED
  BY <1>3, <1>4, <1>6, <1>7 DEF SyncInv

LEMMA SettleRestoreKeeps == SyncInv /\ SettleRestore => SyncInv'
<1> SUFFICES ASSUME SyncInv, SettleRestore PROVE SyncInv'
  OBVIOUS
<1>1. settled /\ first.kind = "restore"
  BY DEF SettleRestore
<1>2. queue' = IF slot.ok /\ first.kind = "restore" THEN publish(rest, "service") ELSE rest
  BY <1>1 DEF SettleRestore
<1>3. UNCHANGED <<row, waiting, hook, behind, reminderVars>>
  BY DEF SettleRestore
<1> QED
  BY <1>1, <1>2, <1>3, ServiceKeeps

LEMMA SettleSetupKeeps == SyncInv /\ SettleSetup => SyncInv'
<1> SUFFICES ASSUME SyncInv, SettleSetup PROVE SyncInv'
  OBVIOUS
<1>1. settled /\ first.kind = "setup"
  BY DEF SettleSetup
<1>2. queue' = IF slot.ok /\ first.kind = "restore" THEN publish(rest, "service") ELSE rest
  BY <1>1 DEF SettleSetup
<1>3. UNCHANGED <<row, waiting, hook, behind, reminderVars>>
  BY DEF SettleSetup
<1> QED
  BY <1>1, <1>2, <1>3, ServiceKeeps

LEMMA NativeAnswersKeeps == SyncInv /\ NativeAnswers => SyncInv'
<1> SUFFICES ASSUME SyncInv, NativeAnswers PROVE SyncInv'
  OBVIOUS
<1>1. /\ calls # <<>> /\ calls' = Tail(calls)
      /\ \/ native' = Head(calls) /\ refused' = FALSE
         \/ native' \in {native, Head(calls)} /\ refused' = TRUE
      /\ UNCHANGED <<row, queue, slot, waiting, hook, coord, bypassed, behind>>
  BY DEF NativeAnswers, queueVars
<1>2. calls \in Seq(Settings)
  BY DEF SyncInv, TypeInv
<1>3. Head(calls) \in Settings /\ Tail(calls) \in Seq(Settings)
  BY <1>1, <1>2, HeadTailProperties
<1>4. TypeInv'
  BY <1>1, <1>3 DEF SyncInv, TypeInv
<1>5. MountInv' /\ NewestInv' /\ SlotInv'
  BY <1>1 DEF SyncInv, MountInv, NewestInv, SlotInv
<1>6. ConvergeInv'
  BY <1>1 DEF SyncInv, ConvergeInv, shows_row, asked, announcing
<1>7. CoordInv'
  <2>1. coord # NoSettings /\ calls[Len(calls)] = coord
    BY <1>1 DEF SyncInv, CoordInv
  <2>2. CASE Tail(calls) = <<>>
    <3>1. Len(calls) = 1 /\ Head(calls) = calls[1]
      <4>1. Len(calls) \in Nat /\ Len(Tail(calls)) = Len(calls) - 1
        BY <1>1, <1>2, HeadTailProperties, LenProperties
      <4>2. Len(Tail(calls)) = 0
        BY <2>2, <1>3, EmptySeq, LenProperties
      <4>3. Head(calls) = calls[1]
        BY <1>1, <1>2, ElementFacts
      <4> QED
        BY <4>1, <4>2, <4>3
    <3> QED
      BY <1>1, <2>1, <2>2, <3>1 DEF SyncInv, CoordInv
  <2>3. CASE Tail(calls) # <<>>
    <3> DEFINE n == Len(Tail(calls))
               m == Len(calls)
    <3>1. Tail(calls)[n] = calls[m]
      <4>1. m \in Nat \ {0} /\ n = m - 1 /\ \A i \in 1 .. n : Tail(calls)[i] = calls[i + 1]
        BY <1>1, <1>2, EmptySeq, HeadTailProperties, LenProperties
      <4>2. n # 0
        BY <1>3, <2>3, EmptySeq, LenProperties
      <4> HIDE DEF n, m
      <4>3. n \in 1 .. n /\ n + 1 = m
        BY <4>1, <4>2
      <4> QED
        BY <4>1, <4>3
    <3> QED
      BY <1>1, <2>1, <2>3, <3>1 DEF SyncInv, CoordInv
  <2> QED
    BY <2>2, <2>3
<1> QED
  BY <1>4, <1>5, <1>6, <1>7 DEF SyncInv

LEMMA StartedFacts ==
  /\ <<get("provider")>> \in Seq(Operations)
  /\ \A h \in Hooks : Newest(<<get("provider")>>, h, freshHooks[h].mounted)
  /\ asked(<<get("provider")>>, "provider")
  /\ freshHooks \in [Hooks -> HookStates] /\ freshHooks["provider"] = mountedHook
  /\ freshHooks["form"] = NoHook
  /\ nothingWaits \in [Instances -> Seq(Patches)] /\ nothingWaits["form"] = <<>>
<1> DEFINE o == get("provider")
<1>1. o \in Operations /\ o.by = "provider" /\ o.current
  BY Operation, HookNames
<1> HIDE DEF o
<1>2. <<o>> \in Seq(Operations) /\ DOMAIN <<o>> = {1} /\ <<o>>[1] = o
  BY <1>1
<1>3. /\ freshHooks \in [Hooks -> HookStates] /\ freshHooks["provider"] = mountedHook
      /\ freshHooks["form"] = NoHook
  BY Known, HookNames DEF freshHooks
<1>4. nothingWaits \in [Instances -> Seq(Patches)] /\ nothingWaits["form"] = <<>>
  BY EmptySeq, HookNames DEF nothingWaits
<1>5. \A h \in Hooks : Newest(<<o>>, h, freshHooks[h].mounted)
  BY <1>1, <1>2, <1>3, Known, HookNames DEF Newest
<1>6. asked(<<o>>, "provider")
  BY <1>1, <1>2 DEF asked
<1> QED
  BY <1>2, <1>3, <1>4, <1>5, <1>6 DEF o

LEMMA RestartKeeps == SyncInv /\ Restart => SyncInv'
<1> SUFFICES ASSUME SyncInv, Restart PROVE SyncInv'
  OBVIOUS
<1>1. /\ queue' = <<get("provider")>> /\ slot' = Unmet /\ waiting' = nothingWaits
      /\ hook' = freshHooks /\ coord' = NoSettings /\ calls' = <<>>
      /\ behind' = {} /\ refused' = FALSE /\ bypassed' = FALSE
      /\ row' = row /\ native' = native
  BY DEF Restart
<1>2. TypeInv'
  BY <1>1, StartedFacts, Known, EmptySeq DEF SyncInv, TypeInv
<1>3. MountInv' /\ NewestInv' /\ SlotInv'
  BY <1>1, StartedFacts, Known DEF MountInv, NewestInv, SlotInv
<1>4. ConvergeInv'
  BY <1>1, StartedFacts, Known, HookNames DEF ConvergeInv, asked
<1>5. CoordInv'
  BY <1>1, StartedFacts, Known DEF CoordInv
<1> QED
  BY <1>2, <1>3, <1>4, <1>5 DEF SyncInv

LEMMA Started == SyncInit => SyncInv
<1> SUFFICES ASSUME SyncInit PROVE SyncInv
  OBVIOUS
<1>1. /\ queue = <<get("provider")>> /\ slot = Unmet /\ waiting = nothingWaits
      /\ hook = freshHooks /\ coord = NoSettings /\ calls = <<>>
      /\ behind = {} /\ refused = FALSE /\ bypassed = FALSE
      /\ row \in Settings /\ native \in Settings \cup {NoSettings}
  BY Known DEF SyncInit
<1>2. TypeInv
  BY <1>1, StartedFacts, Known, EmptySeq DEF TypeInv
<1>3. MountInv /\ NewestInv /\ SlotInv
  BY <1>1, StartedFacts, Known DEF MountInv, NewestInv, SlotInv
<1>4. ConvergeInv
  BY <1>1, StartedFacts, Known, HookNames DEF ConvergeInv, asked
<1>5. CoordInv
  BY <1>1, StartedFacts, Known DEF CoordInv
<1> QED
  BY <1>2, <1>3, <1>4, <1>5 DEF SyncInv

LEMMA StepKeeps == SyncInv /\ [SyncNext]_syncVars => SyncInv'
<1>1. SyncInv /\ UNCHANGED syncVars => SyncInv'
  BY DEF syncVars, queueVars, reminderVars, boundVars, SyncInv, TypeInv, MountInv, NewestInv, SlotInv,
     ConvergeInv, shows_row, asked, announcing, CoordInv
<1> QED
  BY <1>1, OpenFormKeeps, LeaveFormKeeps, ReloadKeeps, UpdateKeeps, RestoreKeeps, SetupKeeps,
     ExecuteGetKeeps, ExecuteWriteKeeps, SettleLoadKeeps, SettleReconcileKeeps, SettleUpdateKeeps,
     SettleRestoreKeeps, SettleSetupKeeps, NativeAnswersKeeps, ShowKeeps, RestartKeeps DEF SyncNext

-----------------------------------------------------------------------------
\* The inductive invariant: the newest operation of a mounted hook is the only current
\* one, and a hook that does not show what is stored has asked for it or is about to be
\* told (use-settings.ts, settings-change-events.ts).
THEOREM SyncInvariant == SyncSpec => []SyncInv
BY Started, StepKeeps, PTL DEF SyncSpec

\* Once everything has been answered, every hook without an error shows what is stored,
\* but for changes that were stored and not announced: whatever the number of changes,
\* forms left in the middle of an update, and restarts.
THEOREM Converging == SyncSpec => []HooksConverge
<1>1. SyncInv => HooksConverge
  <2> SUFFICES ASSUME SyncInv, Quiet, NEW h \in Hooks, hook[h].mounted, ~hook[h].error
               PROVE  hook[h].settings = row \/ h \in behind
    BY DEF HooksConverge
  <2>1. queue = <<>>
    BY DEF Quiet
  <2>2. ~asked(queue, h) /\ ~announcing(queue, h)
    BY <2>1, EmptySeq DEF asked, announcing, SyncInv, SlotInv
  <2> QED
    BY <2>2 DEF SyncInv, ConvergeInv, shows_row
<1> QED
  BY <1>1, SyncInvariant, PTL

\* The native reminder then has the stored settings when the provider shows them, its
\* last call succeeded and the coordinator did not read past the provider.
THEOREM Following == SyncSpec => []ReminderFollowsSettings
<1>1. SyncInv => ReminderFollowsSettings
  <2> SUFFICES ASSUME SyncInv, Quiet, hook["provider"].settings = row, ~refused, ~bypassed
               PROVE  native = row
    BY DEF ReminderFollowsSettings, SyncInv, TypeInv
  <2>1. coord = row /\ row # NoSettings /\ calls = <<>>
    BY Known DEF Quiet, SyncInv, CoordInv, TypeInv
  <2> QED
    BY <2>1 DEF SyncInv, CoordInv
<1> QED
  BY <1>1, SyncInvariant, PTL
=============================================================================
