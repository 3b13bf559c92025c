------------------------ MODULE MCWeeklyNotification ------------------------
(* Two slots half a week apart, a clock of two to three weeks.             *)
EXTENDS WeeklyNotification

MCPhase == [s \in Slots |-> IF s = DefaultSlot THEN 0 ELSE 1]
=============================================================================
