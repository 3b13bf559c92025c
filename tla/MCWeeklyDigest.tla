---------------------------- MODULE MCWeeklyDigest ----------------------------
(* Two-hour days, from Saturday to Monday; a user east of UTC whose digest *)
(* hour comes before the Sunday of UTC, one west of it whose Sunday        *)
(* evening is UTC's Monday, and one who has given no address.              *)
EXTENDS WeeklyDigest, TLC

subscribed(enabled, hasEmail, offset, hour) ==
  [enabled |-> enabled, hasEmail |-> hasEmail, offset |-> offset, hour |-> hour]

MCSubscriptions ==
  {subscribed(TRUE, TRUE, 1, 0), subscribed(TRUE, TRUE, -1, 1),
   subscribed(TRUE, FALSE, -1, 1)}

Symmetry == Permutations(Users) \cup Permutations(Runs)
=============================================================================
