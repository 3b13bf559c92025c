------------------------- MODULE MCNotificationShell -------------------------
EXTENDS NotificationShell

\* Taps differ only in their ids.
Taps == Permutations(Ids)
==============================================================================
