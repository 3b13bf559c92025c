SPECIFICATION DigestSpec
CONSTANTS
  Users = {u1, u2}
  Runs = {r1, r2}
  DayLength = 2
  Subscriptions <- MCSubscriptions
  FirstHour = 10
  MaxHour = 15
  MaxSaves = 1
  MaxRestarts = 1
SYMMETRY Symmetry
INVARIANTS TypeOK AcknowledgedOnce ClaimIsExclusive RowMeansDeliveredOrStranded
PROPERTY ScheduledWeekReachedSunday
CHECK_DEADLOCK FALSE
