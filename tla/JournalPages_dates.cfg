SPECIFICATION Spec
CONSTANTS
  Starts <- MCStarts
  Entries <- MCEntries
  Targets <- MCTargets
  Busy <- MCBusy
  Ends <- MCEnds
  MaxVisits = 3
  MaxEdits = 2
INVARIANTS CalendarAgrees PageShowsItsDates
CHECK_DEADLOCK FALSE
