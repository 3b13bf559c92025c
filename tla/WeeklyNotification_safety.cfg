SPECIFICATION Spec
CONSTANTS
  Slots = {utc, other}
  DefaultSlot = utc
  Period = 2
  Phase <- MCPhase
  MaxTime = 3
  Empty = Empty
INVARIANTS
  TypeOK
  AtMostOncePerWeek
  RecordedWasPosted
  ResultIsTruthful
  CatchUpBeforeArming
PROPERTIES
  PostIsWriteAhead
  MarkerNeverRegresses
