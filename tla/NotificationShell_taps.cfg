SPECIFICATION Spec
CONSTANTS
  Ids = {i1, i2, i3}
  MAX_ACTIONS = 2
  Levels = {25, 34}
  MaxEvents = 3
SYMMETRY Taps
INVARIANTS ShownPermissionIsActual AskedOnce EveryTapArrives
PROPERTY GivenOnce
CHECK_DEADLOCK FALSE
