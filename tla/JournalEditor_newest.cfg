SPECIFICATION Spec
CONSTANTS
  Texts = {t1, t2, t3}
  NoText = NoText
  MaxMounts = 2
  MaxEdits = 3
  MaxHides = 2
INVARIANT DatabaseEndsWithNewest
SYMMETRY TextSymmetry
CHECK_DEADLOCK FALSE
