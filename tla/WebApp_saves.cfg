SPECIFICATION Spec
CONSTANTS
  Texts = {t1, t2, t3}
  NoText = NoText
  MaxEdits = 2
  MaxPages = 2
  Setups = {r1, r2}
  Passwords = {p1, p2}
  Zones = {z1, z2}
  None = None
  MaxChanges = 1
INVARIANTS WebTextIsStored SetupAnswerIsTrue
SYMMETRY Symmetry
CHECK_DEADLOCK FALSE
