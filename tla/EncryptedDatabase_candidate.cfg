SPECIFICATION Spec
CONSTANTS
  Keys = {k1, k2}
  None = None
SYMMETRY KeySymmetry
INVARIANTS NeverLosesOnlyCopy
