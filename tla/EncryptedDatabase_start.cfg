SPECIFICATION Spec
CONSTANTS
  Keys = {k1, k2}
  None = None
SYMMETRY KeySymmetry
INVARIANTS DataSurvives EnabledMeansGated RunningIsReconciled StartupReconciles
PROPERTY LiveJournalIsKept
