SPECIFICATION Spec
CONSTANTS
  Dates = {d1, d2}
  Contents = {"written", "imported"}
  NoRow = NoRow
  Values = {"chosen", "imported"}
  NoSettings = NoSettings
  Files <- TwoFiles
  None = None
  MaxLives = 2
  MaxPicks = 3
  MaxEdits = 2
  MaxKills = 1
INVARIANT ReportIsTrue
PROPERTY ImplementsImport
CHECK_DEADLOCK FALSE
