CONSTANTS
  r1 = r1
  r2 = r2
  Reports = {r1, r2}
  NoEntry = NoEntry
  Nobody = Nobody
  MaxVersion = 2
  MaxChanges = 3
  MaxDay = 2
  MaxMishaps = 0
  DetailCap = 1
  ContinuationCap = 1
  BackfillCap = 1
  Lookback = 2
SPECIFICATION Spec
PROPERTIES
  PriorityNeverDiscards
SYMMETRY Symmetry
\* After the last date nothing is left to do.
CHECK_DEADLOCK FALSE
