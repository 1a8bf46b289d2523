SPECIFICATION HistorySpec
CONSTANTS
  Loops = {loop}
  Lanes = {lane}
  Snapshot <- OneClose
  Price <- TwoCloses
  TailLimit = 1
  Lookback = 1
  Revisable = {2, 3}
  MaxArriving = 1
  MaxWrites = 6
  None = None
INVARIANTS
  RevisionsNoticed
CHECK_DEADLOCK FALSE
