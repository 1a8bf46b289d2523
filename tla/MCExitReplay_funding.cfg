SPECIFICATION ReplaySpec
CHECK_DEADLOCK FALSE
CONSTANTS
  Quantity = 1
  EntryFee = 1
  MaxOrder = 1
  OrderTtl = 2
  BookAge = 1
  ScanLimit = 1
  MarketAge = 1
  Boundaries <- OneBoundary
  Rate <- CostlyRate
  MaxTime = 3
  MaxEvent = 2
INVARIANTS
  FundingComplete
