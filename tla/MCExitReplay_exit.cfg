SPECIFICATION ReplayFairSpec
CHECK_DEADLOCK FALSE
CONSTANTS
  Quantity = 3
  EntryFee = 4
  MaxOrder = 2
  OrderTtl = 2
  BookAge = 1
  ScanLimit = 1
  MarketAge = 1
  Boundaries <- TwoBoundaries
  Rate <- MixedRate
  MaxTime = 2
  MaxEvent = 3
INVARIANTS
  BalancesAgree
  CashFlows
  ReplayAgrees
PROPERTIES
  FillCausal
  LateScanIsFair
  SettlementCompletes
