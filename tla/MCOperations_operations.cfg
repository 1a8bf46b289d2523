SPECIFICATION OperationsSpec
CONSTANTS
  btc = btc
  eth = eth
  w1 = w1
  w2 = w2
  Symbols = {btc, eth}
  Prices = {9, 10, 11}
  Quantities = {1}
  Distance = 1
  Cost = 1
  InitialBalance = 40
  DailyLimit = 3
  MaxPositions = 2
  MaxTrades = 2
  MaxDay = 2
  Nothing = Nothing
  Monitors = {m1, m2}
  NoMonitor = NoMonitor
  AuditedTrades = {1, 2}
  PageSize = 1
  MaxFaults = 1
  MaxAttempts = 4
INVARIANTS
  StopsWithinDailyLimit
  OutcomeIsReceipt
PROPERTIES
  HaltOutlivesRecovery
  ForcedPositionsClose
  TradeGetsAudited
  QueueDrains
  EntriesEnd
CHECK_DEADLOCK FALSE
