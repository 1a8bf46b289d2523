SPECIFICATION EntriesSpec
CONSTANTS
  btc = btc
  eth = eth
  cycleLoop = cycleLoop
  entryA = entryA
  entryB = entryB
  quoteLoop = quoteLoop
  protectionLoop = protectionLoop
  key1 = key1
  m1 = m1
  m2 = m2
  l1 = l1
  l2 = l2
  Symbols <- TwoSymbols
  LiquidityRuns <- NoRun
  MaxRun = 1
  MaxCandle = 2
  MaxEvent = 3
  MaxStop = 1
  MaxVersion = 2
  MaxOpenPositions = 1
  CycleLanes <- CycleLoop
  EntryLanes <- EntryLoops
  PositionLanes <- NoLane
  CommandKeys <- OneKey
  AccountRuns <- AllRuns
  Market <- AtMarket
  ByBook <- AtMarket
  Wanted = 2
  Depth = 3
  Size = 2
  MakerShare = 1
  EntryTtl = 2
  ExitTtl = 1
  BookAge = 1
  MaxTick = 4
  MaxClock = 2
INVARIANTS
  OneClaimPerSymbol
  SignalAccounted
  PositionBackedByFill
  CapacityRespected
  RowsVerify
SYMMETRY Interchangeable
CHECK_DEADLOCK FALSE
