SPECIFICATION Spec
CONSTANTS
  btc = btc
  eth = eth
  cycleLoop = cycleLoop
  entryA = entryA
  entryB = entryB
  quoteLoop = quoteLoop
  protectionLoop = protectionLoop
  key1 = key1
  Symbols <- OneSymbol
  LiquidityRuns <- FirstRun
  MaxRun = 2
  MaxCandle = 1
  MaxEvent = 3
  MaxStop = 1
  MaxVersion = 2
  MaxOpenPositions = 1
  CycleLanes <- CycleLoop
  EntryLanes <- EntryLoop
  PositionLanes <- PositionLoops
  CommandKeys <- OneKey
SYMMETRY Interchangeable
INVARIANTS
  StoppedRunIsFlat
  TradeIffClosed
PROPERTIES
  ProtectionNeverLoosens
  ImplementsLifecycle
CHECK_DEADLOCK FALSE
