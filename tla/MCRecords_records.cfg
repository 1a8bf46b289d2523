SPECIFICATION RecordsSpec
CONSTANTS
  btc = btc
  Lot = Lot
  w1 = w1
  l1 = l1
  Nobody = Nobody
  Records = {settings, playbook}
  KillSwitch = settings
  settings = settings
  Pages = {p1, p2}
  Workers = {w1}
  None = None
  Capacity = 1
  BatchSize = 1
  Follow = FALSE
  MaxTrade = 5
  MaxVoid = 0
  MaxSession = 3
  Symbols = {btc}
  Positions = {Lot}
  MaxEvent = 4
  BatchLimit = 1
  PageLimit = 2
  ChunkLimit = 1
  MaxWrites = 2
  Holdings = {whole, parted, bare}
  Liquidity = {parted, bare}
  Funded = {parted}
  Quantity = 2
  EntryPrice = 10
  Prices = {9, 12}
  Amounts <- TwoAmounts
  ExitFee = 1
  InitialBalance = 100
  MaxPaid = 2
  Null = Nobody
  RowIds = {1, 2, 3, 4}
  Times = {1, 2}
  Kind <- FeedKinds
  FeedLimit = 1
  MaxRows = 3
  Absent = Nobody
INVARIANTS
  NoHiddenGap
  ArchiveLossless
  BooksAgree
  ComputedAlike
  NothingPassedOver
PROPERTIES
  SwitchTurnedAsShown
  EvidenceOnlyDecides
CHECK_DEADLOCK FALSE
