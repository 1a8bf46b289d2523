SPECIFICATION OwnersSpec
CONSTANTS
  Users = {ada, bob}
  Founder = ada
  Guest = bob
  Workspaces = {w1, w2}
  FirstWorkspace = w1
  Invitations = {i1, i2}
  i1 = i1
  i2 = i2
  RecoveryTokens = {t1, t2}
  t1 = t1
  t2 = t2
  Calls = {c1, c2}
  MaxSessions = 2
  MaxPasswords = 2
  MaxActiveSessions = 1
  WorkspaceLimit = 20
  Nothing = Nothing
  Over = Over
  Prices = {9, 10, 12}
  EntryPrice = 10
  MinuteLength = 2
  MaxTrades = 5
  MaxTime = 5
  StopDistance = 2
  TakeDistance = 5
  BreakEvenMove = 0
  TrailDistance = 3
  TrailMove = 2
  GuardEvenMove = 0
  GuardTrailMove = 0
  GuardDistance = 0
  HoldingTime = 4
  Fee = 0
  Slip = 0
  LimitOffset = 0
  MarketEntry = FALSE
INVARIANTS
  WorkspaceKeepsOwner
SYMMETRY Interchangeable
CHECK_DEADLOCK FALSE
