SPECIFICATION MCControlSpec
CONSTANTS
  Workers = {w1, w2}
  FirstWorker = w1
  FirstRun = r1
  Survivor = w1
  Runs = {r1, r2}
  MaxVersions = 2
  MaxFeed = 2
  MaxAttempts = 2
  Nothing = Nothing
  Connections = {c1}
  Deployments = {d1, d2}
  Requests = {q1}
  Transitions = {t1}
  MaxRevision = 2
INVARIANTS
  ReproducibleResult
  RunsOnVerifiedCredentials
  PositionSupervised
PROPERTIES
  RunEnds
  ClosedMarketPauses
  IncidentsFollow
CHECK_DEADLOCK FALSE
