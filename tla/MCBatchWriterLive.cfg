SPECIFICATION FairSpec
CONSTANTS
  Handlers = {h1, h2}
  Periodic = periodic
  Main = main
  MaxRoutes = 3
  BatchSize = 2
  PoolSize = 1
  Unstorable <- NoneUnstorable
  MaxFailures = 1
  MaxSignals = 2
  p1 = p1
  p2 = p2
  Prefixes = {p1, p2}
  Prefix <- OnePrefix
PROPERTIES
  RoutesLeaveMemory
  SignalEndsProgram
CHECK_DEADLOCK FALSE
