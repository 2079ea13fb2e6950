SPECIFICATION Spec
CONSTANTS
  Handlers = {h1, h2}
  Periodic = periodic
  Main = main
  MaxRoutes = 4
  BatchSize = 2
  PoolSize = 2
  Unstorable <- NoneUnstorable
  MaxFailures = 0
  MaxSignals = 0
  p1 = p1
  p2 = p2
  Prefixes = {p1, p2}
  Prefix <- OnePrefix
SYMMETRY Symmetry
INVARIANTS
  StateIsCurrent
CHECK_DEADLOCK FALSE
