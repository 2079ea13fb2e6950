SPECIFICATION Spec
CONSTANTS
  Handlers = {h1, h2}
  Periodic = periodic
  Main = main
  MaxRoutes = 4
  BatchSize = 2
  PoolSize = 2
  Unstorable <- ThirdUnstorable
  MaxFailures = 1
  MaxSignals = 2
  p1 = p1
  p2 = p2
  Prefixes = {p1, p2}
  Prefix <- ThirdIsOther
SYMMETRY Symmetry
INVARIANTS
  TypeOK
  TimerTracksBatch
  SafeRoutesAreWritten
  OneRowWithoutOverlap
  TotalIsWritten
  StopLeavesNothingBehind
PROPERTIES
  ShutdownRunsOut
  HistoryInOrder
  StateMovesForward
CHECK_DEADLOCK FALSE
