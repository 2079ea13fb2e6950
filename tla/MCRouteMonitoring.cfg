SPECIFICATION Spec
CONSTANTS
  v1 = v1
  a = a
  b = b
  bad = bad
  Views = {v1}
  Names = {a, b}
  Updates <- MCUpdates
  None = None
  Malformed = bad
  MaxUpdates = 2
INVARIANTS
  TypeOK
  RowsFollowMessage
  StateFollowsRouter
CHECK_DEADLOCK FALSE
