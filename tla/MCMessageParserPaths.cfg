CONSTANTS
  None = None
  bad = bad
  Malformed = bad
  Pdus <- MCPdusOfPaths
  Messages <- MCMessagesOfPaths
SPECIFICATION SpecMessage
INVARIANTS PathsAreRead
CHECK_DEADLOCK FALSE
