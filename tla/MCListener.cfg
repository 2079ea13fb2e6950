SPECIFICATION FairSpec
CONSTANTS
  Conns = {c1, c2}
  i1 = i1
  Ips = {i1}
  Ip <- SameIp
  HeaderSize = 2
  BodySizes = {1}
  MaxMessages = 2
  MaxPrefixes = 2
  MaxFailures = 1
INVARIANTS
  TypeOK
  EveryMessageIsAccounted
  TrackingFollowsSessions
  StatusMatchesEvents
PROPERTIES
  HandlersEnd
  StopReturns
CHECK_DEADLOCK FALSE
