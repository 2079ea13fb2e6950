SPECIFICATION Spec
CONSTANTS
  Sessions = {s1, s2, s3}
  Keys = {k1}
  Unknown = {}
  Times <- FewTimes
  Attrs = {a1, a2}
  NoAttr = none
  MaxCalls = 4
SYMMETRY Symmetry
INVARIANTS
  TypeOK
  RowIsSummary
  RaceSpoilsCountsOnly
CHECK_DEADLOCK FALSE
