SPECIFICATION ExclusiveSpec
CONSTANTS
  Sessions = {s1, s2}
  Keys = {k1, k2}
  Unknown = {k2}
  Times <- FewTimes
  Attrs = {a1}
  NoAttr = none
  MaxCalls = 4
INVARIANTS
  CountsAlternate
PROPERTIES
  ImplementsAtomic
CHECK_DEADLOCK FALSE
