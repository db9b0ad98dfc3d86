SPECIFICATION GateFairSpec
CONSTANTS
  Tasks = {t1, t2, t3}
  Closer = closer
CHECK_DEADLOCK FALSE
INVARIANTS
  MutualExclusion
PROPERTIES
  ExclusiveFirst
  ExclusiveGetsIn
  CloseReturns
