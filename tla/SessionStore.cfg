SPECIFICATION Spec
CONSTANTS
  Tasks = {t1, t2}
  Closer = closer
  Keys = {a, b}
  Ops = {"get", "getBatch", "set", "setBatch", "delete", "clear"}
  CanEvict = TRUE
  AnswersLost = TRUE
  MaxMutations = 3
SYMMETRY Symmetry
CHECK_DEADLOCK FALSE
INVARIANTS
  CacheAgrees
  NoUseAfterDestroy
