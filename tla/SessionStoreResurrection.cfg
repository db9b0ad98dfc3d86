SPECIFICATION Spec
CONSTANTS
  Tasks = {t1, t2}
  Closer = closer
  Keys = {a}
  Ops = {"get", "delete"}
  CanEvict = FALSE
  AnswersLost = FALSE
  MaxMutations = 2
CHECK_DEADLOCK FALSE
INVARIANT NoResurrection
