SPECIFICATION Spec
CONSTANTS
  Keys = {k1, k2, k3}
  Calls = {c1}
  Modes = {TRUE, FALSE}
  BatchLimit = 2
  MaxPendingKeys = 2
  CoalesceMayThrow = TRUE
  MaxVersion = 2
  NoKey = NoKey
SYMMETRY Symmetry
CHECK_DEADLOCK FALSE
INVARIANTS
  TypeOK
  RetryStandsAlone
  EveryWriteAccounted
  PromisesTrackWrites
  DiscardIsFinal
PROPERTY StoreNeverRegresses
