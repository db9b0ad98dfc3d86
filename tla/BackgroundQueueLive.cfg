SPECIFICATION RecoveringSpec
CONSTANTS
  Keys = {k1, k2}
  Calls = {c1, c2}
  Modes = {TRUE}
  BatchLimit = 1
  MaxPendingKeys = 1
  CoalesceMayThrow = FALSE
  MaxVersion = 2
  NoKey = NoKey
CHECK_DEADLOCK FALSE
PROPERTIES
  EveryWriteSettles
  EveryCallSettles
