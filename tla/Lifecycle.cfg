SPECIFICATION Spec
CONSTANTS
  Ids = {1, 2, 3, 4}
  MaxConnects = 2
  MaxDisconnects = 1
  MaxFatal = 2
  MaxPairings = 1
  MaxFaults = 1
CHECK_DEADLOCK FALSE
INVARIANTS
  OneConnection
  ApplicationKnows
  CurrentCredentials
  KeepAliveWatches
  RestartsOnce
