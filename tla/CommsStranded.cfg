SPECIFICATION Spec
CONSTANTS
  Urls = 1
  MaxReconnectAttempts = 2
  MaxSockets = 3
CHECK_DEADLOCK FALSE
INVARIANTS
  NeverStranded
