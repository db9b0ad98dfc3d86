SPECIFICATION Spec
CONSTANTS
  Urls = 2
  MaxReconnectAttempts = 1
  MaxSockets = 8
CHECK_DEADLOCK FALSE
INVARIANTS
  TypeOK
  StrandedOnlyByTimeout
  ConnectedOrRetrying
  SessionOnItsSocket
  NoOrphan
  StoppedIsDown
PROPERTY ContractSpec
