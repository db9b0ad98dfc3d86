SPECIFICATION Spec
CONSTANTS
  Parties = {alice, bob}
  OneTimeKeys = {1}
  NoSession = NoSession
  MaxPrevSessions = 1
  MaxRecvChains = 2
  FutureMessagesMax = 2
  MaxUnusedKeys = 1
  MaxKeys = 6
  MaxSent = 3
  MaxTroubles = 1
SYMMETRY Symmetry
CHECK_DEADLOCK FALSE
INVARIANTS
  TypeOK
  KeyUsedOnce
  DecryptedOnce
  Decryptable
