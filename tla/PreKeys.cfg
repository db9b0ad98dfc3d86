SPECIFICATION Spec
CONSTANTS
  Passive = passive
  Notices = {n1}
  Receipts = {r1, r2}
  Count = 2
  MaxPreKeys = 3
  MaxId = 4
  MaxRotations = 1
  MaxNotices = 1
  MaxHanded = 2
  MaxConnects = 2
  MaxFaults = 1
SYMMETRY Symmetry
CONSTRAINT FewLapses
CHECK_DEADLOCK FALSE
INVARIANTS
  HandedOutOnce
  HandedOutIsHeld
  SignedKeyHeld
  FlagIsRight
