SPECIFICATION Spec
CONSTANTS
  c1 = c1
  c2 = c2
  i1 = i1
  i2 = i2
  Collections = {c1, c2}
  Indexes = {i1, i2}
  Calls <- MCCalls
  Changes <- MCChanges
  MaxRounds = 2
  FirstKeys = {}
  MaxKey = 2
  Page = 2
  MaxWrites = 3
  MaxFaults = 1
CHECK_DEADLOCK FALSE
INVARIANT NoWriteEverLost
