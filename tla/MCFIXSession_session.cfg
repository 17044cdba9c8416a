CONSTANTS
  order = order
  none = none
  NoBody = none
  Bodies <- MCBodies
  Unreplayable <- NoUnreplayable
  Refused <- NoRefused
  Configs <- MixedConfigs
  SeqNums = {0, 1, 2, 3}
  MaxSeq = 4
  MaxTests = 2
SPECIFICATION Spec
INVARIANTS StoreAscends CleanWhenClosed LoggedOnBothWays TestAwaitedInSession
PROPERTIES NumbersKept
CHECK_DEADLOCK FALSE
