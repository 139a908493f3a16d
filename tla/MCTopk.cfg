CONSTANTS
  Size = 5
  K = 2
  Maps <- SomeMaps
  ChanCap = 1
  MaxRounds = 2
SPECIFICATION TopkSpec
INVARIANTS TopkExact TreeInv
PROPERTIES AllReduce TopkReturns
CHECK_DEADLOCK FALSE
