CONSTANTS
  Rank <- Ranks2
  MaxCalls = 3
  MaxEpoch = 1
  Fanout = 2
  None = None
  Cap = 2
  ChanCap = 1
SPECIFICATION CommSpec
INVARIANTS NoFalseAssert
