CONSTANTS
  Rank <- Ranks2
  MaxCalls = 2
  MaxEpoch = 2
  Fanout = 1
  None = None
  Cap = 2
  ChanCap = 1
SPECIFICATION CommFairSpec
PROPERTIES ShutdownCompletes BarrierReturns
