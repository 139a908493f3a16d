CONSTANTS
  Rank <- Ranks
  Key = {1}
  Object = {"a", "b"}
  Copies = {}
  Owner <- OneEach
  Ops <- TwoMultis
  Colls = {"clear", "swap", "gather"}
  MaxOps = 2
  MaxEpoch = 3
SPECIFICATION MapSpec
INVARIANTS EpochContent ContentInv GatherExact MapInv
