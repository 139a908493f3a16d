CONSTANTS
  Rank <- Ranks
  Key = {1}
  Object = {"a", "b", "s"}
  Copies = {"b"}
  Owner <- OneEach
  Ops <- MapsAndSet
  Colls = {"size", "save", "load", "copy"}
  MaxOps = 2
  MaxEpoch = 3
SPECIFICATION MapSpec
INVARIANTS EpochContent SizeExact MapInv
