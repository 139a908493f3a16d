CONSTANTS
  Rank <- Ranks2
  MaxBags = 2
  MaxOps = 2
  MaxEpoch = 4
SPECIFICATION BagSpec
INVARIANTS BagInv Resolves BagContent IterationSafe IterInv ContentInv
