CONSTANTS
  Rank <- Ranks
  Key = {1, 2, 3}
  Owner <- OneEach
  Slot <- SharedSlot
  Size = 2
  MaxCached = 3
  Colls = {"count"}
  MaxInserts = 4
  MaxEpoch = 1
SPECIFICATION NestedSpec
INVARIANTS CountsConserved
