CONSTANTS
  Rank <- Ranks
  Key = {1, 2, 3}
  Owner <- OneEach
  Slot <- SharedSlot
  Size = 2
  MaxCached = 3
  Colls = {"count", "clear", "save", "load"}
  MaxInserts = 3
  MaxEpoch = 3
SPECIFICATION SetSpec
INVARIANTS CountsConserved CountExact SetInv
