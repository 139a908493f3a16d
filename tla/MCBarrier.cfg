CONSTANTS
  Rank = {r1, r2, r3}
  MaxCalls = 3
  MaxEpoch = 2
  Fanout = 2
  None = None
SPECIFICATION Spec
SYMMETRY Symmetry
INVARIANTS IInv BarrierPromise EpochIsolation CollectivesMatch ChainsPassAssert
PROPERTIES BulkSync
