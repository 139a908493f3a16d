CONSTANTS
  Rank = {r1, r2}
  MaxCalls = 2
  MaxEpoch = 2
  Fanout = 0
  None = None
  Thread = {t1, t2}
SPECIFICATION ThreadsSpec
INVARIANTS ThreadsKeepPromise
