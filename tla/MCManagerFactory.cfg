SPECIFICATION FairSpec
CONSTANTS
  Workers = {w1, w2, w3}
  Ids = {i1, i2}
  None = None
INVARIANTS NoConcurrentMapWrite WarmCallNeverBuilds BuiltAtMostPerWorker
PROPERTY EveryCallReturns
