SPECIFICATION FairSpec
CONSTANTS
  Procs = {p1, p2}
  Blocks = {k1, k2, k3}
  DataOf <- TwoContentsOfOneBlock
  k1 = k1
  NBUF = 2
  Nobody = Nobody
  MaxPinned = 1
INVARIANTS
  CacheConsistent
  RequestOwned
PROPERTIES
  BlockStoreSpec
  EveryWaitEnds
CHECK_DEADLOCK FALSE
