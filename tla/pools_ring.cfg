SPECIFICATION FairSpec
CONSTANTS
  Threads = {t1, t2, t3}
  Pools = {p1, p2, p3, p4}
  NULL = NULL
  Size = 2
  threadsafe = TRUE
INVARIANTS TypeOK OnePlace ReusedClean Neighbours
PROPERTIES ImplementsStack EvictedDestroyed
