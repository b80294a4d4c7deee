SPECIFICATION FairSpec
CONSTANTS
  Threads = {t1, t2}
  Referents = {o1}
  WeakRefs = {w1, w2}
  NULL = NULL
  MaxCalls = 5
  Freedoms = {}
INVARIANTS TypeOK NoUseAfterFree RefcountExact NoOwnerLeft NoDanglingWeakRef OneWeakRef LocksPaired NoDeadlock FreedUnlocked
PROPERTIES ImplementsOwnership CallsReturn UnownedFreed
