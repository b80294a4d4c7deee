SPECIFICATION Spec
CONSTANTS
  Threads = {t1}
  Referents = {o1}
  WeakRefs = {w1}
  NULL = NULL
  MaxCalls = 4
  Freedoms = {"clear"}
INVARIANTS NoDanglingWeakRef
