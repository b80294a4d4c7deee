SPECIFICATION Spec
CONSTANTS
  Threads = {t1, t2}
  Referents = {o1}
  WeakRefs = {w1}
  NULL = NULL
  MaxCalls = 4
  Freedoms = {"late_weak_ref"}
INVARIANTS NoDanglingWeakRef
