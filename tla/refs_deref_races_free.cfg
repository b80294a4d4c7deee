SPECIFICATION Spec
CONSTANTS
  Threads = {t1, t2}
  Referents = {o1}
  WeakRefs = {w1}
  NULL = NULL
  MaxCalls = 4
  Freedoms = {"bare_deref"}
INVARIANTS NoUseAfterFree
