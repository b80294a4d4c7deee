SPECIFICATION Spec
CONSTANTS
  Threads = {t1, t2, t3}
  Referents = {o1}
  WeakRefs = {w1, w2}
  NULL = NULL
  MaxCalls = 5
  Freedoms = {"bare_deref", "late_weak_ref", "call_under_lock"}
SYMMETRY Symmetry
CONSTRAINT NoUseAfterFree
\* A call that races with the last y_unref can leave a weak reference locked;
\* a thread that wants that mutex never goes on.
CHECK_DEADLOCK FALSE
INVARIANTS NoOwnerLeft
PROPERTIES WeakRefKept
