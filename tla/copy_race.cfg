SPECIFICATION Spec
CONSTANTS
  Object = Object
  Alpha = Alpha
  Delta = Delta
  Classes = {Object, Alpha, Delta}
  Super <- MCSuper
  HasInit = {Delta}
  HasAssign = {Alpha, Delta}
  HasClear = {Object, Alpha, Delta}
  Threads = {t1, t2}
  Objects = {o1, o2, o3}
  Values = {v1}
  Zero = zero
  Fresh = fresh
  NULL = NULL
  MaxCalls = 2
  Freedoms = {"shared_source"}
SYMMETRY Symmetry
INVARIANTS CopyFaithful
