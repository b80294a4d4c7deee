SPECIFICATION FairSpec
CONSTANTS
  Object = Object
  Alpha = Alpha
  Delta = Delta
  Classes = {Object, Alpha, Delta}
  Super <- MCSuper
  HasInit = {Alpha, Delta}
  HasAssign = {Alpha, Delta}
  HasClear = {Object, Alpha, Delta}
  Threads = {t1, t2}
  Objects = {o1, o2}
  Values = {v1}
  Zero = zero
  Fresh = fresh
  NULL = NULL
  MaxCalls = 2
  Freedoms = {}
INVARIANTS TypeOK TypeRestored ChainOrder CopyFaithful
PROPERTIES MadeWhole FreedCleared CallsReturn
