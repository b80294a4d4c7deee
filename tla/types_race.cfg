SPECIFICATION Spec
CONSTANTS
  Object = Object
  WeakRef = WeakRef
  Alpha = Alpha
  Delta = Delta
  Types <- MCTypes
  Super <- MCSuper
  Threads = {t1, t2}
  Main = t1
  Structs = {s1, s2, s3, s4}
  Preloaded = {}
  NULL = NULL
  MaxCalls = 1
  Freedoms = {"type_race"}
PROPERTIES ReturnsType
