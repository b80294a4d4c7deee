SPECIFICATION InterfacesFairSpec
CONSTANTS
  Object = Object
  Gamma = Gamma
  Alpha = Alpha
  Delta = Delta
  Beta = Beta
  Foo = Foo
  Types <- MCTypes
  Super <- MCSuper
  Names = {Beta, Foo}
  Specs <- MCSpecs
  Threads = {t1, t2}
  Main = t1
  Structs = {s1, s2, s3, s4}
  Preloaded = {Gamma}
  NULL = NULL
  MaxCalls = 2
  Freedoms = {}
INVARIANTS TypeOK SuperLinked NoStaleType IdsAgree RightVtable
PROPERTIES ReturnsType CallsReturn LookupsReturn
