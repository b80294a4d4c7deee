SPECIFICATION Spec
CONSTANTS
  Threads = {t1, t2, t3}
  Pools = {p1, p2, p3, p4}
  NULL = NULL
  Size = 0
  threadsafe = TRUE
PROPERTIES ImplementsStack
