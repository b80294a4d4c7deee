SPECIFICATION FairSpec
CONSTANTS
  Threads = {t1, t2}
  Main = t1
  Errors = {e1, e2, e3}
  Sizes = {0, 1, 2}
  NULL = NULL
  MaxCalls = 4
  Freedoms = {}
INVARIANTS TypeOK NoUseAfterFree NoLeak
PROPERTIES EndClears
