SPECIFICATION FairSpec
CONSTANTS
  Threads = {t1, t2, t3}
  Bodies <- SomeBodies
  Word = 32
  Budget = 3
  None = None
CHECK_DEADLOCK FALSE
INVARIANTS TypeOK ArgvFits PointersLive OneChild
PROPERTIES HandlersReturn
