SPECIFICATION Spec
CONSTANTS
  Threads = {t1, t2}
  CallsPerThread = 3
  BatchSize = 2
  BlockCount = 2
  Null = Null
  None = None
INVARIANTS CountsAddUp
PROPERTIES CallsAreAtomic AllJoin
CHECK_DEADLOCK FALSE
