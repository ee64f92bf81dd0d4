\* Stop is called by a handler.
SPECIFICATION FairSpec
CONSTANTS
  t1 = t1
  t2 = t2
  t3 = t3
  Threads = {t1, t2}
  MaxWork = 1
  MaxResets = 0
  MaxLate = 1
PROPERTIES StopReturns
CHECK_DEADLOCK FALSE
