\* Two requests, with one id or two, two threads that run handlers and two that cancel.
SPECIFICATION FairSpec
CONSTANTS
  s1 = s1
  s2 = s2
  k1 = k1
  k2 = k2
  None = None
  Sessions = {s1, s2}
  Ids = {1, 2}
  Callers = {k1, k2}
  PoolSize = 2
  MaxCancels = 2
INVARIANTS CancelHonoured Cancellable
PROPERTIES CancelTakesEffect CloseReturnsOrDeadlock
CHECK_DEADLOCK FALSE
