\* One request is cancelled twice.
SPECIFICATION NetworkSpec
CONSTANTS
  s1 = s1
  s2 = s2
  k1 = k1
  k2 = k2
  None = None
  Sessions = {s1}
  Ids = {1}
  Callers = {k1}
  PoolSize = 1
  MaxCancels = 2
PROPERTIES CloseReturns
CHECK_DEADLOCK FALSE
