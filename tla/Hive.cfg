\* Threads that run, poll, stop and reset the Hive; handlers may call Stop.
SPECIFICATION FairSpec
CONSTANTS
  t1 = t1
  t2 = t2
  t3 = t3
  Threads = {t1, t2, t3}
  MaxWork = 3
  MaxResets = 2
  MaxLate = 2
INVARIANTS StopAlone RunBlocks FlagAgrees
PROPERTIES StopFinishesWork StopReturnsOutside RunsReturn
CHECK_DEADLOCK FALSE
