\* Every program, with three worker threads and loops of four rounds.
SPECIFICATION FairSpec
CONSTANTS
  MaxPool = 3
  MaxPosts = 4
INVARIANTS SerialPrints OrderKept AllWorkDone PoolSurvives
PROPERTIES Exits
CHECK_DEADLOCK FALSE
