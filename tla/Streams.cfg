\* Every pair of programs; messages of three bytes, reads of four, and a
\* network that holds four bytes of each direction.
SPECIFICATION FairSpec
CONSTANTS
  Size = 3
  Want = 4
  Window = 4
INVARIANTS TypeOK Intact WholeAnswer
PROPERTIES Finishes
CHECK_DEADLOCK FALSE
