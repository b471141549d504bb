CONSTANTS
  Workers = {w1, w2, w3}
  MaxIO = 3
  Throws = TRUE
SPECIFICATION FairSpec
CHECK_DEADLOCK FALSE
INVARIANTS
  TypeOK
  PoolGoneFirst
  QuietIsClean
PROPERTY
  Ends
