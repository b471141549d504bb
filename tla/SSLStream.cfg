SPECIFICATION FairSpec
CONSTANTS
  N = 5
  Size = 15
  RecordWords = 2
  Truncate = TRUE
INVARIANTS
  TypeOK
  NoBadRecord
  NothingStuck
PROPERTIES
  BlocksInOrder
  Delivers
CHECK_DEADLOCK FALSE
