SPECIFICATION FairSpec
CONSTANTS
  N = 3
  Size = 9
  W = 4
  Truncate = TRUE
INVARIANTS
  TypeOK
  ServerAsserts
  NoExcess
  NoErrors
PROPERTIES
  BlocksInOrder
  BlocksForEver
CHECK_DEADLOCK FALSE
