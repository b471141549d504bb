CONSTANTS
  Clients = {c1, c2}
  None = None
  N = 3
  Size = 6
  MaxLoss = 1
  MaxDup = 1
  MaxExits = 1
  Refuse = TRUE
  Throws = TRUE
SPECIFICATION FairSpec
CHECK_DEADLOCK FALSE
INVARIANTS
  TypeOK
  TakeTurns
  NeverStalls
PROPERTIES
  BlocksInOrder
  Connects
  BlocksForEver
