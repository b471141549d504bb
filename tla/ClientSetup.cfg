SPECIFICATION FairSpec
CONSTANTS
  w1 = w1
  w2 = w2
  s1 = s1
  s2 = s2
  main = main
  listener = listener
  none = none
  Workers = {w1, w2}
  Main = main
  Setter = w1
  Transports = {1, 2}
  TCPConnections = 1
  SSLConnections = 1
  Sockets = {s1, s2}
  Listener = listener
  None = none
  MaxResets = 1
  AnswerSize = 3
  MaxCuts = 2
INVARIANTS
  TypeOK
  HandedOver
  AnswerAccounted
  KnownToMap
PROPERTIES
  KeepsAsking
CHECK_DEADLOCK FALSE
