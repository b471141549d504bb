SPECIFICATION FairSpec
CONSTANTS
  w1 = w1
  w2 = w2
  s1 = s1
  s2 = s2
  s3 = s3
  main = main
  listener = listener
  none = none
  Workers = {w1, w2}
  Main = main
  Transports = {1, 2, 3}
  Sockets = {s1, s2, s3}
  Listener = listener
  None = none
  MaxResets = 1
  RequestSize = 2
  MaxConnections = 2
  MaxCuts = 2
  FailAccepts = TRUE
CONSTRAINT Canonical
PROPERTIES
  RequestAnswered
  ListensAgain
CHECK_DEADLOCK FALSE
