SPECIFICATION Spec
CONSTANTS
  w1 = w1
  w2 = w2
  t1 = t1
  t2 = t2
  t3 = t3
  t4 = t4
  s1 = s1
  s2 = s2
  s3 = s3
  main = main
  listener = listener
  none = none
  Workers = {w1, w2}
  Main = main
  Transports = {t1, t2, t3, t4}
  Sockets = {s1, s2, s3}
  Listener = listener
  None = none
  MaxResets = 1
  RequestSize = 1
  MaxConnections = 3
  MaxCuts = 0
  FailAccepts = TRUE
SYMMETRY Symmetry
INVARIANTS
  SingleAcceptEx
  NoneForgotten
  ListensUntilFailure
  TableSound
  ReceivingIsRegistered
CHECK_DEADLOCK FALSE
