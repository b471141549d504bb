SPECIFICATION Spec
CONSTANTS
  w1 = w1
  w2 = w2
  t1 = t1
  t2 = t2
  t3 = t3
  s1 = s1
  s2 = s2
  s3 = s3
  main = main
  listener = listener
  none = none
  Workers = {w1, w2}
  Main = main
  Transports = {t1, t2, t3}
  Sockets = {s1, s2, s3}
  Listener = listener
  None = none
  MaxResets = 0
  RequestSize = 2
  MaxConnections = 2
  MaxCuts = 1
  FailAccepts = FALSE
SYMMETRY Symmetry
INVARIANTS
  OneRequestAtATime
CHECK_DEADLOCK FALSE
