SPECIFICATION Spec
CONSTANTS
  w1 = w1
  w2 = w2
  t1 = t1
  t2 = t2
  s1 = s1
  s2 = s2
  main = main
  listener = listener
  none = none
  Workers = {w1, w2}
  Main = main
  Transports = {t1, t2}
  Sockets = {s1, s2}
  Listener = listener
  None = none
  MaxResets = 1
  RequestSize = 2
  MaxConnections = 1
  MaxCuts = 1
  FailAccepts = FALSE
SYMMETRY Symmetry
INVARIANTS
  WorkersStay
CHECK_DEADLOCK FALSE
