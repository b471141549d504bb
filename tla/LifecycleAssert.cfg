CONSTANTS
  Workers = {w1, w2}
  MaxIO = 1
  Throws = FALSE
SPECIFICATION Spec
CHECK_DEADLOCK FALSE
INVARIANT
  SomeoneToQuit
