\* A leave between the check and the write of a handler's send.
SPECIFICATION Spec
CONSTANTS
  Web = {w1, w2}
  Socket = {s1, s2}
  Nil = nil
  Managers = 1
INVARIANTS
  StaysUp
CHECK_DEADLOCK FALSE
