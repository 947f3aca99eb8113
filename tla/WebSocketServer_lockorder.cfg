CONSTANTS
  c1 = c1
  Conns = {c1}
SPECIFICATION Spec
INVARIANT NoDeadlock
CHECK_DEADLOCK FALSE
