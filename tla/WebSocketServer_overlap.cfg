CONSTANTS
  c1 = c1
  c2 = c2
  Conns = {c1, c2}
SPECIFICATION Spec
INVARIANT SingleClient
CHECK_DEADLOCK FALSE
