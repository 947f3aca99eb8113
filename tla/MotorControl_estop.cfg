CONSTANTS
  PowerCallers = {"server"}
  PosCallers = {}
  VelCallers = {}
  MaxEvents = 0
SPECIFICATION Spec
INVARIANT SendsInMode
CHECK_DEADLOCK FALSE
