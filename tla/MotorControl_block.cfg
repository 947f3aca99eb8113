CONSTANTS
  PowerCallers = {}
  PosCallers = {}
  VelCallers = {"server"}
  MaxEvents = 1
SPECIFICATION Spec
INVARIANT EventDoesNotBlock
CHECK_DEADLOCK FALSE
