CONSTANTS
  Vels = {"forward"}
  Powers = {"up"}
  Joints = {}
  IKJoints = {}
  HeartbeatMayFail = TRUE
SPECIFICATION Spec
INVARIANT NoDeadlock
CHECK_DEADLOCK FALSE
