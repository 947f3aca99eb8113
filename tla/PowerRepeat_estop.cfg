CONSTANTS
  Vels = {"forward"}
  Powers = {"up"}
  Joints = {}
  IKJoints = {}
  HeartbeatMayFail = TRUE
SPECIFICATION Spec
INVARIANT WheelsStoppedInEstop
CHECK_DEADLOCK FALSE
