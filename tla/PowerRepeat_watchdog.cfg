CONSTANTS
  Vels = {"forward"}
  Powers = {"up"}
  Joints = {"elbow", "hand"}
  IKJoints = {"elbow"}
  HeartbeatMayFail = TRUE
SPECIFICATION Spec
INVARIANTS TypeOK RepeaterObeysFlag RepeaterSilentInAutonomous JointsAsRequested
CHECK_DEADLOCK FALSE
