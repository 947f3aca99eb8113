CONSTANTS
  c1 = c1
  c2 = c2
  c3 = c3
  Conns = {c1, c2, c3}
  Endpoints <- MCEndpoints
  Serials = {3, 10}
  Answers <- MCAnswers
  Amplitude = 20
  MaxLost = 1
  MaxVel = 4
  MaxAccel = 2
  Dists = {0, 2, 8, 12, 16}
  Vels <- MCVels
  MaxPos = 16
  Frees <- MCFrees
  Goals <- MCGoals
  GoalRadius = 15
  Resolution = 20
  Diagonal = 28
  TurnCost = 11
  MaxIters = 30
  CloseToTargetDur = 2
  ArmVels = {0, 1}
  Arms = {0, 2}
  Radius = 2
  Period = 1
  ArmTime = 2
  Sticks <- MCSticks
  Unit = 20
  MaxWheelVel = 5
  MaxTurnVel = 5
  OdomBase = 3
  Millisecond = 2
  MaxReads = 3
  NumLandmarks = 1
  MaxNumPoses = 2
  MaxPoseID = 4
  MaxFactors = 6
  MaxTime = 6
  ThetaVels <- MCThetaVels
  Error = 20
  StdDev = 3
  NoiseGain = 1
  WheelBase = 2
  InitialVar = 100
  FilterSteps = 4
  GearPowers <- MCGearPowers
  BaseWidth = 2
  BaseLength = 4
  DriveVels <- MCDriveVels
  Slips <- MCSlips
  DriveSteps = 5
SPECIFICATION OdometrySpec
INVARIANT OdometryFollowsPath
CHECK_DEADLOCK FALSE
