CONSTANTS
  Vels = {0, 1}
  Arms = {0, 2}
  Radius = 8
  Period = 1
  MaxTime = 3
SPECIFICATION Spec
PROPERTY FollowsVelocity
CHECK_DEADLOCK FALSE
