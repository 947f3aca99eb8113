----------------------------- MODULE Kinematics -----------------------------
(***************************************************************************)
(* DiffWristKinematics and SwerveDriveKinematics: the gears that turn the  *)
(* wrist, and the four wheels of a swerve drive, each with its own         *)
(* velocity. Angles are in quarter turns, and lengths of the drive's base  *)
(* in what makes a turn by one of them exact.                              *)
(***************************************************************************)
EXTENDS Fractions

CONSTANTS Powers,              \* of the gears and of the joint
          BaseWidth, BaseLength,   \* even
          Vels, Slips,         \* velocities of the drive, and of a wheel that slips
          MaxSteps             \* bound on the steering, the slips and the updates

VARIABLES gear, joint,   \* powers of the wrist: left and right; pitch and roll
          wheels,        \* of the drive: left and right at the front, then at the back
          pose,          \* <<x, y, heading>>
          start, turns,  \* history: the pose when the drive was last steered or slipped, and
          steered,       \* the updates since; how it was steered, if no wheel has slipped
          steps
driveVars == <<wheels, pose, start, turns, steered, steps>>
vars == <<gear, joint, driveVars>>

(***************************************************************************)
(* The wrist.                                                              *)
(***************************************************************************)
GearToJoint(g) == <<Over(Plus(g[1], g[2]), Whole(2)), Over(Minus(g[2], g[1]), Whole(2))>>
JointToGear(j) == <<Minus(j[1], j[2]), Plus(j[1], j[2])>>
InfinityNorm(v) == IF Less(Norm(v[1]), Norm(v[2])) THEN Norm(v[2]) ELSE Norm(v[1])
\* Mistake: each component is cut off on its own.
Scaled_Each(v) ==
  [k \in 1..2 |-> IF Less(One, Norm(v[k])) THEN Over(v[k], Norm(v[k])) ELSE v[k]]
Scaled(v) ==
  IF Less(One, InfinityNorm(v)) THEN [k \in 1..2 |-> Over(v[k], InfinityNorm(v))] ELSE v
GearPowerToJointPower(g) == Scaled(GearToJoint(g))
JointPowerToGearPower(j) == Scaled(JointToGear(j))

(***************************************************************************)
(* The drive. A wheel's speed and angle are the vector of its velocity.    *)
(***************************************************************************)
WheelsAt == << <<1, 1>>, <<1, -1>>, <<-1, 1>>, <<-1, -1>> >>
X(k) == (WheelsAt[k][1] * BaseLength) \div 2
Y(k) == (WheelsAt[k][2] * BaseWidth) \div 2
\* The rows of the matrix that belong to one wheel.
IKMatrix(k) == << <<1, 0, -Y(k)>>, <<0, 1, X(k)>> >>
Dot(a, b) == a[1] * b[1] + a[2] * b[2] + a[3] * b[3]
RobotVelToWheelVel(vel) == [k \in 1..4 |-> [c \in 1..2 |-> Dot(IKMatrix(k)[c], vel)]]
OverWheels(s) == s[1] + s[2] + s[3] + s[4]
\* The least squares solution; the columns of the matrix are orthogonal.
WheelVelToRobotVel(w) ==
  LET m == [k \in 1..4 |-> IKMatrix(k)]
      Component(col) ==
        LET product == [k \in 1..4 |-> m[k][1][col] * w[k][1] + m[k][2][col] * w[k][2]]
            square == [k \in 1..4 |-> m[k][1][col] * m[k][1][col] + m[k][2][col] * m[k][2][col]]
        IN Frac(OverWheels(product), OverWheels(square))
  IN <<Component(1), Component(2), Component(3)>>
Cos(q) == (<<1, 0, -1, 0>>)[(q % 4) + 1]
Sin(q) == Cos(q + 3)
\* Mistake: the rover's velocity is taken for one over the ground.
GetPoseUpdate_Local(w, heading) == WheelVelToRobotVel(w)
GetPoseUpdate(w, heading) ==
  LET v == WheelVelToRobotVel(w)
      c == Whole(Cos(heading))
      s == Whole(Sin(heading))
  IN <<Minus(Times(c, v[1]), Times(s, v[2])), Plus(Times(s, v[1]), Times(c, v[2])), v[3]>>
GetNextPose(w, p) ==
  LET u == GetPoseUpdate(w, p[3][1]) IN [k \in 1..3 |-> Plus(p[k], u[k])]

Init ==
  /\ gear \in Powers \X Powers /\ joint = GearPowerToJointPower(gear)
  /\ wheels = RobotVelToWheelVel(<<0, 0, 0>>) /\ pose = <<Zero, Zero, Zero>>
  /\ start = pose /\ turns = 0 /\ steered = <<0, 0, 0>> /\ steps = 0
SetJoint(j) == joint' = j /\ gear' = JointPowerToGearPower(j)
Step == steps < MaxSteps /\ steps' = steps + 1
Steer(vel) ==
  /\ Step /\ wheels' = RobotVelToWheelVel(vel) /\ steered' = vel /\ start' = pose /\ turns' = 0
  /\ UNCHANGED pose
Slip(k, v) ==
  /\ Step /\ wheels' = [wheels EXCEPT ![k] = v] /\ steered' = <<>> /\ start' = pose /\ turns' = 0
  /\ UNCHANGED pose
\* After dt = 1. Only whole quarter turns are followed.
Advance ==
  /\ Step /\ WheelVelToRobotVel(wheels)[3][2] = 1
  /\ pose' = GetNextPose(wheels, pose) /\ turns' = turns + 1
  /\ UNCHANGED <<wheels, start, steered>>

WristNext == \E j \in Powers \X Powers : SetJoint(j)
DriveNext ==
  \/ \E v \in Vels : Steer(v)
  \/ \E k \in 1..4, v \in Slips : Slip(k, v)
  \/ Advance
Next ==
  \/ WristNext /\ UNCHANGED driveVars
  \/ DriveNext /\ UNCHANGED <<gear, joint>>
Spec == Init /\ [][Next]_vars

(***************************************************************************)
(* Properties.                                                             *)
(***************************************************************************)
\* The wrist's gears never get more than full power, and the joint gets the direction that was
\* asked of it: pitch and roll keep their ratio and their signs.
WristKeepsRatio ==
  LET back == GearToJoint(gear)
  IN /\ ~ Less(One, InfinityNorm(joint))
     /\ ~ Less(One, InfinityNorm(gear))
     /\ Times(back[1], joint[2]) = Times(back[2], joint[1])
     /\ \A k \in 1..2 : ~ Less(Times(back[k], joint[k]), Zero)

\* The velocity that is computed from the wheels is the one that explains them best, and
\* the one that they were steered by when none has slipped.
BestVelocity ==
  LET v == WheelVelToRobotVel(wheels)
      \* Over what the velocities that are compared have in common.
      n == v[1][2] * v[2][2] * v[3][2]
      SquaredError(u) ==
        LET w == RobotVelToWheelVel(u)
            off == [k \in 1..4 |-> (n * wheels[k][1] - w[k][1]) * (n * wheels[k][1] - w[k][1])
                                    + (n * wheels[k][2] - w[k][2]) * (n * wheels[k][2] - w[k][2])]
        IN OverWheels(off)
      scaled == [k \in 1..3 |-> (n \div v[k][2]) * v[k][1]]
  IN /\ steered # <<>> => \A k \in 1..3 : v[k] = Whole(steered[k])
     /\ turns = 0 =>
          \A dx, dy, dt \in {-1, 0, 1} :
            SquaredError(scaled)
              <= SquaredError(<<scaled[1] + dx, scaled[2] + dy, scaled[3] + dt>>)

\* With one velocity the rover drives a polygon: after four equal turns that are no whole ones
\* it is where it began, and after two quarter turns as far ahead as it has moved.
PolygonCloses ==
  LET v == WheelVelToRobotVel(wheels)
      by == [k \in 1..2 |-> Minus(pose[k], start[k])]
      h == start[3][1]
      ahead == <<Plus(Times(Whole(Cos(h)), by[1]), Times(Whole(Sin(h)), by[2])),
                 Minus(Times(Whole(Cos(h)), by[2]), Times(Whole(Sin(h)), by[1]))>>
  IN /\ v[3][1] % 4 # 0 /\ turns = 4 => by = <<Zero, Zero>>
     /\ v[3] = One /\ turns = 2 => ahead = <<Minus(v[1], v[2]), Plus(v[1], v[2])>>
     /\ v[3] = Zero => ahead = <<Times(Whole(turns), v[1]), Times(Whole(turns), v[2])>>
=============================================================================
