------------------------------- MODULE Mission -------------------------------
(***************************************************************************)
(* The websocket server, with the models of the process it runs in, of the *)
(* requests that reach it, of the tools, of the planner, of motion along a *)
(* line, of the drive to a waypoint, of the arm's set point, of odometry,  *)
(* of the wrist and the swerve drive, of the pose filters and of the pose  *)
(* graph side by side: a behaviour is one of the component it chose in its *)
(* first state, and the others stand still, so that the states add up and  *)
(* do not multiply.                                                        *)
(***************************************************************************)
EXTENDS WebSocketServer, Sequences

CONSTANTS Endpoints,                                          \* RoverProcess
          Serials, Answers, Amplitude, MaxLost,               \* BoardTools
          MaxVel, MaxAccel, Dists, Vels, MaxPos,              \* MotionControllers
          Frees, Goals, GoalRadius, Resolution, Diagonal, TurnCost, MaxIters,   \* Planner
          CloseToTargetDur,                                   \* Waypoint
          ArmVels, Arms, Radius, Period, ArmTime,             \* ArmSetpoint
          Sticks, Unit, MaxWheelVel, MaxTurnVel, OdomBase, Millisecond, MaxReads,   \* Odometry
          NumLandmarks, MaxNumPoses, MaxPoseID, MaxFactors,   \* PoseGraph
          ThetaVels, Error, StdDev, NoiseGain, WheelBase, InitialVar, FilterSteps,
                                                              \* PoseEstimation
          GearPowers, BaseWidth, BaseLength, DriveVels, Slips, DriveSteps,   \* Kinematics
          MaxTime                                             \* of every other clock

VARIABLES which,                                              \* the component that runs
          main, status, listening, server, protocols, clientOf, connOf, todo, late,
          motors, commanded, planviz,                         \* RoverProcess
          registered, handlerMap, validatorMap, handed, thrown,    \* Requests
          program, step, test, begun, serial, asked, mode, velEvent, calls, board,
          lost,                                               \* BoardTools
          mNow, pos, profile, velState, base,                 \* MotionControllers
          free, goal, fringe, node, counter, result, last, row, plan,    \* Planner
          wNow, at, phase, pose, lastRecordedTime,            \* Waypoint
          closeToTargetStartTime, xVel, done, lastOutside,
          aNow, armIKEnabled, setpoint, velocity, velTimestamp, handler, thread, time,
          newPos, nextUpdate, command, origin, path,          \* ArmSetpoint
          oNow, stop, lastOdom, commandedWheelVel, power, reads, driven,   \* Odometry
          minPoseID, maxPoseID, currentGuess, solCov,         \* PoseGraph
          factors, factorCounter, landmarkFactorIDs,
          est, xHat, eCov, truth, eBase, corrections, eSteps,    \* PoseEstimation
          gear, joint, wheels, kPose, start, turns, steered, kSteps          \* Kinematics

processVars == <<main, status, listening, server, protocols, clientOf, connOf, todo, late,
                 motors, commanded, planviz>>
requestVars == <<registered, handlerMap, validatorMap, handed, thrown>>
toolVars == <<program, step, test, begun, serial, asked, mode, velEvent, calls, board, lost>>
motionVars == <<mNow, pos, profile, velState, base>>
planVars == <<free, goal, fringe, node, counter, result, last, row, plan>>
armVars == <<aNow, armIKEnabled, setpoint, velocity, velTimestamp, handler, thread, time,
             newPos, nextUpdate, command, origin, path>>
waypointVars == <<wNow, at, phase, pose, lastRecordedTime, closeToTargetStartTime, xVel,
                  done, lastOutside>>
odomVars == <<oNow, stop, lastOdom, commandedWheelVel, power, reads, driven>>
graphVars == <<minPoseID, maxPoseID, currentGuess, solCov, factors, factorCounter,
               landmarkFactorIDs>>
filterVars == <<est, xHat, eCov, truth, eBase, corrections, eSteps>>
wristVars == <<gear, joint>>
driveVars == <<wheels, kPose, start, turns, steered, kSteps>>
missionVars == <<which, vars, processVars, requestVars, toolVars, motionVars, planVars,
                 waypointVars, armVars, odomVars, graphVars, filterVars, wristVars, driveVars>>

Process == INSTANCE RoverProcess WITH client <- clientOf, conn <- connOf
Types == {"float", "unsigned", "integer", "absent", "string", "boolean", "other"}
\* Only a number and a string can be out of their range.
Values == {v \in [type : Types, ok : BOOLEAN] :
             v.ok \/ v.type \in {"float", "unsigned", "integer", "string"}}
Req == INSTANCE Requests
Tools == INSTANCE BoardTools
Motion == INSTANCE MotionControllers WITH now <- mNow
Plan == INSTANCE Planner WITH status <- result
Arm == INSTANCE ArmSetpoint WITH
  now <- aNow, server <- handler, Vels <- ArmVels, MaxTime <- ArmTime
Drive == INSTANCE Waypoint WITH now <- wNow
Odom == INSTANCE Odometry WITH now <- oNow, WheelBase <- OdomBase
Poses == INSTANCE PoseGraph
Filter == INSTANCE PoseEstimation WITH
  P <- eCov, base <- eBase, steps <- eSteps, MaxSteps <- FilterSteps
Kin == INSTANCE Kinematics WITH
  pose <- kPose, steps <- kSteps, Powers <- GearPowers, Vels <- DriveVels, MaxSteps <- DriveSteps

\* The ramps of a profile end at whole times, so that whole numbers are enough.
ASSUME RampsAssumption ==
  /\ MaxAccel \in Nat \ {0} /\ MaxVel \in Nat \ {0}
  /\ MaxAccel % 2 = 0 /\ MaxVel % MaxAccel = 0
  /\ Dists \subseteq Nat /\ Vels \subseteq Int
  /\ \A d \in Dists :
       IF d > 2 * Motion!RampUpDist THEN (d - 2 * Motion!RampUpDist) % MaxVel = 0
       ELSE \E r \in 0..Motion!RampUpTime : d = MaxAccel * r * r

\* The stick, speeds, a millisecond and the radii of the circles that are driven are whole.
ASSUME OdometryAssumption ==
  /\ Sticks \subseteq Int \X Int /\ Unit \in Nat \ {0}
  /\ MaxWheelVel \in Nat /\ MaxTurnVel \in Nat /\ Millisecond \in Nat \ {0}
  /\ OdomBase \in Nat \ {0}
  /\ \A stick \in Sticks :
       LET vel == Odom!WheelVel(stick)
       IN vel.l # vel.r =>
            Odom!TurnRadius(vel) * (vel.r - vel.l) = OdomBase * (vel.l + vel.r)

\* The cells are those of a grid, and costs of actions are lengths.
ASSUME GridAssumption ==
  /\ Frees \subseteq SUBSET (Int \X Int)
  /\ Resolution \in Nat /\ Diagonal \in Nat /\ TurnCost \in Nat
ASSUME ArmAssumption ==
  ArmVels \subseteq Int /\ Arms \subseteq Int /\ Radius \in Nat /\ ArmTime \in Int
ASSUME StayAssumption == CloseToTargetDur \in Int
\* The prior that holds the next pose takes that pose's covariance from the last solution:
\* with a window of one pose there is none.
ASSUME WindowAssumption == NumLandmarks \in Nat /\ MaxNumPoses \in Nat /\ MaxNumPoses >= 2
\* The tools' boards, and angles that are none of NoTarget.
ASSUME ToolsAssumption ==
  10 \in Serials /\ Answers \subseteq Int \ {Tools!NoTarget} /\ Amplitude \in Nat

\* Between two steps the rover turns by less than a half turn, and a measured heading is off
\* by less than a quarter turn.
ASSUME TurnsAssumption ==
  /\ ThetaVels \subseteq -179..179 /\ Error \in 0..89
  /\ StdDev \in Nat \ {0} /\ WheelBase \in Nat \ {0} /\ InitialVar \in Nat \ {0}
  /\ NoiseGain \in Int
\* Gears and joint are given full power at most, and the base has a middle.
ASSUME GearsAssumption ==
  /\ \A p \in GearPowers :
       p \in Int \X (Nat \ {0}) /\ p = Kin!Frac(p[1], p[2]) /\ Kin!Size(p[1]) <= p[2]
  /\ BaseWidth \in Nat \ {0} /\ BaseLength \in Nat \ {0}
  /\ BaseWidth % 2 = 0 /\ BaseLength % 2 = 0
  /\ DriveVels \subseteq Int \X Int \X Int /\ Slips \subseteq Int \X Int

\* The component is any: MCMission has further ones.
MissionInit ==
  /\ Init /\ Process!Init /\ Req!Init /\ Tools!Init /\ Motion!Init /\ Plan!Init
  /\ Drive!Init /\ Arm!Init /\ Odom!Init /\ Poses!Init /\ Filter!Init /\ Kin!Init
MissionNext ==
  /\ UNCHANGED which
  /\ IF which = "server" THEN Next ELSE UNCHANGED vars
  /\ IF which = "process" THEN Process!Next ELSE UNCHANGED processVars
  /\ IF which = "requests" THEN Req!Next ELSE UNCHANGED requestVars
  /\ IF which = "tools" THEN Tools!Next ELSE UNCHANGED toolVars
  /\ IF which = "motion" THEN Motion!Next ELSE UNCHANGED motionVars
  /\ IF which = "plan" THEN Plan!Next ELSE UNCHANGED planVars
  /\ IF which = "arm" THEN Arm!Next ELSE UNCHANGED armVars
  /\ IF which = "waypoint" THEN Drive!Next ELSE UNCHANGED waypointVars
  /\ IF which = "odometry" THEN Odom!Next ELSE UNCHANGED odomVars
  /\ IF which = "graph" THEN Poses!Next ELSE UNCHANGED graphVars
  /\ IF which = "filter" THEN Filter!Next ELSE UNCHANGED filterVars
  /\ IF which = "wrist" THEN Kin!WristNext ELSE UNCHANGED wristVars
  /\ IF which = "drive" THEN Kin!DriveNext ELSE UNCHANGED driveVars
MissionSpec == MissionInit /\ [][MissionNext]_missionVars

\* WebSocketProtocol.cpp, Rover.cpp: what passes validation is converted and meant, and
\* motors are only commanded once they are there.
RequestsAreMeant ==
  /\ which = "requests" => Req!ValidatedIsConverted /\ Req!HandedIsMeant
  /\ Process!CommandsFindMotors
\* FakeCANBoard.cpp, CANTest.cpp, TunePID.cpp: a tool leaves no motor running, and the
\* target that a board holds is the last one asked of it.
ToolsEndSafely == [][Tools!ToolsEndSafely']_toolVars /\ Tools!TargetIsHeld
\* plan.cpp: a plan leads to the goal over free cells at the cost the search had for it, and
\* without one no path of its steps does.
PlanOrNoPath == which = "plan" => Plan!PlanReachesGoal /\ Plan!FailsOnlyWithoutPath
\* TrapezoidalVelocityProfile.h, JacobianVelController.h, PlanarArmController.h,
\* kinematic_common_interface.cpp: the branches of a profile meet, a target follows its
\* velocity however often it is asked for, the arm's commands stay within its reach, the
\* odometry turns as the commanded velocities do and is where they lead as long as that is one
\* line or circle, and no wheel is given more than full power.
MotionFollowsCommands ==
  /\ which = "arm" => Arm!WithinReach
  /\ which = "motion" => Motion!ProfileIsSmooth /\ Motion!TargetFollowsVelocity
  /\ which = "odometry" => Odom!OdomFollowsWheels /\ Odom!PowersAreScaled
\* DiffWristKinematics.cpp, SwerveDriveKinematics.cpp, DiffDriveKinematics.cpp, filters/: no
\* gear is given more than full power and the joint goes the way that was asked, the velocity
\* of the drive explains its wheels best and leads over the polygon that it should, and the
\* estimated heading stays as close to the rover's as what was measured, with a variance, in
\* PoseEstimator, that the measurements leave.
EstimatesFollowRover ==
  /\ which = "wrist" => Kin!WristKeepsRatio
  /\ which = "drive" => Kin!BestVelocity /\ Kin!PolygonCloses
  /\ which = "filter" => Filter!HeadingFollowsRover /\ Filter!WeightsAddUp("single")
\* DriveToWaypointCommand.cpp: done only after a stay at the target.
DoneAfterStay == Drive!DoneAfterStay
\* friendly_graph.cpp, graph.cpp: factors, guess and landmarks keep to the window of poses.
GraphFollowsWindow ==
  which = "graph" => Poses!FactorsFollowPoses /\ Poses!TrajectoryInOrder /\ Poses!SightsAreReplaced
=============================================================================
