------------------------------ MODULE MCMission ------------------------------
(***************************************************************************)
(* Module Mission with the models that have recursive operators, folds or  *)
(* liveness beside it, and the constants of all of them.                   *)
(***************************************************************************)
EXTENDS Mission

VARIABLES tree, answer,                                       \* QuadTree
          sFactors, sCounter, x0, sol, alpha, solved,         \* GraphSolver
          reference, sample, N, points, iteration, mse, oldMSE, trf, mStep    \* PointMatching

mapVars == <<tree, answer>>
solverVars == <<sFactors, sCounter, x0, sol, alpha, solved>>
matchVars == <<reference, sample, N, points, iteration, mse, oldMSE, trf, mStep>>
allVars == <<missionVars, mapVars, solverVars, matchVars>>

\* Constants of Mission.
MCEndpoints == <<"/mission-control", "/mission-control", "/ardupilot">>
MCAnswers == {0, 40000, -20}
MCVels == {0, -2, 3}
MCSticks == {<<20, 15>>, <<20, 0>>, <<12, 4>>, <<0, 0>>, <<0, -20>>, <<-20, -15>>}
MCFrees == {S \cup {<<0, 0>>} : S \in SUBSET ({0, 1} \X {-1, 0, 1})}
MCGoals == {<<20, 20>>, <<30, -30>>}
MCGearPowers == {<<-1, 1>>, <<0, 1>>, <<1, 2>>, <<1, 1>>}
MCDriveVels == {<<2, -1, 0>>, <<1, 0, 1>>, <<0, -2, 1>>}
MCSlips == {<<3, -2>>}
MCThetaVels == {120, -60}

Map == INSTANCE QuadTree WITH
  MapWidth <- 32, NodeCapacity <- 1, MaxDepth <- 2, MaxPoints <- 3, Asserts <- TRUE,
  Points <- {<<0, 0>>, <<-16, 8>>, <<17, 0>>},
  Queries <- {<<-6, 9>>, <<8, -8>>}, Reaches <- {0, 10},
  Scans <- {<< <<8, 8>>, <<9, 0>>, <<>> >>, << <<9, -5>>, <<>>, <<0, 0>> >>},
  Shifts <- {<<0, 0>>, <<8, 0>>}, ScanStride <- 2
Solver == INSTANCE GraphSolver WITH
  factors <- sFactors, factorCounter <- sCounter, Measured <- {0, 3}, Weights <- {1, 4},
  Alphas <- {<<1, 1>>, <<1, 2>>}, Guesses <- {<<-1, 2>>}, MaxIters <- 4, Tol <- <<1, 100>>,
  Quarters <- 0..3, MaxFactors <- 3
Match == INSTANCE PointMatching WITH
  i <- iteration, step <- mStep, Maps <- {{0, 5}, {-4, 0, 3}},
  Samples <- {<<>>, <<1, 6, 2>>, <<-7, 1, 2, 9>>, <<3, 0, -5, 8, 4>>},
  MaxIter <- 4, RelErrChangeThresh <- <<1, 100>>, InitialMSE <- <<1000, 1>>

AllInit ==
  /\ which \in {"server", "process", "requests", "tools", "map", "plan", "motion", "waypoint",
               "arm", "odometry", "graph", "solver", "filter", "match", "wrist", "drive"}
  /\ MissionInit /\ (which # "tools" => program = "TunePID")
  /\ (which # "filter" => est = "full") /\ (which # "wrist" => gear = << <<0, 1>>, <<0, 1>> >>)
  /\ Map!Init /\ Solver!Init
  /\ Match!Init /\ (which # "match" => sample = <<>> /\ 5 \in reference)
AllNext ==
  /\ MissionNext
  /\ IF which = "map" THEN Map!Next ELSE UNCHANGED mapVars
  /\ IF which = "solver" THEN Solver!Next ELSE UNCHANGED solverVars
  /\ IF which = "match" THEN Match!Next ELSE UNCHANGED matchVars
AllSpec ==
  /\ AllInit /\ [][AllNext]_allVars
  /\ WF_processVars(which = "process" /\ Process!Closing)
  /\ WF_processVars(which = "process" /\ Process!Return)
  /\ \A c \in 1..3 :
       /\ WF_processVars(which = "process" /\ Process!OnOpen(c))
       /\ WF_processVars(which = "process" /\ connOf[c] = "closing" /\ Process!OnClose(c))
  /\ WF_planVars(which = "plan" /\ Plan!Next)
  /\ WF_armVars(which = "arm" /\ Arm!Tick)
  /\ WF_armVars(which = "arm" /\ Arm!Task)
  /\ WF_armVars(which = "arm" /\ Arm!Serve)
\* A drive, and a turn on the spot, alone.
OdometrySpec == which = "odometry" /\ AllInit /\ [][AllNext]_allVars
FilterSpec == which = "filter" /\ AllInit /\ [][AllNext]_allVars

\* QuadTree.cpp, GlobalMap.cpp: the tree's counts are exact, and it answers as a bag of
\* points would.
TreeStoresPoints ==
  [][which = "map" => Map!SizesCount']_mapVars /\ Map!ImplementsPointStore
\* Rover.cpp, plan.cpp, MissionControlProtocol.cpp: closing the rover ends, unless stop()
\* missed a connection; a call of getPlan returns, and so does a request to switch the arm's
\* IK on or off, which joins the thread that commands the joints.
CallsReturn ==
  /\ which = "process" => Process!ShutdownEnds
  /\ which = "plan" => Plan!GetPlanReturns
  /\ which = "arm" => Arm!RequestsReturn
\* graph.cpp, TrICP.cpp: what is solved for the factors is a least error; a scan is matched by
\* its best points.
NumericsAgree ==
  /\ which = "solver" => Solver!SolutionIsLeast /\ Solver!JacobiansAreExact
  /\ which = "match" => Match!LeastAreKept /\ Match!MatchImproves
\* "Calculates the current transform in the frame of the starting pose based purely on forward
\* kinematics" (world_interface.h:186): readOdom has the rover where getNextPose leads it.
OdometryFollowsPath == which = "odometry" => Odom!OdomFollowsPath
\* "... modelling independent noise with the given standard deviations" (StateSpaceUtil.h:321):
\* FullPoseEstimator weighs measurements by the squares of their standard deviations.
FullEstimatorWeighs == which = "filter" => Filter!WeightsAddUp("full")
=============================================================================
