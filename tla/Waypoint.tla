------------------------------ MODULE Waypoint ------------------------------
(***************************************************************************)
(* commands/DriveToWaypointCommand.cpp and the loop it is written for:     *)
(* setState, getOutput, isDone in every iteration, while the robot moves.  *)
(* A pose is told apart by its distance from the target: "near" within     *)
(* doneThresh, "slow" within twice it, "far" beyond.                       *)
(***************************************************************************)
EXTENDS Integers

CONSTANTS CloseToTargetDur,  \* in ticks
          MaxTime            \* bound on the clock

Poses == {"near", "slow", "far"}
None == -1
VARIABLES now, at, phase,    \* the time, where the robot is, the next call of the loop
          pose, lastRecordedTime, closeToTargetStartTime,
          xVel, done,        \* the results of getOutput and isDone
          lastOutside        \* history: the last time recorded with a pose that is not near
vars == <<now, at, phase, pose, lastRecordedTime, closeToTargetStartTime, xVel, done, lastOutside>>

Init ==
  /\ now = 0 /\ at = "far" /\ phase = "setState"
  /\ pose = "far" /\ lastRecordedTime = None /\ closeToTargetStartTime = None
  /\ xVel = "none" /\ done = FALSE /\ lastOutside = None

\* The robot moves, driven or pushed, and time passes.
Move(p) ==
  /\ now < MaxTime /\ now' = now + 1 /\ at' = p
  /\ UNCHANGED <<phase, pose, lastRecordedTime, closeToTargetStartTime, xVel, done, lastOutside>>
SetState ==
  /\ phase = "setState" /\ phase' = "getOutput"
  /\ pose' = at /\ lastRecordedTime' = now
  /\ lastOutside' = IF at = "near" THEN lastOutside ELSE now
  /\ UNCHANGED <<now, at, closeToTargetStartTime, xVel, done>>
Speed(p) == IF p \in {"near", "slow"} THEN "slow" ELSE "drive"
GetOutput ==
  /\ phase = "getOutput" /\ phase' = "isDone"
  /\ xVel' = Speed(pose)
  /\ UNCHANGED <<now, at, pose, lastRecordedTime, closeToTargetStartTime, done, lastOutside>>
\* The time the robot came close, or None. Mistake: it is kept when the robot leaves.
CloseSince_Kept == IF pose = "near" /\ closeToTargetStartTime = None THEN lastRecordedTime
                   ELSE closeToTargetStartTime
CloseSince == IF pose # "near" THEN None
              ELSE IF closeToTargetStartTime = None THEN lastRecordedTime
              ELSE closeToTargetStartTime
IsDone ==
  /\ phase = "isDone" /\ phase' = "setState"
  /\ closeToTargetStartTime' = CloseSince
  /\ done' = (pose = "near" /\ lastRecordedTime - CloseSince >= CloseToTargetDur)
  /\ UNCHANGED <<now, at, pose, lastRecordedTime, xVel, lastOutside>>

Next == (\E p \in Poses : Move(p)) \/ SetState \/ GetOutput \/ IsDone
Spec == Init /\ [][Next]_vars

Stayed ==
  pose = "near" /\ xVel = "slow" /\ lastRecordedTime - lastOutside >= CloseToTargetDur
\* The robot is called done only after it was recorded close to the target, and nowhere
\* else, for closeToTargetDur; it had slowed down by then.
DoneAfterStay == [][IsDone /\ done' => Stayed]_vars
============================================================================
