---------------------------- MODULE JointReports ----------------------------
(***************************************************************************)
(* The positions of joints, from the simulator's status messages           *)
(* (simulator_interface.cpp) through getJointPos and getMotorPositionsRad  *)
(* to the reports of telemReportTask. A position is told by the number of  *)
(* the message that brought it, which is also its time; what a report of   *)
(* the end effector is computed from is the pair of its motors' positions. *)
(***************************************************************************)
EXTENDS Integers, Sequences, FiniteSets

CONSTANTS Joints,      \* the joints reported, among those of name_to_jointid
          MaxMessages  \* bound on the status messages

JointMotors == {"armBase", "shoulder", "elbow", "forearm", "wrist", "hand", "activeSuspension"}
IKMotors == <<"shoulder", "elbow">>
\* getJointPos: the motors that are read for a joint, in order.
MotorsFor(joint) ==
  IF joint \in JointMotors THEN <<joint>>
  ELSE IF joint \in {"ikForward", "ikUp"} THEN IKMotors ELSE <<>>
Motors == UNION {{MotorsFor(j)[i] : i \in DOMAIN MotorsFor(j)} : j \in Joints}
NoPos == 0

VARIABLES messages,     \* status messages so far
          motorPosMap,  \* the position of each motor, or NoPos
          latest,       \* history: the last message about each motor, if it had a position
          left,         \* the joints that the pass has still to report
          joint,        \* the joint being read, or {}
          read,         \* the positions read for it
          timestamp,    \* the time of what was read
          reported,     \* the positions, and the time, last reported of each joint
          atStart       \* history: latest, when the pass began
task == <<left, joint, read, timestamp, reported, atStart>>
vars == <<messages, motorPosMap, latest, task>>

Init ==
  /\ messages = 0 /\ motorPosMap = [m \in Motors |-> NoPos]
  /\ left = {} /\ joint = {} /\ read = <<>> /\ timestamp = NoPos
  /\ reported = [j \in Joints |-> [positions |-> <<>>, time |-> NoPos]]
  /\ latest = motorPosMap /\ atStart = latest

\* A status without a position forgets the one there was.
\* Mistake: a position that is there stays.
HandleMotorStatus_Insert(m, valid) ==
  /\ messages < MaxMessages /\ messages' = messages + 1
  /\ motorPosMap' = [motorPosMap EXCEPT ![m] = IF @ # NoPos THEN @
                                               ELSE IF valid THEN messages' ELSE NoPos]
  /\ latest' = [latest EXCEPT ![m] = IF valid THEN messages' ELSE NoPos]
  /\ UNCHANGED task
HandleMotorStatus(m, valid) ==
  /\ messages < MaxMessages /\ messages' = messages + 1
  /\ motorPosMap' = [motorPosMap EXCEPT ![m] = IF valid THEN messages' ELSE NoPos]
  /\ latest' = motorPosMap'
  /\ UNCHANGED task

(***************************************************************************)
(* telemReportTask.                                                        *)
(***************************************************************************)
BeginPass ==
  /\ left = {} /\ joint = {} /\ left' = Joints /\ atStart' = latest
  /\ UNCHANGED <<messages, motorPosMap, latest, joint, read, timestamp, reported>>
BeginJoint(j) ==
  /\ joint = {} /\ j \in left /\ left' = left \ {j} /\ joint' = {j}
  /\ read' = <<>> /\ timestamp' = NoPos
  /\ UNCHANGED <<messages, motorPosMap, latest, reported, atStart>>

\* One motor is read, under the map's lock; the time is the oldest one.
\* Mistake: the time is that of the motor read last.
Oldest_Last(time, other) == other
Oldest(time, other) == IF time = NoPos \/ time > other THEN other ELSE time
GetMotorPos(m) == motorPosMap[m]
ReadMotor(j) ==
  /\ joint = {j} /\ Len(read) < Len(MotorsFor(j))
  /\ LET pos == GetMotorPos(MotorsFor(j)[Len(read) + 1])
     IN IF pos # NoPos
        THEN /\ read' = Append(read, pos) /\ timestamp' = Oldest(timestamp, pos)
             /\ UNCHANGED joint
        ELSE joint' = {} /\ UNCHANGED <<read, timestamp>>
  /\ UNCHANGED <<messages, motorPosMap, latest, left, reported, atStart>>
\* A joint that has no motors is not supported, and not reported.
SendJointPositionReport(j) ==
  /\ joint = {j} /\ Len(read) = Len(MotorsFor(j)) /\ joint' = {}
  /\ reported' = IF read = <<>> THEN reported
                 ELSE [reported EXCEPT ![j] = [positions |-> read, time |-> timestamp]]
  /\ UNCHANGED <<messages, motorPosMap, latest, left, read, timestamp, atStart>>

Next ==
  \/ (\E m \in Motors, valid \in BOOLEAN : HandleMotorStatus(m, valid))
  \/ BeginPass
  \/ \E j \in Joints : BeginJoint(j) \/ ReadMotor(j) \/ SendJointPositionReport(j)
Spec == Init /\ [][Next]_vars

(***************************************************************************)
(* Properties.                                                             *)
(***************************************************************************)
Positions(j) == {reported[j].positions[i] : i \in DOMAIN reported[j].positions}
\* "The timestamp of this data point is the oldest timestamp of the requested motors"
\* (world_interface.h:291), although messages come in between the motors.
TimeIsOldest ==
  \A j \in Joints : reported[j].time # NoPos =>
    reported[j].time \in Positions(j) /\ \A p \in Positions(j) : p >= reported[j].time

\* A joint's report is of positions that messages brought during the pass or were the last
\* when it began, never of older ones, or the joint is not reported; so reports never go back in time.
Current(j) == \A i \in DOMAIN MotorsFor(j) :
  /\ reported'[j].positions[i] >= atStart[MotorsFor(j)[i]]
  /\ reported[j].time # NoPos => reported'[j].positions[i] >= reported[j].positions[i]
ReportsAreCurrent == [][\A j \in Joints : reported'[j] # reported[j] => Current(j)]_vars
=============================================================================
