---------------------------- MODULE PowerRepeat ----------------------------
(***************************************************************************)
(* The control side of MissionControlProtocol: the emergency stop, the     *)
(* operation mode, drive and joint power requests, arm inverse kinematics, *)
(* and the thread that repeats the last commands to the motors.            *)
(*                                                                         *)
(* Four threads: "server" (the websocket thread, which runs the handlers), *)
(* "watchdog" (it runs handleHeartbeatTimedOut), the power repeater, whose *)
(* place in its loop is rep, and the arm IK thread, whose place is ik.     *)
(* A step ends where another thread can see a difference.                  *)
(***************************************************************************)
CONSTANTS Vels,             \* nonzero requests (dtheta, dx) for the wheels
          Powers,           \* nonzero joint powers
          Joints,           \* joints that have a motor
          IKJoints,         \* those that inverse kinematics moves
          HeartbeatMayFail  \* whether mission control can miss its pongs

ASSUME IKJointsAssumption == IKJoints \subseteq Joints
ASSUME HeartbeatAssumption == HeartbeatMayFail \in BOOLEAN

Controllers == {"server", "watchdog"}
None == "none"     \* an empty optional, map entry, mutex or std::thread
Zero == "zero"     \* no power, no velocity
IKTarget == "ik"   \* a joint that follows a position set by the IK thread
ASSUME ValuesAssumption == {None, Zero, IKTarget} \cap (Vels \cup Powers) = {}

Sides == {"left", "right"}
MutexNames == {"running", "thread", "power"}
Owners == Controllers \cup {"repeater", None}

VARIABLES E_STOP, AUTONOMOUS, armIKEnabled,
          connected,   \* a client is connected, so its watchdog runs
          running,     \* _joint_repeat_running
          mutex,       \* the owner of each mutex
          lastPower, lastVel,  \* _last_joint_power, _last_cmd_vel
          wheel, joint,        \* what each motor was last told to do
          pc, req,     \* where each controller is, and in which handler
          vel,         \* the server thread's argument of robot::setCmdVel
          rep, ik      \* the repeater and the arm IK thread

globals == <<E_STOP, AUTONOMOUS, armIKEnabled>>
stored == <<lastPower, lastVel>>
motors == <<wheel, joint>>
threads == <<pc, req, vel, rep, ik>>
vars == <<globals, connected, running, mutex, stored, motors, threads>>

Init ==
  /\ E_STOP = FALSE
  /\ AUTONOMOUS = FALSE
  /\ armIKEnabled = FALSE
  /\ connected = FALSE
  /\ running = FALSE
  /\ mutex = [m \in MutexNames |-> None]
  /\ lastPower = [j \in Joints |-> None]
  /\ lastVel = None
  /\ wheel = [s \in Sides |-> Zero]
  /\ joint = [j \in Joints |-> Zero]
  /\ pc = [t \in Controllers |-> "idle"]
  /\ req = [t \in Controllers |-> None]
  /\ vel = Zero
  /\ rep = None
  /\ ik = None

Free(m) == mutex[m] = None
Take(m, t) == mutex' = [mutex EXCEPT ![m] = t]
Release(m) == mutex' = [mutex EXCEPT ![m] = None]
Goto(t, label) == pc' = [pc EXCEPT ![t] = label]

\* std::terminate or an uncaught exception ends every thread at once.
Die(how) ==
  /\ pc' = [t \in Controllers |-> how]
  /\ rep' = how
  /\ ik' = how

\* The joints robot::setJointPower reaches: not the IK ones while IK drives them.
Reachable(j) == ~armIKEnabled \/ j \notin IKJoints

\* Mistake: the emergency stop is not consulted.
Refused_Never(v) == FALSE

\* robot::setCmdVel refuses a nonzero velocity while emergency stopped.
Refused(v) == E_STOP /\ v # Zero

(***************************************************************************)
(* Handlers of the server thread, up to their first lock.                  *)
(***************************************************************************)
Begin(t, what, label) ==
  /\ pc[t] = "idle"
  /\ req' = [req EXCEPT ![t] = what]
  /\ Goto(t, label)

\* Mistake: leaving the emergency stop starts the repeater in autonomous mode too.
EmergencyStopRequest_AnyMode(stop) ==
  /\ connected
  /\ IF stop THEN Begin("server", "stop", "stop.enter")
     ELSE Begin("server", "release", "start.running")
  /\ UNCHANGED <<globals, connected, running, mutex, stored, motors, vel, rep, ik>>

EmergencyStopRequest(stop) ==
  /\ connected
  /\ IF stop THEN Begin("server", "stop", "stop.enter")
     ELSE Begin("server", "release", IF AUTONOMOUS THEN "flag" ELSE "start.running")
  /\ UNCHANGED <<globals, connected, running, mutex, stored, motors, vel, rep, ik>>

OperationModeRequest(autonomous) ==
  /\ connected
  /\ AUTONOMOUS' = autonomous
  /\ IF autonomous THEN Begin("server", "autonomous", "stop.enter")
     ELSE Begin("server", "teleoperation", "start.running")
  /\ UNCHANGED <<E_STOP, armIKEnabled, connected, running, mutex, stored, motors,
                 vel, rep, ik>>

\* onOpen: the watchdog is armed, then the connection handler runs.
Connect ==
  /\ ~connected
  /\ connected' = TRUE
  /\ armIKEnabled' = FALSE
  /\ Begin("server", "connect", IF AUTONOMOUS THEN "idle" ELSE "start.running")
  /\ UNCHANGED <<E_STOP, AUTONOMOUS, running, mutex, stored, motors, vel, rep, ik>>

\* onClose joins the watchdog thread before it calls the disconnection handler.
Close ==
  /\ connected
  /\ Begin("server", "disconnect", "close.join")
  /\ UNCHANGED <<globals, connected, running, mutex, stored, motors, vel, rep, ik>>

Disconnect ==
  /\ pc["server"] = "close.join"
  /\ pc["watchdog"] = "idle"
  /\ connected' = FALSE
  /\ Goto("server", "stop.enter")
  /\ UNCHANGED <<globals, running, mutex, stored, motors, req, vel, rep, ik>>

\* Mistake: the velocity is sent and not stored.
DriveRequest_NotStored(v) ==
  /\ connected
  /\ vel' = v
  /\ Begin("server", "drive", "drive.check")
  /\ UNCHANGED <<globals, connected, running, mutex, stored, motors, rep, ik>>

\* setRequestedCmdVel stores the velocity under the lock and sends it after.
DriveRequest(v) ==
  /\ connected
  /\ Free("power")
  /\ lastVel' = v
  /\ vel' = v
  /\ Begin("server", "drive", "drive.check")
  /\ UNCHANGED <<globals, connected, running, mutex, lastPower, motors, rep, ik>>

\* setRequestedJointPower keeps the power mutex while it sets the motor.
JointPowerRequest(j, p) ==
  /\ connected
  /\ pc["server"] = "idle"
  /\ Free("power")
  /\ lastPower' = [lastPower EXCEPT ![j] = p]
  /\ joint' = IF Reachable(j) THEN [joint EXCEPT ![j] = p] ELSE joint
  /\ UNCHANGED <<globals, connected, running, mutex, lastVel, wheel, threads>>

SetArmIKEnabled(enabled) ==
  /\ connected
  /\ armIKEnabled' = FALSE
  /\ Begin("server", IF enabled THEN "ikOn" ELSE "ikOff", "ik.join")
  /\ UNCHANGED <<E_STOP, AUTONOMOUS, connected, running, mutex, stored, motors,
                 vel, rep, ik>>

HeartbeatTimedOut ==
  /\ HeartbeatMayFail
  /\ connected
  /\ Begin("watchdog", "timeout", "stop.enter")
  /\ UNCHANGED <<globals, connected, running, mutex, stored, motors, vel, rep, ik>>

(***************************************************************************)
(* startPowerRepeat                                                        *)
(***************************************************************************)
AfterStart(t) == IF req[t] = "release" THEN "flag" ELSE "idle"

StartLockRunning(t) ==
  /\ pc[t] = "start.running"
  /\ Free("running")
  /\ Take("running", t)
  /\ Goto(t, "start.thread")
  /\ UNCHANGED <<globals, connected, running, stored, motors, req, vel, rep, ik>>

\* Assigning to a std::thread that is still joinable calls std::terminate.
StartThread(t) ==
  /\ pc[t] = "start.thread"
  /\ Free("thread")
  /\ Release("running")
  /\ running' = TRUE
  /\ IF ~running /\ rep # None
     THEN Die("terminated")
     ELSE /\ rep' = IF running THEN rep ELSE "begin"
          /\ Goto(t, AfterStart(t))
          /\ UNCHANGED ik
  /\ UNCHANGED <<globals, connected, stored, motors, req, vel>>

(***************************************************************************)
(* stopAndShutdownPowerRepeat                                              *)
(***************************************************************************)
AfterStop(t) == IF req[t] \in {"stop", "timeout"} THEN "halt" ELSE "idle"

StopNotRunning(t) ==
  /\ pc[t] = "stop.enter"
  /\ Free("running")
  /\ ~running
  /\ armIKEnabled' = FALSE
  /\ Goto(t, AfterStop(t))
  /\ UNCHANGED <<E_STOP, AUTONOMOUS, connected, running, mutex, stored, motors,
                 req, vel, rep, ik>>

\* Mistake: the flag is tested before its mutex is locked, and the lock forgotten.
StopLockRunning_Unlocked(t) ==
  /\ pc[t] = "stop.enter"
  /\ running
  /\ Goto(t, "stop.clear")
  /\ UNCHANGED <<globals, connected, running, mutex, stored, motors, req, vel, rep, ik>>

StopLockRunning(t) ==
  /\ pc[t] = "stop.enter"
  /\ Free("running")
  /\ running
  /\ Take("running", t)
  /\ Goto(t, "stop.clear")
  /\ UNCHANGED <<globals, connected, running, stored, motors, req, vel, rep, ik>>

StopClear(t) ==
  /\ pc[t] = "stop.clear"
  /\ Free("power")
  /\ lastPower' = [j \in Joints |-> None]
  /\ lastVel' = None
  /\ Goto(t, "stop.joints")
  /\ UNCHANGED <<globals, connected, running, mutex, motors, req, vel, rep, ik>>

\* Mistake: clearing the map is taken to be enough to stop the joints.
StopJoints_MapOnly(t) ==
  /\ pc[t] = "stop.joints"
  /\ Goto(t, "stop.left")
  /\ UNCHANGED <<globals, connected, running, mutex, stored, motors, req, vel, rep, ik>>

StopJoints(t) ==
  /\ pc[t] = "stop.joints"
  /\ joint' = [j \in Joints |-> IF Reachable(j) THEN Zero ELSE joint[j]]
  /\ Goto(t, "stop.left")
  /\ UNCHANGED <<globals, connected, running, mutex, stored, wheel, req, vel, rep, ik>>

StopWheel(t, s) ==
  /\ pc[t] = IF s = "left" THEN "stop.left" ELSE "stop.right"
  /\ wheel' = [wheel EXCEPT ![s] = Zero]
  /\ Goto(t, IF s = "left" THEN "stop.right" ELSE "stop.signal")
  /\ UNCHANGED <<globals, connected, running, mutex, stored, joint, req, vel, rep, ik>>

\* Mistake: the running mutex is kept until the end of the function.
StopSignal_KeepsLock(t) ==
  /\ pc[t] = "stop.signal"
  /\ running' = FALSE
  /\ Goto(t, "stop.thread")
  /\ UNCHANGED <<globals, connected, mutex, stored, motors, req, vel, rep, ik>>

\* Mistake: the flag is left up.
StopSignal_FlagUp(t) ==
  /\ pc[t] = "stop.signal"
  /\ Release("running")
  /\ Goto(t, "stop.thread")
  /\ UNCHANGED <<globals, connected, running, stored, motors, req, vel, rep, ik>>

StopSignal(t) ==
  /\ pc[t] = "stop.signal"
  /\ running' = FALSE
  /\ Release("running")
  /\ Goto(t, "stop.thread")
  /\ UNCHANGED <<globals, connected, stored, motors, req, vel, rep, ik>>

StopLockThread(t) ==
  /\ pc[t] = "stop.thread"
  /\ Free("thread")
  /\ Take("thread", t)
  /\ Goto(t, "stop.join")
  /\ UNCHANGED <<globals, connected, running, stored, motors, req, vel, rep, ik>>

\* Mistake: the thread is not joined.
StopJoin_Skipped(t) ==
  /\ pc[t] = "stop.join"
  /\ Release("thread")
  /\ armIKEnabled' = FALSE
  /\ Goto(t, AfterStop(t))
  /\ UNCHANGED <<E_STOP, AUTONOMOUS, connected, running, stored, motors, req, vel,
                 rep, ik>>

StopJoin(t) ==
  /\ pc[t] = "stop.join"
  /\ rep \in {None, "exited"}
  /\ rep' = None
  /\ Release("thread")
  /\ armIKEnabled' = FALSE
  /\ Goto(t, AfterStop(t))
  /\ UNCHANGED <<E_STOP, AUTONOMOUS, connected, running, stored, motors, req, vel, ik>>

StopPowerRepeat(t) ==
  \/ StopNotRunning(t) \/ StopLockRunning(t) \/ StopClear(t) \/ StopJoints(t)
  \/ \E s \in Sides : StopWheel(t, s)
  \/ StopSignal(t) \/ StopLockThread(t) \/ StopJoin(t)

(***************************************************************************)
(* The ends of the emergency stop and heartbeat handlers.                  *)
(***************************************************************************)
Halt(t) ==
  /\ pc[t] = "halt"
  /\ wheel' = [s \in Sides |-> Zero]
  /\ joint' = [j \in Joints |-> Zero]
  /\ Goto(t, "flag")
  /\ UNCHANGED <<globals, connected, running, mutex, stored, req, vel, rep, ik>>

SetFlag(t) ==
  /\ pc[t] = "flag"
  /\ E_STOP' = (req[t] # "release")
  /\ Goto(t, "ik.off")
  /\ UNCHANGED <<AUTONOMOUS, armIKEnabled, connected, running, mutex, stored, motors,
                 req, vel, rep, ik>>

IKOff(t) ==
  /\ pc[t] = "ik.off"
  /\ armIKEnabled' = FALSE
  /\ Goto(t, "idle")
  /\ UNCHANGED <<E_STOP, AUTONOMOUS, connected, running, mutex, stored, motors,
                 req, vel, rep, ik>>

(***************************************************************************)
(* robot::setCmdVel on the server thread.                                  *)
(***************************************************************************)
DriveCheck ==
  /\ pc["server"] = "drive.check"
  /\ Goto("server", IF Refused(vel) THEN "idle" ELSE "drive.left")
  /\ UNCHANGED <<globals, connected, running, mutex, stored, motors, req, vel, rep, ik>>

DriveWheel(s) ==
  /\ pc["server"] = IF s = "left" THEN "drive.left" ELSE "drive.right"
  /\ wheel' = [wheel EXCEPT ![s] = vel]
  /\ Goto("server", IF s = "left" THEN "drive.right" ELSE "idle")
  /\ UNCHANGED <<globals, connected, running, mutex, stored, joint, req, vel, rep, ik>>

(***************************************************************************)
(* The rest of handleSetArmIKEnabled, and updateArmIKRepeatTask.           *)
(***************************************************************************)
IKJoin ==
  /\ pc["server"] = "ik.join"
  /\ ik \in {None, "exited"}
  /\ ik' = None
  /\ Goto("server", IF req["server"] = "ikOn" THEN "ik.enable" ELSE "idle")
  /\ UNCHANGED <<globals, connected, running, mutex, stored, motors, req, vel, rep>>

IKEnable ==
  /\ pc["server"] = "ik.enable"
  /\ armIKEnabled' = TRUE
  /\ ik' = "check"
  /\ Goto("server", "idle")
  /\ UNCHANGED <<E_STOP, AUTONOMOUS, connected, running, mutex, stored, motors,
                 req, vel, rep>>

\* A joint without a valid position ends the program: by the assert, or, where
\* asserts are compiled out, by the exception of the empty optional.
IKEnableInvalid ==
  /\ pc["server"] = "ik.enable"
  /\ Die("aborted")
  /\ UNCHANGED <<globals, connected, running, mutex, stored, motors, req, vel>>

IKCheck ==
  /\ ik = "check"
  /\ ik' = IF armIKEnabled THEN "send" ELSE "exited"
  /\ UNCHANGED <<globals, connected, running, mutex, stored, motors, pc, req, vel, rep>>

\* Sends the targets, or skips them when the positions are not valid.
IKSend ==
  /\ ik = "send"
  /\ ik' = "check"
  /\ \/ joint' = [j \in Joints |-> IF j \in IKJoints THEN IKTarget ELSE joint[j]]
     \/ UNCHANGED joint
  /\ UNCHANGED <<globals, connected, running, mutex, stored, wheel, pc, req, vel, rep>>

(***************************************************************************)
(* jointPowerRepeatTask                                                    *)
(***************************************************************************)
\* The first lock, and the wake-up of wait_for after a notification or a period.
RepLockRunning ==
  /\ rep \in {"begin", "wait"}
  /\ Free("running")
  /\ IF running
     THEN /\ Take("running", "repeater")
          /\ rep' = "loop"
     ELSE /\ rep' = "exited"
          /\ UNCHANGED mutex
  /\ UNCHANGED <<globals, connected, running, stored, motors, pc, req, vel, ik>>

RepLockPower ==
  /\ rep = "loop"
  /\ Free("power")
  /\ Take("power", "repeater")
  /\ rep' = "joints"
  /\ UNCHANGED <<globals, connected, running, stored, motors, pc, req, vel, ik>>

\* Mistake: the optional is read without a test that it holds a velocity.
RepJoints_NoTest ==
  /\ rep = "joints"
  /\ rep' = IF Refused(lastVel) THEN "sent" ELSE "left"
  /\ UNCHANGED <<globals, connected, running, mutex, stored, motors, pc, req, vel, ik>>

\* Mistake: only the joints are repeated.
RepJoints_NoWheels ==
  /\ rep = "joints"
  /\ rep' = "sent"
  /\ UNCHANGED <<globals, connected, running, mutex, stored, motors, pc, req, vel, ik>>

RepJoints ==
  /\ rep = "joints"
  /\ joint' = [j \in Joints |->
                 IF lastPower[j] \in Powers /\ Reachable(j) THEN lastPower[j] ELSE joint[j]]
  /\ rep' = IF lastVel = None \/ Refused(lastVel) THEN "sent" ELSE "left"
  /\ UNCHANGED <<globals, connected, running, mutex, stored, wheel, pc, req, vel, ik>>

RepWheel(s) ==
  /\ rep = s
  /\ wheel' = [wheel EXCEPT ![s] = lastVel]
  /\ rep' = IF s = "left" THEN "right" ELSE "sent"
  /\ UNCHANGED <<globals, connected, running, mutex, stored, joint, pc, req, vel, ik>>

\* Releases the power mutex, and wait_for releases the running mutex.
RepWait ==
  /\ rep = "sent"
  /\ mutex' = [mutex EXCEPT !["power"] = None, !["running"] = None]
  /\ rep' = "wait"
  /\ UNCHANGED <<globals, connected, running, stored, motors, pc, req, vel, ik>>

(***************************************************************************)
(* The specification.                                                      *)
(***************************************************************************)
Request ==
  \/ \E b \in BOOLEAN : EmergencyStopRequest(b) \/ OperationModeRequest(b)
                        \/ SetArmIKEnabled(b)
  \/ \E v \in Vels \cup {Zero} : DriveRequest(v)
  \/ \E j \in Joints, p \in Powers \cup {Zero} : JointPowerRequest(j, p)
  \/ Connect \/ Close \/ HeartbeatTimedOut

Handler(t) ==
  \/ StartLockRunning(t) \/ StartThread(t) \/ StopPowerRepeat(t)
  \/ Halt(t) \/ SetFlag(t) \/ IKOff(t)

ServerStep ==
  \/ Handler("server") \/ Disconnect \/ DriveCheck
  \/ \E s \in Sides : DriveWheel(s)
  \/ IKJoin \/ IKEnable \/ IKEnableInvalid

IKStep == IKCheck \/ IKSend

Repeater ==
  \/ RepLockRunning \/ RepLockPower \/ RepJoints
  \/ \E s \in Sides : RepWheel(s)
  \/ RepWait

Next == Request \/ ServerStep \/ Handler("watchdog") \/ Repeater \/ IKStep

\* Every thread is scheduled. A mutex is held for a few microseconds out of the
\* repeater's 333 ms period, so a thread that waits for it gets it: SF.
Fairness ==
  /\ SF_vars(ServerStep)
  /\ SF_vars(Handler("watchdog"))
  /\ SF_vars(Repeater)
  /\ WF_vars(IKStep)

Spec == Init /\ [][Next]_vars
FairSpec == Spec /\ Fairness

(***************************************************************************)
(* Properties.                                                             *)
(***************************************************************************)
Stopping == {"stop.clear", "stop.joints", "stop.left", "stop.right", "stop.signal"}
Sending == {"joints", "left", "right", "sent"}
Dead == {"terminated", "aborted"}
Labels == {"idle", "close.join", "start.running", "start.thread", "stop.enter",
           "stop.thread", "stop.join", "halt", "flag", "ik.off", "drive.check",
           "drive.left", "drive.right", "ik.join", "ik.enable"} \cup Stopping \cup Dead
RepLabels == {None, "begin", "wait", "loop", "exited"} \cup Sending \cup Dead
IKLabels == {None, "check", "send", "exited"} \cup Dead
Requests == {None, "stop", "release", "autonomous", "teleoperation", "connect",
             "disconnect", "drive", "ikOn", "ikOff", "timeout"}
Velocities == Vels \cup {Zero}

TypeOK ==
  /\ E_STOP \in BOOLEAN /\ AUTONOMOUS \in BOOLEAN /\ armIKEnabled \in BOOLEAN
  /\ connected \in BOOLEAN /\ running \in BOOLEAN
  /\ mutex \in [MutexNames -> Owners]
  /\ lastPower \in [Joints -> Powers \cup {Zero, None}]
  /\ lastVel \in Velocities \cup {None}
  /\ wheel \in [Sides -> Velocities]
  /\ joint \in [Joints -> Powers \cup {Zero, IKTarget}]
  /\ pc \in [Controllers -> Labels]
  /\ req \in [Controllers -> Requests]
  /\ vel \in Velocities
  /\ rep \in RepLabels
  /\ ik \in IKLabels

\* The repeater's flag is down from the moment a stop handler clears it: the
\* repeater never commands a motor with the flag down, so the test inside its
\* loop over the joints (line 432) never fires.
RepeaterObeysFlag == rep \in Sending => running

\* Once the server thread has switched to autonomous mode, the repeater does not
\* override the autonomous driver, whatever the watchdog was doing meanwhile.
RepeaterSilentInAutonomous ==
  AUTONOMOUS /\ pc["server"] \notin {"stop.enter"} \cup Stopping
    => ~running /\ rep \notin Sending

Idle == pc["server"] = "idle" /\ pc["watchdog"] = "idle"

\* While emergency stopped, no wheel moves: not by a request, not by the repeater
\* that a mode request or a new connection started meanwhile.
WheelsStoppedInEstop == E_STOP => \A s \in Sides : wheel[s] = Zero

\* Between commands both sides stand still or both obey the velocity that the
\* repeater resends: the handlers' and the repeater's calls of robot::setCmdVel
\* leave neither a mixture nor a velocity that the next stop has forgotten.
WheelsAsRequested ==
  Idle /\ rep \notin Sending
    => \E v \in {Zero, lastVel} \ {None} : \A s \in Sides : wheel[s] = v

\* A joint under power is in _last_joint_power with that power, in every
\* interleaving of the request, the repeater and a stop on the other thread, which
\* differs from the map only between clearing it and zeroing the joints.
JointsAsRequested ==
  (\A t \in Controllers : pc[t] \notin {"stop.joints"} \cup Dead)
    => \A j \in Joints \ IKJoints : joint[j] \in Powers => lastPower[j] = joint[j]

\* Thread t is about to lock mutex m.
NeedsMutex(t, m) ==
  \/ t = "repeater" /\ rep \in {"begin", "wait"} /\ m = "running"
  \/ t = "repeater" /\ rep = "loop" /\ m = "power"
  \/ t \in Controllers /\ pc[t] \in {"start.running", "stop.enter"} /\ m = "running"
  \/ t \in Controllers /\ pc[t] \in {"start.thread", "stop.thread"} /\ m = "thread"
  \/ t \in Controllers /\ pc[t] = "stop.clear" /\ m = "power"

\* Thread t cannot continue before thread u has done something.
BlockedBy(t, u) ==
  \/ \E m \in MutexNames : NeedsMutex(t, m) /\ mutex[m] = u
  \/ t \in Controllers /\ pc[t] = "stop.join" /\ rep \notin {None, "exited"} /\ u = "repeater"
  \/ t \in Controllers /\ pc[t] = "close.join" /\ pc["watchdog"] # "idle" /\ u = "watchdog"

\* No set of threads waits in a circle: "release before joining to prevent
\* deadlock" (line 336), "take care to lock mutexes in a consistent order".
NoDeadlock ==
  \A S \in SUBSET (Controllers \cup {"repeater"}) :
    S # {} => \E t \in S : \A u \in S : ~BlockedBy(t, u)

\* handleConnection says "start power repeat thread (if not already running)":
\* no start assigns to the handle of a repeater that was not joined.
NeverTerminates == rep # "terminated"

\* The last drive command is resent until another takes its place: in the end the
\* wheels obey it, even when it came while emergency stopped.
LastCommandObeyed ==
  \A v \in Vels :
    running /\ lastVel = v /\ ~E_STOP
      ~> \/ \A s \in Sides : wheel[s] = v
         \/ ~running \/ lastVel # v \/ E_STOP \/ rep \in Dead

\* A switch to autonomous mode ends the repeater thread, or it is switched back.
RepeaterExits ==
  AUTONOMOUS ~> rep \in {None, "exited"} \cup Dead \/ ~AUTONOMOUS
============================================================================
