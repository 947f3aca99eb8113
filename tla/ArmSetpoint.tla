---------------------------- MODULE ArmSetpoint ----------------------------
(***************************************************************************)
(* Inverse kinematics of the arm: control/PlanarArmController.h, the       *)
(* request that switches it on and off, the thread that commands the       *)
(* joints and the powers of ikForward. One axis of the end effector is     *)
(* modelled, the other one stays at zero; velocities are in units of       *)
(* length per tick. A joint position stands for the one it puts the end    *)
(* effector at.                                                            *)
(***************************************************************************)
EXTENDS Integers

CONSTANTS Vels,     \* requested velocities
          Arms,     \* where the arm may be found when IK is switched on
          Radius,   \* its reach, times the safety factor
          Period,   \* ARM_IK_UPDATE_PERIOD, in ticks
          MaxTime   \* bound on the clock

None == <<>>
VARIABLES now,
          armIKEnabled,                      \* Globals
          setpoint, velocity, velTimestamp,  \* the controller's members
          server,  \* the server's thread: "idle", "on" or "off" while it joins, "dead"
          thread,  \* the IK thread: "none", or the next of its steps
          time,    \* the thread's call of now() for getCommand
          newPos, nextUpdate,  \* its local variables
          command, \* what the joints were last commanded to, or None
          origin, path  \* history: the set point IK began with, the way the velocities went
controller == <<setpoint, velocity, velTimestamp>>
task == <<thread, time, newPos, nextUpdate, command>>
history == <<origin, path>>
vars == <<now, armIKEnabled, controller, server, task, history>>

Abs(i) == IF i < 0 THEN -i ELSE i
Min2(a, b) == IF a < b THEN a ELSE b
\* normalizeEEWithinRadius
Clamp(p) == IF p > Radius THEN Radius ELSE IF p < -Radius THEN -Radius ELSE p
Extrapolated(t) == setpoint + (IF velTimestamp = None THEN 0
                               ELSE velocity * (t - velTimestamp[1]))

Init ==
  /\ now = 0 /\ armIKEnabled = FALSE
  /\ setpoint = 0 /\ velocity = 0 /\ velTimestamp = None
  /\ server = "idle" /\ thread = "none"
  /\ time = 0 /\ newPos = 0 /\ nextUpdate = 0 /\ command = None /\ origin = 0 /\ path = 0

Tick ==
  /\ now < MaxTime /\ now' = now + 1
  /\ path' = path + Abs(velocity)
  /\ UNCHANGED <<armIKEnabled, controller, server, task, origin>>

\* handleSetArmIKEnabled lowers the flag and joins the thread; then, to switch IK on, it
\* takes the arm's position, which may be invalid, for set point. The last velocity and
\* its time stamp stay.
Request(enabled) ==
  /\ server = "idle" /\ server' = IF enabled THEN "on" ELSE "off"
  /\ armIKEnabled' = FALSE
  /\ UNCHANGED <<now, controller, task, history>>
Joined == thread \in {"none", "exited"}
SwitchOff ==
  /\ server = "off" /\ Joined
  /\ server' = "idle" /\ thread' = "none"
  /\ UNCHANGED <<now, armIKEnabled, controller, time, newPos, nextUpdate, command, history>>
SwitchOn(arm) ==
  /\ server = "on" /\ Joined
  /\ server' = "idle" /\ armIKEnabled' = TRUE
  /\ setpoint' = Clamp(arm) /\ origin' = Clamp(arm)
  /\ path' = Abs(Extrapolated(now) - setpoint)
  /\ thread' = "test" /\ nextUpdate' = now /\ command' = None
  /\ UNCHANGED <<now, velocity, velTimestamp, time, newPos>>
NoPosition ==
  /\ server = "on" /\ Joined /\ server' = "dead" /\ thread' = "none"
  /\ UNCHANGED <<now, armIKEnabled, controller, time, newPos, nextUpdate, command, history>>
\* The emergency stop, a change of mode and a disconnection lower the flag only.
Lower ==
  /\ armIKEnabled /\ armIKEnabled' = FALSE
  /\ UNCHANGED <<now, controller, server, task, history>>

\* A power of ikForward, requested or resent.
SetXVel(v) ==
  /\ armIKEnabled
  /\ setpoint' = Extrapolated(now) /\ velocity' = v /\ velTimestamp' = <<now>>
  /\ UNCHANGED <<now, armIKEnabled, server, task, history>>

(***************************************************************************)
(* updateArmIKRepeatTask. getCommand locks the mutex twice.                *)
(***************************************************************************)
\* Mistake: the flag is not tested again.
TestFlag_Once ==
  /\ thread = "test" /\ thread' = "get" /\ time' = now
  /\ UNCHANGED <<now, armIKEnabled, controller, server, newPos, nextUpdate, command, history>>
TestFlag ==
  /\ thread = "test"
  /\ IF armIKEnabled THEN thread' = "get" /\ time' = now
     ELSE thread' = "exited" /\ UNCHANGED time
  /\ UNCHANGED <<now, armIKEnabled, controller, server, newPos, nextUpdate, command, history>>
\* Mistake: what is extrapolated is not brought back into reach.
GetSetpoint_Free ==
  /\ thread = "get" /\ thread' = "store" /\ newPos' = Extrapolated(time)
  /\ UNCHANGED <<now, armIKEnabled, controller, server, time, nextUpdate, command, history>>
GetSetpoint ==
  /\ thread = "get" /\ thread' = "store" /\ newPos' = Clamp(Extrapolated(time))
  /\ path' = path + (IF velTimestamp # None /\ velTimestamp[1] > time
                     THEN Abs(newPos' - setpoint) ELSE 0)
  /\ UNCHANGED <<now, armIKEnabled, controller, server, time, nextUpdate, command, origin>>
StoreAndMove ==
  /\ thread = "store" /\ thread' = "sleep"
  /\ setpoint' = newPos /\ command' = <<newPos>>
  /\ nextUpdate' = Min2(nextUpdate + Period, MaxTime)
  /\ UNCHANGED <<now, armIKEnabled, velocity, velTimestamp, server, time, newPos, history>>
Wake ==
  /\ thread = "sleep" /\ now >= nextUpdate /\ thread' = "test"
  /\ UNCHANGED <<now, armIKEnabled, controller, server, time, newPos, nextUpdate, command, history>>

Task == TestFlag \/ GetSetpoint \/ StoreAndMove \/ Wake
Serve == SwitchOff \/ NoPosition \/ \E arm \in Arms : SwitchOn(arm)
Next == Tick \/ Lower \/ Task \/ Serve
        \/ (\E b \in BOOLEAN : Request(b)) \/ (\E v \in Vels : SetXVel(v))
\* The threads are scheduled.
Spec == Init /\ [][Next]_vars /\ WF_vars(Tick) /\ WF_vars(Task) /\ WF_vars(Serve)

(***************************************************************************)
(* Properties.                                                             *)
(***************************************************************************)
\* The arm is never commanded beyond its reach, whatever velocities were requested and
\* however the requests fall between the two critical sections of getCommand.
WithinReach == command # None => Abs(command[1]) <= Radius

\* "Sets the x velocity for the end effector" (PlanarArmController.h:78): the commands
\* lead no farther from where IK was switched on than the velocities do, counted from the
\* last request before, and back for a request newer than the time of a getCommand.
FollowsVelocity == [][StoreAndMove => Abs(newPos - origin) <= path]_vars

\* A request to switch IK on or off is answered: the thread that it joins sees the flag,
\* which nobody else raises, after one more command.
RequestsReturn == server \in {"on", "off"} ~> server \in {"idle", "dead"}
============================================================================
