---------------------------- MODULE MotorControl ----------------------------
(***************************************************************************)
(* One motor of the real rover: can_motor and base_motor, the velocity     *)
(* event they keep on the shared PeriodicScheduler, and the mode that the  *)
(* motor board is in. The functions take no lock of the motor, and the     *)
(* rover calls them from the server thread, the power repeater, the        *)
(* watchdog and the arm IK thread: a step ends where another thread can    *)
(* see a difference. "event" is the scheduler's thread.                    *)
(***************************************************************************)
EXTENDS Integers, FiniteSets

\* At most one caller of setMotorVel, so that what scheduleEvent returned to it is still
\* nextID - 1; no caller is "event".
CONSTANTS PowerCallers, PosCallers, VelCallers,  \* the threads that call each function
          MaxEvents        \* bound on the velocity events ever scheduled

None == "none"
Callers == PowerCallers \cup PosCallers \cup VelCallers
Threads == Callers \cup {"event"}

VARIABLES motor_mode,  \* the mode the object believes the board to be in, or None
          board,       \* the mode the board is in; "reset" after an emergency stop
          velEventID,  \* {} or {the id of the velocity event}
          events, toRemove, nextID, sched,  \* of pSched; the owner of scheduleMutex
          pc, op       \* where each thread is, in which function

modes == <<motor_mode, board>>
schedule == <<events, toRemove, nextID, sched>>
vars == <<modes, velEventID, schedule, pc, op>>

\* initMotors puts the board in pwm mode without telling the motor object.
Init ==
  /\ motor_mode = None
  /\ board = "pwm"
  /\ velEventID = {}
  /\ events = {}
  /\ toRemove = {}
  /\ nextID = 0
  /\ sched = None
  /\ pc = [t \in Threads |-> "idle"]
  /\ op = [t \in Threads |-> None]

At(t, label) == pc[t] = label
Goto(t, label) == pc' = [pc EXCEPT ![t] = label]
Begin(t, function) ==
  /\ pc' = [pc EXCEPT ![t] = "mode"]
  /\ op' = [op EXCEPT ![t] = function]

\* The mode a function asks for, and the mode its packet is for.
ModeOf(function) == IF function = "power" THEN "pwm" ELSE "pid"

\* An uncaught exception ends every thread at once.
Die == pc' = [t \in Threads |-> "dead"]

(***************************************************************************)
(* setMotorPower, setMotorPos and setMotorVel                              *)
(***************************************************************************)
Call(t) ==
  /\ At(t, "idle")
  /\ \/ t \in PowerCallers /\ Begin(t, "power")
     \/ t \in PosCallers /\ Begin(t, "pos")
     \/ t \in VelCallers /\ nextID < MaxEvents /\ Begin(t, "vel")
  /\ UNCHANGED <<modes, velEventID, schedule>>

\* ensureMotorMode remembers the mode before it sends it.
EnsureMode(t) ==
  /\ At(t, "mode")
  /\ IF motor_mode = ModeOf(op[t])
     THEN Goto(t, "unschedule") /\ UNCHANGED motor_mode
     ELSE Goto(t, "set mode") /\ motor_mode' = ModeOf(op[t])
  /\ UNCHANGED <<board, velEventID, schedule, op>>

SetMode(t) ==
  /\ At(t, "set mode")
  /\ board' = ModeOf(op[t])
  /\ Goto(t, "unschedule")
  /\ UNCHANGED <<motor_mode, velEventID, schedule, op>>

AfterUnschedule(t) == IF op[t] = "vel" THEN "schedule" ELSE "send"

\* Mistake: a new velocity does not unschedule the event of the last one.
Unschedule_NotForVelocity(t) ==
  /\ At(t, "unschedule")
  /\ Goto(t, IF velEventID = {} \/ op[t] = "vel" THEN AfterUnschedule(t) ELSE "remove")
  /\ UNCHANGED <<modes, velEventID, schedule, op>>

Unschedule(t) ==
  /\ At(t, "unschedule")
  /\ Goto(t, IF velEventID = {} THEN AfterUnschedule(t) ELSE "remove")
  /\ UNCHANGED <<modes, velEventID, schedule, op>>

\* pSched->removeEvent(velEventID.value()): the value of an empty optional throws.
Remove(t) ==
  /\ At(t, "remove")
  /\ \/ /\ velEventID = {}
        /\ Die
        /\ UNCHANGED toRemove
     \/ /\ velEventID # {}
        /\ sched = None
        /\ toRemove' = toRemove \cup velEventID
        /\ Goto(t, "reset")
  /\ UNCHANGED <<modes, velEventID, events, nextID, sched, op>>

\* Mistake: the id of the removed event is kept.
Reset_Kept(t) ==
  /\ At(t, "reset")
  /\ Goto(t, AfterUnschedule(t))
  /\ UNCHANGED <<modes, velEventID, schedule, op>>

Reset(t) ==
  /\ At(t, "reset")
  /\ velEventID' = {}
  /\ Goto(t, AfterUnschedule(t))
  /\ UNCHANGED <<modes, schedule, op>>

\* pSched->scheduleEvent, and the assignment of what it returns.
Schedule(t) ==
  /\ At(t, "schedule")
  /\ sched = None
  /\ events' = events \cup {nextID}
  /\ nextID' = nextID + 1
  /\ Goto(t, "assign")
  /\ UNCHANGED <<modes, velEventID, toRemove, sched, op>>

Assign(t) ==
  /\ At(t, "assign")
  /\ velEventID' = {nextID - 1}
  /\ Goto(t, "idle")
  /\ UNCHANGED <<modes, schedule, op>>

\* can::motor::setMotorPower or setMotorPIDTarget: the packet reaches the board. The
\* scheduler releases its mutex when the event returns.
Send(t) ==
  /\ At(t, "send")
  /\ sched' = IF t = "event" THEN None ELSE sched
  /\ Goto(t, "idle")
  /\ UNCHANGED <<modes, velEventID, events, toRemove, nextID, op>>

(***************************************************************************)
(* The scheduler's thread: the velocity event reads the position, computes *)
(* the next one and calls setMotorPos, all under scheduleMutex.            *)
(***************************************************************************)
PopRemoved(e) ==
  /\ At("event", "idle")
  /\ sched = None
  /\ e \in events \cap toRemove
  /\ events' = events \ {e}
  /\ toRemove' = toRemove \ {e}
  /\ UNCHANGED <<modes, velEventID, nextID, sched, pc, op>>

\* getData() throws while the motor has reported no position.
EventDue(e) ==
  /\ At("event", "idle")
  /\ sched = None
  /\ e \in events \ toRemove
  /\ sched' = "event"
  /\ \/ Begin("event", "pos")
     \/ Die /\ UNCHANGED op
  /\ UNCHANGED <<modes, velEventID, events, toRemove, nextID>>

\* The broadcast of the emergency stop "cuts power to all motors and resets them".
EmergencyStop ==
  /\ \A t \in Threads : ~At(t, "dead")
  /\ board' = "reset"
  /\ UNCHANGED <<motor_mode, velEventID, schedule, pc, op>>

Step(t) ==
  \/ EnsureMode(t) \/ SetMode(t) \/ Unschedule(t) \/ Remove(t)
  \/ Reset(t) \/ Schedule(t) \/ Assign(t) \/ Send(t)

Next ==
  \/ \E t \in Callers : Call(t)
  \/ \E t \in Threads : Step(t)
  \/ \E e \in events : PopRemoved(e) \/ EventDue(e)
  \/ EmergencyStop

Spec == Init /\ [][Next]_vars

(***************************************************************************)
(* Properties.                                                             *)
(***************************************************************************)
Labels == {"idle", "mode", "set mode", "unschedule", "remove", "reset", "schedule",
           "assign", "send", "dead"}

TypeOK ==
  /\ motor_mode \in {"pwm", "pid", None}
  /\ board \in {"pwm", "pid", "reset"}
  /\ Cardinality(velEventID) <= 1
  /\ nextID \in 0..MaxEvents
  /\ velEventID \cup events \cup toRemove \subseteq 0..nextID - 1
  /\ sched \in {"event", None}
  /\ pc \in [Threads -> Labels]
  /\ op \in [Threads -> {"power", "pos", "vel", None}]

\* "The motor mode should have been set to motormode_t::pwm" (or pid; CANMotor.h:121
\* and 131): a power or a target reaches a board that is in the mode for it.
SendsInMode == \A t \in Threads : At(t, "send") => board = ModeOf(op[t])

\* The motor follows its last velocity at most: when its callers are done, the one
\* event that is scheduled is the one the next command will unschedule.
OneVelocityEvent ==
  (\A t \in Callers : At(t, "idle")) => events \ toRemove = velEventID

\* "It is undefined behavior to remove events that are not scheduled"
\* (scheduler.h:80): a motor removes an event once.
RemovesScheduled ==
  \A t \in Threads : At(t, "remove") => velEventID \subseteq events \ toRemove

\* "The function to call when the event is executed. This should not block"
\* (scheduler.h:97): the velocity event does not wait for the mutex it runs under.
EventDoesNotBlock ==
  ~(At("event", "remove") /\ velEventID # {} /\ sched = "event")
=============================================================================
