--------------------------- MODULE DevicesProofs ---------------------------
(***************************************************************************)
(* What Devices' components promise, for every value of its constants. A   *)
(* component's steps keep its invariant, the steps of the others leave its *)
(* variables alone, and what the run checks follows.                       *)
(***************************************************************************)
EXTENDS Devices, FiniteSetTheorems, SequenceTheorems, TLAPS

(***************************************************************************)
(* The watchdog implements Starvation, for every period.                   *)
(***************************************************************************)
\* A feeding that the thread has not seen yet is newer than the last call, and the
\* thread waits for the rest of a period of hunger that it may bark about.
WaitIsHunger ==
  /\ fed => ~called
  /\ pc = "begin" => ~called
  /\ pc = "waiting" /\ ~fed => left + hungry >= Duration /\ (called => keepCallingOnDeath)

WatchdogInv == TypeOK /\ WaitIsHunger

LEMMA WatchdogInvInit == Init => WatchdogInv
<1> SUFFICES ASSUME Init
             PROVE  TypeOK /\ WaitIsHunger
  BY DEF WatchdogInv
<1>1. TypeOK
  <2>1. /\ keepCallingOnDeath \in BOOLEAN
        /\ fed \in BOOLEAN /\ quitting \in BOOLEAN /\ called \in BOOLEAN
    BY Zenon DEF Init
  <2>2. pc = "begin" /\ left \in 0..Duration /\ hungry \in 0..Duration
    BY DurationAssumption DEF Init
  <2>3. QED BY <2>1, <2>2 DEF TypeOK
<1>2. ~called
  BY Zenon DEF Init
<1>3. pc = "begin"
  BY DEF Init
<1>4. ~fed
  BY Zenon DEF Init
<1>5. QED BY <1>1, <1>2, <1>3, <1>4 DEF WaitIsHunger

LEMMA WatchdogInvStep == WatchdogInv /\ [Next]_vars => WatchdogInv'
<1> SUFFICES ASSUME WatchdogInv, [Next]_vars
             PROVE  WatchdogInv'
  OBVIOUS
<1> USE DurationAssumption
    DEF WatchdogInv, TypeOK, WaitIsHunger, flags, history, Loop, MutexFree
<1>1. CASE Tick
  BY <1>1 DEF Tick
<1>2. CASE Feed
  <2>1. UNCHANGED <<keepCallingOnDeath, quitting, pc, left>> /\ hungry' = 0
    BY <1>2 DEF Feed
  <2>2. fed' /\ fed' \in BOOLEAN /\ ~called' /\ called' \in BOOLEAN
    BY <1>2, Zenon DEF Feed
  <2>3. QED BY <2>1, <2>2
<1>3. CASE Quit
  BY <1>3 DEF Quit
<1>4. CASE Begin
  BY <1>4 DEF Begin
<1>5. CASE WakeFed
  <2>1. UNCHANGED <<keepCallingOnDeath, quitting, hungry>> /\ left' = Duration /\ pc' = "waiting"
    BY <1>5 DEF WakeFed
  <2>2. ~fed' /\ fed' \in BOOLEAN /\ ~called' /\ called' \in BOOLEAN
    BY <1>5, Zenon DEF WakeFed
  <2>3. QED BY <2>1, <2>2
<1>6. CASE TimedOut
  BY <1>6 DEF TimedOut
<1>7. CASE CallbackReturns
  BY <1>7 DEF CallbackReturns
<1>8. CASE WakeStarved
  BY <1>8 DEF WakeStarved
<1>9. CASE Exit
  BY <1>9 DEF Exit
<1>10. CASE UNCHANGED vars
  BY <1>10 DEF vars
<1>11. QED
  BY <1>1, <1>2, <1>3, <1>4, <1>5, <1>6, <1>7, <1>8, <1>9, <1>10 DEF Next, Thread

\* The inductive invariant: while the thread waits unfed, the rest of the wait and the
\* time since the last feeding add up to a whole period.
THEOREM WatchdogInvHolds == Spec => []WatchdogInv
<1>1. QED BY WatchdogInvInit, WatchdogInvStep, PTL DEF Spec

\* Every variable keeps its type; the wake-up time is never more than a period away.
THEOREM WatchdogIsTyped == Spec => []TypeOK
<1>1. WatchdogInv => TypeOK
  BY DEF WatchdogInv
<1>2. QED BY WatchdogInvHolds, <1>1, PTL

\* A feeding is a feeding, a call comes after a full period without one, and every
\* other step of the thread or its owner goes unnoticed.
LEMMA WatchdogStepSimulates == WatchdogInv /\ [Next]_vars => [Promise!Next]_(Promise!vars)
<1> SUFFICES ASSUME WatchdogInv, [Next]_vars
             PROVE  Promise!Next \/ UNCHANGED Promise!vars
  OBVIOUS
<1>1. CASE Tick
  <2>1. hungry' = IF hungry < Duration THEN hungry + 1 ELSE hungry
    BY <1>1 DEF Tick
  <2>2. UNCHANGED <<keepCallingOnDeath, called>>
    BY <1>1, Zenon DEF Tick, flags
  <2>3. QED BY <2>1, <2>2, Zenon DEF Promise!Next, Promise!Pass
<1>2. CASE Feed
  <2>1. hungry' = 0
    BY <1>2 DEF Feed
  <2>2. called' = FALSE /\ UNCHANGED keepCallingOnDeath
    BY <1>2, Zenon DEF Feed
  <2>3. QED BY <2>1, <2>2, Zenon DEF Promise!Next, Promise!Fed
<1>3. CASE TimedOut
  <2>1. hungry = Duration /\ (called => keepCallingOnDeath)
    BY <1>3, DurationAssumption DEF TimedOut, WatchdogInv, TypeOK, WaitIsHunger
  <2>2. hungry' = 0
    BY <1>3 DEF TimedOut
  <2>3. called' = TRUE /\ UNCHANGED keepCallingOnDeath
    BY <1>3, Zenon DEF TimedOut, flags
  <2>4. QED BY <2>1, <2>2, <2>3, Zenon DEF Promise!Next, Promise!Call
<1>4. CASE Quit \/ Begin \/ WakeFed \/ CallbackReturns \/ WakeStarved \/ Exit \/ UNCHANGED vars
  <2>1. UNCHANGED history
    BY <1>4, Zenon DEF Quit, Begin, WakeFed, CallbackReturns, WakeStarved, Exit, vars
  <2>2. UNCHANGED keepCallingOnDeath
    BY <1>4, Zenon DEF Quit, Begin, WakeFed, CallbackReturns, WakeStarved, Exit, vars, flags
  <2>3. QED BY <2>1, <2>2, Zenon DEF history, Promise!vars
<1>5. QED BY <1>1, <1>2, <1>3, <1>4 DEF Next, Thread

\* The watchdog keeps the promise of its documentation, for every period: no call
\* comes early, and without keepCallingOnDeath none comes twice in one starvation.
THEOREM WatchdogImplementsStarvation == Spec => KeepsPromise
<1>1. Init => Promise!Init
  BY DEF Init, Promise!Init
<1>2. QED BY <1>1, WatchdogStepSimulates, WatchdogInvHolds, PTL DEF Spec, KeepsPromise, Promise!Spec

(***************************************************************************)
(* The scheduler: the theorems of PeriodicSchedulerProofs, for Devices'     *)
(* instance.                                                               *)
(***************************************************************************)
SchedP == INSTANCE PeriodicSchedulerProofs WITH
  toRemove <- marked, nextID <- nextEventID, quitting <- leaving, pc <- place, running <- runs

LEMMA SchedBounds == SchedP!Bounds
BY PeriodsAssumption DEF SchedP!Bounds

\* Sched's definitions are those that PeriodicSchedulerProofs proves about.
LEMMA SchedRuns == AllSpec => SchedP!Spec
<1>1. AllInit => SchedP!Init
  BY DEF AllInit, Sched!Init, SchedP!Init, Sched!NoEvent, SchedP!NoEvent
<1>2. Sched!Next => SchedP!Next
  BY DEF Sched!Next, SchedP!Next, Sched!ScheduleEvent, SchedP!ScheduleEvent,
         Sched!RemoveEvent, SchedP!RemoveEvent, Sched!Clear, SchedP!Clear, Sched!Quit,
         SchedP!Quit, Sched!Thread, SchedP!Thread, Sched!Begin, SchedP!Begin, Sched!Exit,
         SchedP!Exit, Sched!WaitEmpty, SchedP!WaitEmpty, Sched!Return, SchedP!Return,
         Sched!WakeUp, SchedP!WakeUp, Sched!PopRemoved, SchedP!PopRemoved, Sched!Run,
         SchedP!Run, Sched!WaitUntil, SchedP!WaitUntil, Sched!Tick, SchedP!Tick,
         Sched!Scheduled, SchedP!Scheduled, Sched!Tops, SchedP!Tops, Sched!LoopHead,
         SchedP!LoopHead, Sched!Waiting, SchedP!Waiting, Sched!MutexFree, SchedP!MutexFree,
         Sched!NoEvent, SchedP!NoEvent, Sched!shared, SchedP!shared, Sched!flags, SchedP!flags
<1>3. [AllNext]_allVars => [SchedP!Next]_(SchedP!vars)
  BY <1>2 DEF AllNext, allVars, schedVars, SchedP!vars, SchedP!shared, SchedP!flags
<1>4. QED BY <1>1, <1>3, PTL DEF AllSpec, SchedP!Spec

\* scheduler.h: for any periods and number of events, an id marked for removal is that of a
\* scheduled event, also after clear() has started the ids over.
THEOREM RemovalsHitTheirEventAlways == AllSpec => []RemovalsHitTheirEvent
<1>1. SchedP!RemovalsHitTheirEvent => RemovalsHitTheirEvent
  BY DEF RemovalsHitTheirEvent, Sched!RemovalsHitTheirEvent, SchedP!RemovalsHitTheirEvent,
         Sched!Scheduled, SchedP!Scheduled
<1>2. SchedP!Spec => []SchedP!RemovalsHitTheirEvent
  BY SchedBounds, SchedP!RemovalsHitTheirEventAlways
<1>3. QED BY SchedRuns, <1>1, <1>2, PTL

\* scheduler.h: for any periods and number of events, if the thread has always run before the
\* clock moved on, no event is overdue.
THEOREM NeverOverdueAlways == AllSpec => []NeverOverdue
<1>1. SchedP!NeverOverdue => NeverOverdue
  BY DEF NeverOverdue, Sched!NeverOverdue, SchedP!NeverOverdue, Sched!Scheduled,
         SchedP!Scheduled
<1>2. SchedP!Spec => []SchedP!NeverOverdue
  BY SchedBounds, SchedP!NeverOverdueAlways
<1>3. QED BY SchedRuns, <1>1, <1>2, PTL

\* scheduler.h: for any periods and number of events, the queue, the removals and the thread
\* implement a set of events that run only while they are in it, one at a time.
THEOREM SchedulerImplementsEventSet == AllSpec => ImplementsEventSet
<1>1. SchedP!Promise!Init => Sched!Promise!Init
  BY DEF SchedP!Promise!Init, Sched!Promise!Init, Sched!Scheduled, SchedP!Scheduled,
         Sched!NoEvent, SchedP!NoEvent
<1>2. [SchedP!Promise!Next]_(SchedP!Promise!vars) => [Sched!Promise!Next]_(Sched!Promise!vars)
  BY DEF SchedP!Promise!Next, Sched!Promise!Next, SchedP!Promise!vars, Sched!Promise!vars,
         SchedP!Promise!Schedule, Sched!Promise!Schedule, SchedP!Promise!Remove,
         Sched!Promise!Remove, SchedP!Promise!Clear, Sched!Promise!Clear, SchedP!Promise!Run,
         Sched!Promise!Run, SchedP!Promise!Return, Sched!Promise!Return, Sched!Scheduled,
         SchedP!Scheduled, Sched!NoEvent, SchedP!NoEvent
<1>3. QED BY SchedBounds, SchedRuns, SchedP!SchedulerImplementsEventSet, <1>1, <1>2, PTL
      DEF ImplementsEventSet, Sched!ImplementsEventSet, SchedP!ImplementsEventSet,
          SchedP!Promise!Spec, Sched!Promise!Spec

(***************************************************************************)
(* The power repeater: the theorems of PowerRepeatProofs that have the      *)
(* hypothesis ~HeartbeatMayFail, for Devices' instance.                    *)
(***************************************************************************)
RepeatP == INSTANCE PowerRepeatProofs WITH
  running <- repeating, joint <- jointPower, pc <- hpc, Vels <- DriveVels,
  Powers <- JointPowers, Joints <- PowerJoints, HeartbeatMayFail <- FALSE

\* What PowerRepeatProofs assumes of its constants.
LEMMA RepeatValues ==
  /\ {RepeatP!None, RepeatP!Zero, RepeatP!IKTarget} \cap (DriveVels \cup JointPowers) = {}
  /\ FALSE \in BOOLEAN /\ ~FALSE
  /\ IKJoints \subseteq PowerJoints
BY RequestsAssumption DEF Repeat!None, RepeatP!None, Repeat!Zero, RepeatP!Zero,
   Repeat!IKTarget, RepeatP!IKTarget

\* Repeat's definitions are those that PowerRepeatProofs proves about.
LEMMA RepeatRuns == AllSpec => RepeatP!Spec
<1>1. AllInit => RepeatP!Init
  BY DEF AllInit, Repeat!Init, RepeatP!Init, Repeat!None, RepeatP!None, Repeat!Zero, RepeatP!Zero,
         Repeat!Sides, RepeatP!Sides, Repeat!MutexNames, RepeatP!MutexNames,
         Repeat!Controllers, RepeatP!Controllers
<1>2. Repeat!Request => RepeatP!Request
  BY DEF Repeat!Request, RepeatP!Request, Repeat!EmergencyStopRequest,
         RepeatP!EmergencyStopRequest, Repeat!OperationModeRequest,
         RepeatP!OperationModeRequest, Repeat!SetArmIKEnabled, RepeatP!SetArmIKEnabled,
         Repeat!DriveRequest, RepeatP!DriveRequest, Repeat!JointPowerRequest,
         RepeatP!JointPowerRequest, Repeat!Connect, RepeatP!Connect, Repeat!Close,
         RepeatP!Close, Repeat!HeartbeatTimedOut, RepeatP!HeartbeatTimedOut, Repeat!None,
         RepeatP!None, Repeat!Zero, RepeatP!Zero, Repeat!Free, RepeatP!Free, Repeat!Goto,
         RepeatP!Goto, Repeat!Begin, RepeatP!Begin, Repeat!Reachable, RepeatP!Reachable,
         Repeat!globals, RepeatP!globals, Repeat!stored, RepeatP!stored, Repeat!motors,
         RepeatP!motors, Repeat!threads, RepeatP!threads
<1>3. ASSUME NEW t, Repeat!Handler(t)
      PROVE  RepeatP!Handler(t)
  BY <1>3 DEF Repeat!Handler, RepeatP!Handler, Repeat!AfterStart, RepeatP!AfterStart,
         Repeat!StartLockRunning, RepeatP!StartLockRunning, Repeat!StartThread,
         RepeatP!StartThread, Repeat!AfterStop, RepeatP!AfterStop, Repeat!StopNotRunning,
         RepeatP!StopNotRunning, Repeat!StopLockRunning, RepeatP!StopLockRunning,
         Repeat!StopClear, RepeatP!StopClear, Repeat!StopJoints, RepeatP!StopJoints,
         Repeat!StopWheel, RepeatP!StopWheel, Repeat!StopSignal, RepeatP!StopSignal,
         Repeat!StopLockThread, RepeatP!StopLockThread, Repeat!StopJoin, RepeatP!StopJoin,
         Repeat!StopPowerRepeat, RepeatP!StopPowerRepeat, Repeat!Halt, RepeatP!Halt,
         Repeat!SetFlag, RepeatP!SetFlag, Repeat!IKOff, RepeatP!IKOff, Repeat!None,
         RepeatP!None, Repeat!Zero, RepeatP!Zero, Repeat!Sides, RepeatP!Sides,
         Repeat!Controllers, RepeatP!Controllers, Repeat!Free, RepeatP!Free, Repeat!Take,
         RepeatP!Take, Repeat!Release, RepeatP!Release, Repeat!Goto, RepeatP!Goto, Repeat!Die,
         RepeatP!Die, Repeat!Reachable, RepeatP!Reachable, Repeat!globals, RepeatP!globals,
         Repeat!stored, RepeatP!stored, Repeat!motors, RepeatP!motors, Repeat!threads,
         RepeatP!threads
<1>4. Repeat!ServerStep => RepeatP!ServerStep
  BY <1>3 DEF Repeat!ServerStep, RepeatP!ServerStep, Repeat!Disconnect, RepeatP!Disconnect,
         Repeat!DriveCheck, RepeatP!DriveCheck, Repeat!DriveWheel, RepeatP!DriveWheel,
         Repeat!IKJoin, RepeatP!IKJoin, Repeat!IKEnable, RepeatP!IKEnable,
         Repeat!IKEnableInvalid, RepeatP!IKEnableInvalid, Repeat!None, RepeatP!None,
         Repeat!Zero, RepeatP!Zero, Repeat!Sides, RepeatP!Sides, Repeat!Controllers,
         RepeatP!Controllers, Repeat!Goto, RepeatP!Goto, Repeat!Die, RepeatP!Die,
         Repeat!Refused, RepeatP!Refused, Repeat!globals, RepeatP!globals, Repeat!stored,
         RepeatP!stored, Repeat!motors, RepeatP!motors, Repeat!threads, RepeatP!threads
<1>5. Repeat!Repeater => RepeatP!Repeater
  BY DEF Repeat!Repeater, RepeatP!Repeater, Repeat!RepLockRunning, RepeatP!RepLockRunning,
         Repeat!RepLockPower, RepeatP!RepLockPower, Repeat!RepJoints, RepeatP!RepJoints,
         Repeat!RepWheel, RepeatP!RepWheel, Repeat!RepWait, RepeatP!RepWait, Repeat!None,
         RepeatP!None, Repeat!Zero, RepeatP!Zero, Repeat!Sides, RepeatP!Sides, Repeat!Free,
         RepeatP!Free, Repeat!Take, RepeatP!Take, Repeat!Reachable, RepeatP!Reachable,
         Repeat!Refused, RepeatP!Refused, Repeat!globals, RepeatP!globals, Repeat!stored,
         RepeatP!stored, Repeat!motors, RepeatP!motors, Repeat!threads, RepeatP!threads
<1>6. Repeat!IKStep => RepeatP!IKStep
  BY DEF Repeat!IKStep, RepeatP!IKStep, Repeat!IKCheck, RepeatP!IKCheck, Repeat!IKSend,
         RepeatP!IKSend, Repeat!IKTarget, RepeatP!IKTarget, Repeat!globals, RepeatP!globals,
         Repeat!stored, RepeatP!stored, Repeat!motors, RepeatP!motors, Repeat!threads,
         RepeatP!threads
<1>7. Repeat!Next => RepeatP!Next
  BY <1>2, <1>3, <1>4, <1>5, <1>6 DEF Repeat!Next, RepeatP!Next
<1>8. [AllNext]_allVars => [RepeatP!Next]_(RepeatP!vars)
  BY <1>7 DEF AllNext, allVars, powerVars, RepeatP!vars, RepeatP!globals, RepeatP!stored,
              RepeatP!motors, RepeatP!threads
<1>9. QED BY <1>1, <1>8, PTL DEF AllSpec, RepeatP!Spec

\* MissionControlProtocol.cpp, kinematic_common_interface.cpp: as long as no heartbeat times
\* out, the wheels stand still while emergency stopped, for any velocities, powers and joints.
THEOREM WheelsStoppedInEstopAlways == AllSpec => []WheelsStoppedInEstop
<1>1. RepeatP!WheelsStoppedInEstop => WheelsStoppedInEstop
  BY DEF WheelsStoppedInEstop, Repeat!WheelsStoppedInEstop, RepeatP!WheelsStoppedInEstop,
         Repeat!Sides, RepeatP!Sides, Repeat!Zero, RepeatP!Zero
<1>2. RepeatP!Spec => []RepeatP!WheelsStoppedInEstop
  BY RepeatValues, RepeatP!EstopStopsWheels
<1>3. QED BY RepeatRuns, <1>1, <1>2, PTL

\* MissionControlProtocol.cpp: as long as no heartbeat times out, while no handler and no
\* repeater is sending both sides stand still or have the velocity that is resent.
THEOREM WheelsAsRequestedAlways == AllSpec => []WheelsAsRequested
<1>1. RepeatP!WheelsAsRequested => WheelsAsRequested
  BY DEF WheelsAsRequested, Repeat!WheelsAsRequested, RepeatP!WheelsAsRequested, Repeat!Sides,
         RepeatP!Sides, Repeat!Zero, RepeatP!Zero, Repeat!None, RepeatP!None, Repeat!Idle,
         RepeatP!Idle, Repeat!Sending, RepeatP!Sending
<1>2. RepeatP!Spec => []RepeatP!WheelsAsRequested
  BY RepeatValues, RepeatP!WheelsAgree
<1>3. QED BY RepeatRuns, <1>1, <1>2, PTL

\* MissionControlProtocol.cpp: as long as no heartbeat times out, no set of threads waits in a
\* circle for mutexes and joins, and no start assigns to the handle of a joinable thread.
THEOREM StopsAreJoinedAlways == AllSpec => []StopsAreJoined
<1>1. RepeatP!NoDeadlock => Repeat!NoDeadlock
  BY DEF Repeat!NoDeadlock, RepeatP!NoDeadlock, Repeat!Controllers, RepeatP!Controllers,
         Repeat!BlockedBy, RepeatP!BlockedBy, Repeat!NeedsMutex, RepeatP!NeedsMutex,
         Repeat!MutexNames, RepeatP!MutexNames, Repeat!None, RepeatP!None
<1>2. RepeatP!NeverTerminates => Repeat!NeverTerminates
  BY DEF Repeat!NeverTerminates, RepeatP!NeverTerminates
<1>3. RepeatP!Spec => []RepeatP!NoDeadlock /\ []RepeatP!NeverTerminates
  BY RepeatValues, RepeatP!NoCircularWait, RepeatP!HandleIsFree
<1>4. QED BY RepeatRuns, <1>1, <1>2, <1>3, PTL DEF StopsAreJoined

(***************************************************************************)
(* CAN telemetry: the theorems of CANTelemetryProofs, for Devices' instance. *)
(***************************************************************************)
CanP == INSTANCE CANTelemetryProofs WITH
  left <- cLeft, Devices <- CanDevices, Types <- CanTypes, Receivers <- {"receiveThread"},
  Clients <- CanClients

\* Can's definitions are those that CANTelemetryProofs proves about.
LEMMA CanRuns == AllSpec => CanP!Spec
<1>1. AllInit => CanP!Init
  BY DEF AllInit, Can!Init, CanP!Init, Can!Keys, CanP!Keys, Can!NoKey, CanP!NoKey, Can!NoID,
         CanP!NoID
<1>2. Can!Next => CanP!Next
  BY DEF Can!Next, CanP!Next, Can!Receiver, CanP!Receiver, Can!Receive, CanP!Receive,
         Can!HasKey, CanP!HasKey, Can!Assign, CanP!Assign, Can!Emplace, CanP!Emplace,
         Can!Invoke, CanP!Invoke, Can!CallOne, CanP!CallOne, Can!CallReturns, CanP!CallReturns,
         Can!Finish, CanP!Finish, Can!CallRemove, CanP!CallRemove, Can!Remove, CanP!Remove,
         Can!Add, CanP!Add, Can!Known, CanP!Known, Can!Listeners, CanP!Listeners, Can!Goto,
         CanP!Goto, Can!receiving, CanP!receiving, Can!clients, CanP!clients, Can!Keys,
         CanP!Keys, Can!NoID, CanP!NoID
<1>3. [AllNext]_allVars => [CanP!Next]_CanP!vars
  BY <1>2 DEF AllNext, allVars, canVars, CanP!vars, CanP!receiving, CanP!clients
<1>4. QED BY <1>1, <1>3, PTL DEF AllSpec, CanP!Spec

\* CAN.cpp: with the one receive thread that initCAN starts, the map holds the latest
\* telemetry of every device and type, a callback finds the value it is called for, and
\* none runs once its removal has returned, for any devices, types and clients.
THEOREM TelemetryIsExactAlways == AllSpec => []TelemetryIsExact
<1>1. CanP!OneReceiver
  BY DEF CanP!OneReceiver
<1>2. CanP!Spec => []CanP!NoCallAfterRemove /\ []CanP!LatestStored /\ []CanP!CallbackSeesItsData
  BY <1>1, CanP!RemovedIsNotCalled, CanP!LatestIsStored, CanP!CallbacksSeeTheirData
<1>3. CanP!NoCallAfterRemove /\ CanP!LatestStored /\ CanP!CallbackSeesItsData => TelemetryIsExact
  BY DEF TelemetryIsExact, Can!NoCallAfterRemove, CanP!NoCallAfterRemove, Can!LatestStored,
         CanP!LatestStored, Can!CallbackSeesItsData, CanP!CallbackSeesItsData,
         Can!GetDeviceTelemetry, CanP!GetDeviceTelemetry, Can!Known, CanP!Known, Can!NoID,
         CanP!NoID, Can!Keys, CanP!Keys
<1>4. QED BY CanRuns, <1>2, <1>3, PTL

(***************************************************************************)
(* Motors, and telemetry pulls.                                            *)
(***************************************************************************)
MotorTyped ==
  /\ nextID \in Nat /\ events \subseteq 0..nextID - 1 /\ toRemove \subseteq events
  /\ mpc \in [{"server", "event"} -> Motor!Labels]
  /\ op \in [{"server", "event"} -> {"power", "pos", "vel", "none"}]
  /\ sched \in {"event", "none"}

\* The events that will still run.
Pending == events \ toRemove

\* The caller's thread knows the one event there is, but while it replaces it; between
\* scheduleEvent and the assignment it is the last id that was given out.
ServerTracks ==
  /\ mpc["server"] \in {"idle", "mode", "set mode", "unschedule", "remove"} => Pending = velEventID
  /\ mpc["server"] = "remove" => velEventID # {}
  /\ mpc["server"] \in {"reset", "schedule", "send"} => Pending = {}
  /\ mpc["server"] \in {"schedule", "assign", "send"} => velEventID = {}
  /\ mpc["server"] = "assign" => Pending = {nextID - 1}

\* The event's thread is in setMotorPos under scheduleMutex only while an event is pending,
\* so never between the removal of one and the next.
EventHolds ==
  /\ mpc["event"] \notin {"reset", "schedule", "assign"}
  /\ mpc["event"] = "idle" => sched = "none"
  /\ mpc["server"] = "dead" => mpc["event"] = "dead"
  /\ mpc["event"] \notin {"idle", "dead"} => sched = "event" /\ op["event"] = "pos" /\ Pending # {}
  /\ mpc["event"] = "remove" => velEventID # {}

MotorInv == MotorTyped /\ ServerTracks /\ EventHolds

LEMMA OnlyTheNewOne ==
  ASSUME NEW A, NEW B, NEW x, B \subseteq A, A \ B = {}, x \notin A
  PROVE  (A \cup {x}) \ B = {x}
OBVIOUS

LEMMA MotorInvInit == Motor!Init => MotorInv
BY DEF Motor!Init, MotorInv, MotorTyped, Motor!Labels, ServerTracks, EventHolds, Pending,
       Motor!Threads, Motor!Callers, Motor!None

LEMMA ServerSchedules ==
  ASSUME MotorInv, Motor!Schedule("server")
  PROVE  MotorInv'
<1>1. /\ sched = "none" /\ events' = events \cup {nextID} /\ nextID' = nextID + 1
      /\ mpc["server"] = "schedule" /\ mpc' = [mpc EXCEPT !["server"] = "assign"]
      /\ UNCHANGED <<velEventID, toRemove, sched, op>>
  BY DEF Motor!Schedule, Motor!At, Motor!Goto, Motor!modes, Motor!None
<1>2. nextID \in Nat /\ nextID \notin events /\ events \subseteq 0..nextID - 1
  BY DEF MotorInv, MotorTyped
<1>3. toRemove \subseteq events /\ events \ toRemove = {} /\ velEventID = {}
  BY <1>1 DEF MotorInv, MotorTyped, ServerTracks, Pending
<1>4. Pending' = {nextID} /\ nextID = nextID' - 1
  <2>1. (events \cup {nextID}) \ toRemove = {nextID}
    BY <1>2, <1>3, OnlyTheNewOne
  <2>2. Pending' = (events \cup {nextID}) \ toRemove
    BY <1>1 DEF Pending
  <2>3. QED BY <1>1, <1>2, <2>1, <2>2
<1>5. /\ mpc' \in [{"server", "event"} -> Motor!Labels]
      /\ mpc'["server"] = "assign" /\ mpc'["event"] = mpc["event"]
  BY <1>1 DEF MotorInv, MotorTyped, Motor!Labels
<1>6. mpc["event"] \in {"idle", "dead"}
  BY <1>1 DEF MotorInv, EventHolds
<1>7. nextID' \in Nat /\ events' \subseteq 0..nextID' - 1
  BY <1>1, <1>2
<1>8. MotorTyped'
  BY <1>1, <1>3, <1>5, <1>7 DEF MotorInv, MotorTyped
<1>9. ServerTracks' /\ EventHolds'
  BY <1>1, <1>3, <1>4, <1>5, <1>6 DEF MotorInv, MotorTyped, ServerTracks, EventHolds
<1>10. QED BY <1>8, <1>9 DEF MotorInv

LEMMA ServerKeepsMotorInv ==
  ASSUME MotorInv, Motor!Call("server") \/ Motor!Step("server")
  PROVE  MotorInv'
<1> USE DEF MotorInv, MotorTyped, Motor!Labels, ServerTracks, EventHolds, Pending,
            Motor!At, Motor!Goto, Motor!Begin, Motor!modes, Motor!schedule, Motor!None
<1>1. CASE Motor!Call("server")
  <2>1. PICK f \in {"power", "pos", "vel"} :
          /\ mpc["server"] = "idle" /\ mpc' = [mpc EXCEPT !["server"] = "mode"]
          /\ op' = [op EXCEPT !["server"] = f]
    BY <1>1 DEF Motor!Call
  <2>2. UNCHANGED <<motor_mode, board, velEventID, events, toRemove, nextID, sched>>
    BY <1>1 DEF Motor!Call
  <2>3. MotorTyped'
    BY <2>1, <2>2
  <2>4. ServerTracks' /\ EventHolds'
    BY <2>1, <2>2
  <2>5. QED BY <2>3, <2>4
<1>2. CASE Motor!EnsureMode("server")
  BY <1>2 DEF Motor!EnsureMode
<1>3. CASE Motor!SetMode("server")
  BY <1>3 DEF Motor!SetMode
<1>4. CASE Motor!Unschedule("server")
  BY <1>4 DEF Motor!Unschedule, Motor!AfterUnschedule
<1>5. CASE Motor!Remove("server")
  <2>1. /\ sched = "none" /\ toRemove' = toRemove \cup velEventID
        /\ mpc' = [mpc EXCEPT !["server"] = "reset"]
        /\ UNCHANGED <<velEventID, events, nextID, sched, op>>
    BY <1>5 DEF Motor!Remove
  <2>2. Pending' = {} /\ toRemove' \subseteq events'
    BY <1>5, <2>1 DEF Motor!Remove
  <2>3. QED BY <2>1, <2>2
<1>6. CASE Motor!Reset("server")
  BY <1>6 DEF Motor!Reset, Motor!AfterUnschedule
<1>7. CASE Motor!Schedule("server")
  BY <1>7, ServerSchedules
<1>8. CASE Motor!Assign("server")
  BY <1>8 DEF Motor!Assign
<1>9. CASE Motor!Send("server")
  BY <1>9 DEF Motor!Send
<1>10. QED BY <1>1, <1>2, <1>3, <1>4, <1>5, <1>6, <1>7, <1>8, <1>9 DEF Motor!Step

LEMMA EventKeepsMotorInv ==
  ASSUME MotorInv, \/ Motor!Step("event")
                   \/ \E e \in events : Motor!PopRemoved(e) \/ Motor!EventDue(e)
  PROVE  MotorInv'
<1> USE DEF MotorInv, MotorTyped, Motor!Labels, ServerTracks, EventHolds, Pending,
            Motor!At, Motor!Goto, Motor!Begin, Motor!modes, Motor!schedule, Motor!None
<1>2. CASE Motor!EnsureMode("event")
  BY <1>2 DEF Motor!EnsureMode
<1>3. CASE Motor!SetMode("event")
  BY <1>3 DEF Motor!SetMode
<1>4. CASE Motor!Unschedule("event")
  BY <1>4 DEF Motor!Unschedule, Motor!AfterUnschedule
<1>5. CASE Motor!Remove("event")
  BY <1>5 DEF Motor!Remove
<1>6. CASE Motor!Reset("event") \/ Motor!Schedule("event") \/ Motor!Assign("event")
  BY <1>6 DEF Motor!Reset, Motor!Schedule, Motor!Assign
<1>9. CASE Motor!Send("event")
  BY <1>9 DEF Motor!Send
<1>10. ASSUME NEW e \in events, Motor!PopRemoved(e)
       PROVE  MotorInv'
  BY <1>10 DEF Motor!PopRemoved
<1>11. ASSUME NEW e \in events, Motor!EventDue(e)
       PROVE  MotorInv'
  <2>1. CASE Motor!Begin("event", "pos")
    BY <1>11, <2>1 DEF Motor!EventDue
  <2>2. CASE Motor!Die
    BY <1>11, <2>2 DEF Motor!EventDue, Motor!Die, Motor!Threads, Motor!Callers
  <2>3. QED BY <1>11, <2>1, <2>2 DEF Motor!EventDue
<1>12. QED BY <1>2, <1>3, <1>4, <1>5, <1>6, <1>9, <1>10, <1>11 DEF Motor!Step

LEMMA MotorInvStep == MotorInv /\ [Motor!Next]_motorVars => MotorInv'
<1>1. ASSUME MotorInv, Motor!EmergencyStop \/ UNCHANGED motorVars
      PROVE  MotorInv'
  BY <1>1 DEF Motor!EmergencyStop, motorVars, Motor!schedule, MotorInv, MotorTyped, ServerTracks,
              EventHolds, Pending
<1>2. QED
  BY <1>1, ServerKeepsMotorInv, EventKeepsMotorInv DEF Motor!Next, Motor!Threads, Motor!Callers

\* Ids are given out in order, and a key is not in the map while it is being scheduled.
PullsInv ==
  /\ tNextID \in Nat /\ live \subseteq 0..tNextID - 1 /\ live \subseteq DOMAIN pulls
  /\ scheduling # "none" => scheduling \notin DOMAIN telemEventIDMap
  /\ Pulls!MapMatchesEvents

LEMMA PullsInvInit == Pulls!Init => PullsInv
BY DEF Pulls!Init, PullsInv, Pulls!MapMatchesEvents, Pulls!Events!Init

LEMMA RemovedIsForgotten ==
  ASSUME PullsInv, NEW k, Pulls!RemoveEventOf(k), UNCHANGED <<tNextID, pulls>>
  PROVE  /\ tNextID' \in Nat /\ live' \subseteq 0..tNextID' - 1 /\ live' \subseteq DOMAIN pulls'
         /\ DOMAIN telemEventIDMap' = DOMAIN telemEventIDMap \ {k}
         /\ Pulls!MapMatchesEvents'
<1>1. /\ DOMAIN telemEventIDMap' = DOMAIN telemEventIDMap \ {k}
      /\ \A j \in DOMAIN telemEventIDMap' : telemEventIDMap'[j] = telemEventIDMap[j]
  BY DEF Pulls!RemoveEventOf, Pulls!Forget, Pulls!Restrict
<1>2. live' = live \ {telemEventIDMap[k]} /\ k \in DOMAIN telemEventIDMap
  BY DEF Pulls!RemoveEventOf, Pulls!Events!Remove
<1>3. QED BY <1>1, <1>2 DEF PullsInv, Pulls!MapMatchesEvents

LEMMA PullsInvStep == PullsInv /\ [Pulls!Next]_pullVars => PullsInv'
<1> SUFFICES ASSUME PullsInv, [Pulls!Next]_pullVars
             PROVE  PullsInv'
  OBVIOUS
<1> USE DEF PullsInv
<1>1. ASSUME NEW k \in PullKeys, Pulls!BeginSchedule(k)
      PROVE  PullsInv'
  <2>1. CASE k \in DOMAIN telemEventIDMap
    BY <1>1, <2>1, RemovedIsForgotten DEF Pulls!BeginSchedule, Pulls!Replace
  <2>2. CASE k \notin DOMAIN telemEventIDMap
    BY <1>1, <2>2 DEF Pulls!BeginSchedule, Pulls!Replace, Pulls!events, Pulls!MapMatchesEvents
  <2>3. QED BY <2>1, <2>2
<1>2. ASSUME NEW k \in PullKeys, Pulls!Unschedule(k)
      PROVE  PullsInv'
  BY <1>2, RemovedIsForgotten DEF Pulls!Unschedule, Pulls!NoKey
<1>3. CASE Pulls!EndSchedule
  <2>1. /\ live' = live \cup {tNextID} /\ tNextID' = tNextID + 1 /\ tNextID \notin live
        /\ scheduling \notin DOMAIN telemEventIDMap /\ scheduling' = "none"
    BY <1>3 DEF Pulls!EndSchedule, Pulls!Events!Schedule, Pulls!NoKey
  <2>2. /\ DOMAIN pulls' = DOMAIN pulls \cup {tNextID} /\ pulls'[tNextID] = scheduling
        /\ \A id \in live : pulls'[id] = pulls[id]
    BY <1>3, <2>1 DEF Pulls!EndSchedule
  <2>3. /\ DOMAIN telemEventIDMap' = DOMAIN telemEventIDMap \cup {scheduling}
        /\ telemEventIDMap'[scheduling] = tNextID
        /\ \A k \in DOMAIN telemEventIDMap : telemEventIDMap'[k] = telemEventIDMap[k]
    BY <1>3, <2>1 DEF Pulls!EndSchedule
  <2>4. Pulls!MapMatchesEvents'
    BY <2>1, <2>2, <2>3 DEF Pulls!MapMatchesEvents
  <2>5. QED BY <2>1, <2>2, <2>4
<1>4. CASE Pulls!UnscheduleAll
  BY <1>4 DEF Pulls!UnscheduleAll, Pulls!Events!Clear, Pulls!NoKey, Pulls!MapMatchesEvents
<1>5. CASE Pulls!EventReturns \/ (\E id \in live : Pulls!RunEvent(id)) \/ UNCHANGED pullVars
  BY <1>5 DEF Pulls!EventReturns, Pulls!RunEvent, Pulls!Events!Run, Pulls!Events!Return,
              pullVars, Pulls!MapMatchesEvents
<1>6. QED BY <1>1, <1>2, <1>3, <1>4, <1>5 DEF Pulls!Next

\* base_motor.cpp, can_motor.cpp, CAN.cpp: the velocity event and the map of pull events
\* agree with the schedulers', for any keys and any number of events.
THEOREM EventsAreTrackedAlways == AllSpec => []EventsAreTracked
<1>1. AllInit => MotorInv /\ PullsInv
  BY MotorInvInit, PullsInvInit DEF AllInit
<1>2. [AllNext]_allVars => [Motor!Next]_motorVars /\ [Pulls!Next]_pullVars
  BY DEF AllNext, allVars
<1>3. MotorInv /\ PullsInv /\ [AllNext]_allVars => (MotorInv /\ PullsInv)'
  BY <1>2, MotorInvStep, PullsInvStep
<1>4. MotorInv => Motor!OneVelocityEvent
  BY DEF MotorInv, ServerTracks, Pending, Motor!OneVelocityEvent, Motor!At, Motor!Callers
<1>5. MotorInv => Motor!RemovesScheduled
  <2>1. ASSUME MotorInv, mpc["event"] = "remove"
        PROVE  velEventID = Pending
    BY <2>1 DEF MotorInv, MotorTyped, Motor!Labels, ServerTracks, EventHolds
  <2>2. ASSUME MotorInv, mpc["server"] = "remove"
        PROVE  velEventID = Pending
    BY <2>2 DEF MotorInv, ServerTracks
  <2>3. ASSUME MotorInv, NEW t \in Motor!Threads, mpc[t] = "remove"
        PROVE  velEventID \subseteq events \ toRemove
    <3>1. t = "server" \/ t = "event"
      BY DEF Motor!Threads, Motor!Callers
    <3>2. QED BY <2>1, <2>2, <2>3, <3>1 DEF Pending
  <2>4. QED BY <2>3 DEF Motor!RemovesScheduled, Motor!At
<1>6. MotorInv /\ PullsInv => EventsAreTracked
  BY <1>4, <1>5 DEF PullsInv, EventsAreTracked
<1>7. QED BY <1>1, <1>3, <1>6, PTL DEF AllSpec

(***************************************************************************)
(* The simulator's registry of callbacks.                                  *)
(***************************************************************************)
\* Ids are not given out twice, and the callback of a user is the one user's; the two maps
\* agree on it.
RegistryInv ==
  /\ sNextID \in Nat
  /\ sMine \in [SimUsers -> (0..sNextID - 1) \cup {-1}]
  /\ \A u, v \in SimUsers : sMine[u] = sMine[v] /\ sMine[u] # -1 => u = v
  /\ \A m \in DOMAIN limitSwitchCallbackMap :
       /\ limitSwitchCallbackMap[m] # {}
       /\ \A id \in limitSwitchCallbackMap[m] :
            /\ id \in DOMAIN lsCallbackToMotorMap /\ lsCallbackToMotorMap[id] = m
            /\ id # -1 /\ \E u \in SimUsers : sMine[u] = id
  /\ \A u \in SimUsers : sMine[u] # -1 =>
       /\ sMine[u] \in DOMAIN lsCallbackToMotorMap
       /\ lsCallbackToMotorMap[sMine[u]] \in DOMAIN limitSwitchCallbackMap
       /\ sMine[u] \in limitSwitchCallbackMap[lsCallbackToMotorMap[sMine[u]]]

LEMMA RegistryInvInit == Sim!Init => RegistryInv
BY DEF Sim!Init, RegistryInv, Sim!NoID

LEMMA AddKeepsRegistry ==
  ASSUME RegistryInv, NEW u \in SimUsers, NEW m \in SimMotors, Sim!Add(u, m)
  PROVE  RegistryInv'
<1> DEFINE map == limitSwitchCallbackMap
           ls == lsCallbackToMotorMap
<1>1. /\ sMine[u] = -1 /\ sNextID' = sNextID + 1 /\ sMine' = [sMine EXCEPT ![u] = sNextID]
      /\ sNextID \in Nat
  BY DEF Sim!Add, Sim!NoID, RegistryInv
<1>2. /\ DOMAIN ls' = DOMAIN ls \cup {sNextID} /\ ls'[sNextID] = m
      /\ \A id \in DOMAIN ls : id # sNextID => ls'[id] = ls[id]
  BY DEF Sim!Add
<1>3. /\ DOMAIN map' = DOMAIN map \cup {m}
      /\ \A n \in DOMAIN map : n # m => map'[n] = map[n]
      /\ map'[m] = (IF m \in DOMAIN map THEN map[m] ELSE {}) \cup {sNextID}
  BY DEF Sim!Add, Sim!WithCallback
<1> HIDE DEF map, ls
<1>4. \A v \in SimUsers : sMine[v] # sNextID /\ (v # u => sMine'[v] = sMine[v])
  BY <1>1 DEF RegistryInv
<1>5. sMine' \in [SimUsers -> (0..sNextID' - 1) \cup {-1}] /\ sMine'[u] = sNextID
  BY <1>1 DEF RegistryInv
<1>6. \A n \in DOMAIN map' : \A id \in map'[n] :
        \/ id = sNextID /\ n = m
        \/ n \in DOMAIN map /\ id \in map[n] /\ id # sNextID
  BY <1>3, <1>4 DEF RegistryInv, map
<1>7. \A n \in DOMAIN map' : map'[n] # {}
  BY <1>3 DEF RegistryInv, map
<1>8. \A n \in DOMAIN map' : \A id \in map'[n] :
        id \in DOMAIN ls' /\ ls'[id] = n /\ id # -1 /\ \E v \in SimUsers : sMine'[v] = id
  <2> TAKE n \in DOMAIN map'
  <2> TAKE id \in map'[n]
  <2>2. CASE id = sNextID /\ n = m
    BY <1>1, <1>2, <1>5, <2>2
  <2>3. CASE n \in DOMAIN map /\ id \in map[n] /\ id # sNextID
    <3>1. id \in DOMAIN ls /\ ls[id] = n /\ id # -1
      BY <2>3 DEF RegistryInv, map, ls
    <3>2. PICK v \in SimUsers : sMine[v] = id
      BY <2>3 DEF RegistryInv, map
    <3>3. QED BY <1>1, <1>2, <1>4, <2>3, <3>1, <3>2
  <2>4. QED BY <1>6, <2>2, <2>3
<1>9. \A v \in SimUsers : sMine'[v] # -1 =>
        /\ sMine'[v] \in DOMAIN ls'
        /\ ls'[sMine'[v]] \in DOMAIN map'
        /\ sMine'[v] \in map'[ls'[sMine'[v]]]
  <2> TAKE v \in SimUsers
  <2>2. CASE v = u
    BY <1>2, <1>3, <1>5, <2>2
  <2>3. CASE v # u /\ sMine[v] # -1
    <3>1. sMine[v] \in DOMAIN ls /\ ls[sMine[v]] \in DOMAIN map /\ sMine[v] \in map[ls[sMine[v]]]
      BY <2>3 DEF RegistryInv, map, ls
    <3>2. QED BY <1>2, <1>3, <1>4, <2>3, <3>1
  <2>4. QED BY <1>4, <2>2, <2>3
<1>10. \A v, w \in SimUsers : sMine'[v] = sMine'[w] /\ sMine'[v] # -1 => v = w
  BY <1>1, <1>4, <1>5 DEF RegistryInv
<1>11. QED BY <1>1, <1>5, <1>7, <1>8, <1>9, <1>10 DEF RegistryInv, map, ls

LEMMA RemoveKeepsRegistry ==
  ASSUME RegistryInv, NEW u \in SimUsers, Sim!Remove(u)
  PROVE  RegistryInv'
<1> DEFINE map == limitSwitchCallbackMap
           ls == lsCallbackToMotorMap
           gone == sMine[u]
           m == ls[gone]
<1>1. /\ gone # -1 /\ sMine' = [sMine EXCEPT ![u] = -1] /\ UNCHANGED <<ls, sNextID>>
  BY DEF Sim!Remove, Sim!NoID
<1>2. m \in DOMAIN map /\ gone \in map[m]
  BY <1>1 DEF RegistryInv
<1>3. /\ DOMAIN map' \subseteq DOMAIN map
      /\ \A n \in DOMAIN map : n # m => n \in DOMAIN map' /\ map'[n] = map[n]
      /\ m \in DOMAIN map' => map'[m] = map[m] \ {gone} /\ map[m] # {gone}
      /\ m \notin DOMAIN map' => map[m] = {gone}
  <2>1. CASE map[m] = {gone}
    BY <1>2, <2>1 DEF Sim!Remove, Sim!Emptied, Sim!Restrict
  <2>2. CASE map[m] # {gone}
    BY <1>2, <2>2 DEF Sim!Remove, Sim!Emptied
  <2>3. QED BY <2>1, <2>2
<1>4. /\ \A v \in SimUsers \ {u} : sMine'[v] = sMine[v] /\ sMine[v] # gone
      /\ sMine'[u] = -1 /\ sMine' \in [SimUsers -> (0..sNextID' - 1) \cup {-1}]
  BY <1>1 DEF RegistryInv
<1>5. \A n \in DOMAIN map : \A id \in map[n] :
        ls[id] = n /\ id \in DOMAIN ls /\ id # -1 /\ \E v \in SimUsers : sMine[v] = id
  BY DEF RegistryInv
<1>6. \A v \in SimUsers : sMine[v] # -1 =>
        sMine[v] \in DOMAIN ls /\ ls[sMine[v]] \in DOMAIN map /\ sMine[v] \in map[ls[sMine[v]]]
  BY DEF RegistryInv
<1>a. \A n \in DOMAIN map : map[n] # {}
  BY DEF RegistryInv
<1> HIDE DEF map, ls, gone, m
<1>7. \A n \in DOMAIN map' :
        map'[n] # {} /\ \A id \in map'[n] : n \in DOMAIN map /\ id \in map[n] /\ id # gone
  <2> TAKE n \in DOMAIN map'
  <2>2. CASE n = m
    BY <1>2, <1>3, <2>2
  <2>3. CASE n # m
    <3>1. n \in DOMAIN map /\ map'[n] = map[n] /\ map[n] # {}
      BY <1>3, <1>a, <2>3
    <3>2. gone \notin map[n]
      BY <1>5, <2>3, <3>1 DEF m
    <3>3. QED BY <3>1, <3>2
  <2>4. QED BY <2>2, <2>3
<1>8. \A n \in DOMAIN map' : \A id \in map'[n] :
        ls'[id] = n /\ id \in DOMAIN ls' /\ id # -1 /\ \E v \in SimUsers : sMine'[v] = id
  <2> TAKE n \in DOMAIN map'
  <2> TAKE id \in map'[n]
  <2>2. n \in DOMAIN map /\ id \in map[n] /\ id # gone
    BY <1>7
  <2>3. PICK v \in SimUsers : sMine[v] = id
    BY <1>5, <2>2
  <2>4. sMine'[v] = id
    BY <1>4, <2>2, <2>3 DEF gone
  <2>5. QED BY <1>1, <1>5, <2>2, <2>4
<1>9. \A v \in SimUsers : sMine'[v] # -1 =>
        /\ sMine'[v] \in DOMAIN ls'
        /\ ls'[sMine'[v]] \in DOMAIN map'
        /\ sMine'[v] \in map'[ls'[sMine'[v]]]
  <2>1. SUFFICES ASSUME NEW v \in SimUsers, sMine'[v] # -1
                 PROVE  /\ sMine'[v] \in DOMAIN ls'
                        /\ ls'[sMine'[v]] \in DOMAIN map'
                        /\ sMine'[v] \in map'[ls'[sMine'[v]]]
    OBVIOUS
  <2>2. v # u /\ sMine'[v] = sMine[v] /\ sMine[v] # gone
    BY <1>4, <2>1
  <2>3. sMine[v] \in DOMAIN ls /\ ls[sMine[v]] \in DOMAIN map /\ sMine[v] \in map[ls[sMine[v]]]
    BY <1>6, <2>1, <2>2
  <2>4. QED BY <1>1, <1>3, <2>2, <2>3
<1>10. \A v, w \in SimUsers : sMine'[v] = sMine'[w] /\ sMine'[v] # -1 => v = w
  BY <1>4 DEF RegistryInv
<1>11. QED BY <1>1, <1>4, <1>7, <1>8, <1>9, <1>10 DEF RegistryInv, map, ls

LEMMA RegistryInvStep == RegistryInv /\ [Sim!Next]_simVars => RegistryInv'
<1>1. ASSUME UNCHANGED <<limitSwitchCallbackMap, lsCallbackToMotorMap, sNextID, sMine>>, RegistryInv
      PROVE  RegistryInv'
  BY <1>1 DEF RegistryInv
<1>2. ASSUME Sim!Next
      PROVE  \/ UNCHANGED <<limitSwitchCallbackMap, lsCallbackToMotorMap, sNextID, sMine>>
             \/ \E u \in SimUsers : Sim!Remove(u) \/ \E m \in SimMotors : Sim!Add(u, m)
  BY <1>2 DEF Sim!Next, Sim!ClientConnected, Sim!ClientDisconnected, Sim!Main, Sim!EndWait,
              Sim!InitCameras, Sim!InitMotors, Sim!EndAlert, Sim!HandleLimitSwitch, Sim!CallOne,
              Sim!registry
<1>3. QED BY <1>1, <1>2, AddKeepsRegistry, RemoveKeepsRegistry DEF simVars

\* simulator_interface.cpp: the registry of limit switch callbacks holds those that were
\* added and not removed, for their motors, for any motors and users.
THEOREM RegistryIsExactAlways == AllSpec => []RegistryIsExact
<1>1. AllInit => RegistryInv
  BY RegistryInvInit DEF AllInit
<1>2. [AllNext]_allVars => [Sim!Next]_simVars
  BY DEF AllNext, allVars
<1>3. RegistryInv /\ [AllNext]_allVars => RegistryInv'
  BY <1>2, RegistryInvStep
<1>4. RegistryInv => RegistryIsExact
  <2>1. ASSUME RegistryInv, NEW id
        PROVE  (\E m \in DOMAIN limitSwitchCallbackMap : id \in limitSwitchCallbackMap[m])
               <=> (id # -1 /\ \E u \in SimUsers : sMine[u] = id)
    BY <2>1 DEF RegistryInv
  <2>2. QED BY <2>1 DEF RegistryInv, RegistryIsExact, Sim!RegistryIsExact, Sim!NoID
<1>5. QED BY <1>1, <1>3, <1>4, PTL DEF AllSpec

(***************************************************************************)
(* Cameras.                                                                *)
(***************************************************************************)
ReaderStates ==
  [at : {"idle", "next", "frame", "number"}, last : Int, frame : Int, num : Int, time : Int]
FrameTyped ==
  /\ captured \in Int /\ frame \in Int /\ frameNum \in Int /\ fTime \in Int
  /\ reader \in [CamReaders -> ReaderStates]
  /\ fPhase = "new" => fThread = "none"

\* Frames are counted as they are stored, one behind the device until then.
Counted ==
  /\ captured = IF fThread \in {"store", "count"} THEN frameNum + 1 ELSE frameNum
  /\ fTime = frameNum
  /\ frame = IF fThread = "count" THEN captured ELSE frameNum

\* The lock is held by who is between two parts of a store or of a copy.
FrameLockHeld ==
  /\ frameLock = "thread" <=> fThread = "count"
  /\ \A r \in CamReaders : frameLock = r <=> reader[r].at = "number"

\* What a reader has copied is the frame that is stored now, or a whole one.
Copied ==
  \A r \in CamReaders :
    IF reader[r].at = "number" THEN reader[r].frame = frame
    ELSE reader[r].num = reader[r].frame /\ reader[r].time = reader[r].frame

FrameInv == FrameTyped /\ Counted /\ FrameLockHeld /\ Copied

LEMMA FrameInvInit == Camera!Init => FrameInv
BY CamReadersAssumption
   DEF Camera!Init, FrameInv, FrameTyped, ReaderStates, Counted, FrameLockHeld, Copied, Camera!None

LEMMA ThreadKeepsFrameInv ==
  ASSUME FrameInv, Camera!Thread
  PROVE  FrameInv'
<1> USE CamReadersAssumption
    DEF FrameInv, FrameTyped, Counted, FrameLockHeld, Copied, Camera!Goto, Camera!None, Camera!feed
<1>1. CASE Camera!SetProperties
  BY <1>1 DEF Camera!SetProperties
<1>2. CASE Camera!Test
  BY <1>2 DEF Camera!Test
<1>3. ASSUME NEW success \in BOOLEAN, Camera!Capture(success)
      PROVE  FrameInv'
  <2>1. CASE success = TRUE
    BY <1>3, <2>1 DEF Camera!Capture
  <2>2. CASE success = FALSE
    BY <1>3, <2>2 DEF Camera!Capture
  <2>3. QED BY <2>1, <2>2
<1>4. CASE Camera!StoreFrame
  BY <1>4 DEF Camera!StoreFrame
<1>5. CASE Camera!CountFrame
  BY <1>5 DEF Camera!CountFrame
<1>6. QED BY <1>1, <1>2, <1>3, <1>4, <1>5 DEF Camera!Thread

LEMMA CopyFrameKeepsInv ==
  ASSUME FrameInv, NEW r \in CamReaders, Camera!CopyFrame(r)
  PROVE  FrameInv'
<1>1. /\ frameLock = "none" /\ frameLock' = r
      /\ UNCHANGED <<fPhase, fThread, captured, frame, frameNum, fTime>>
      /\ reader' = [reader EXCEPT ![r].at = "number", ![r].frame = frame]
  BY DEF Camera!CopyFrame, Camera!None, Camera!feed
<1>2. reader \in [CamReaders -> ReaderStates] /\ frame \in Int
  BY DEF FrameInv, FrameTyped
<1>3. /\ reader'[r] = [reader[r] EXCEPT !.at = "number", !.frame = frame]
      /\ DOMAIN reader' = CamReaders /\ \A s \in CamReaders \ {r} : reader'[s] = reader[s]
      /\ reader' = [reader EXCEPT ![r] = reader'[r]]
  BY <1>1, <1>2
<1>4. reader'[r] \in ReaderStates /\ reader'[r].at = "number" /\ reader'[r].frame = frame
  <2>1. reader[r] \in ReaderStates
    BY <1>2
  <2>2. QED BY <1>2, <1>3, <2>1 DEF ReaderStates
<1>5. FrameTyped' /\ Counted'
  BY <1>1, <1>2, <1>3, <1>4 DEF FrameInv, FrameTyped, Counted
<1>6. FrameLockHeld'
  BY <1>1, <1>3, <1>4, CamReadersAssumption DEF FrameInv, FrameLockHeld
<1>7. Copied'
  BY <1>1, <1>3, <1>4 DEF FrameInv, Copied
<1>8. QED BY <1>5, <1>6, <1>7 DEF FrameInv

LEMMA CopyNumberKeepsInv ==
  ASSUME FrameInv, NEW r \in CamReaders, Camera!CopyNumber(r)
  PROVE  FrameInv'
<1>1. /\ reader[r].at = "number" /\ frameLock' = "none"
      /\ UNCHANGED <<fPhase, fThread, captured, frame, frameNum, fTime>>
      /\ reader' = [reader EXCEPT ![r].at = "idle", ![r].last = frameNum, ![r].num = frameNum,
                                  ![r].time = fTime]
  BY DEF Camera!CopyNumber, Camera!None, Camera!feed
<1>2. reader \in [CamReaders -> ReaderStates] /\ frameNum \in Int /\ fTime \in Int
  BY DEF FrameInv, FrameTyped
<1>3. /\ reader'[r] = [reader[r] EXCEPT !.at = "idle", !.last = frameNum, !.num = frameNum,
                                        !.time = fTime]
      /\ DOMAIN reader' = CamReaders /\ \A s \in CamReaders \ {r} : reader'[s] = reader[s]
      /\ reader' = [reader EXCEPT ![r] = reader'[r]]
  BY <1>1, <1>2
<1>4. /\ reader'[r] \in ReaderStates /\ reader'[r].at = "idle"
      /\ reader'[r].frame = reader[r].frame /\ reader'[r].num = frameNum /\ reader'[r].time = fTime
  <2>1. reader[r] \in ReaderStates
    BY <1>2
  <2>2. QED BY <1>2, <1>3, <2>1 DEF ReaderStates
<1>5. /\ frameLock = r /\ fThread # "count"
      /\ \A s \in CamReaders \ {r} : reader[s].at # "number"
  BY <1>1, CamReadersAssumption DEF FrameInv, FrameLockHeld
<1>6. FrameTyped' /\ Counted'
  BY <1>1, <1>2, <1>3, <1>4 DEF FrameInv, FrameTyped, Counted
<1>7. FrameLockHeld'
  BY <1>1, <1>3, <1>4, <1>5, CamReadersAssumption DEF FrameLockHeld
<1>8. frame = frameNum /\ fTime = frameNum /\ reader[r].frame = frame
  BY <1>1, <1>5 DEF FrameInv, Counted, Copied
<1>9. Copied'
  BY <1>1, <1>3, <1>4, <1>8 DEF FrameInv, Copied
<1>10. QED BY <1>6, <1>7, <1>9 DEF FrameInv

LEMMA ReaderKeepsFrameInv ==
  ASSUME FrameInv, NEW r \in CamReaders, Camera!HasNext(r) \/ Camera!GetNext(r)
  PROVE  FrameInv'
<1> USE CamReadersAssumption
    DEF FrameInv, FrameTyped, Counted, FrameLockHeld, Copied, Camera!None, Camera!feed, ReaderStates
<1>1. CASE Camera!HasNext(r)
  BY <1>1 DEF Camera!HasNext
<1>2. CASE Camera!IsOpen(r)
  BY <1>2 DEF Camera!IsOpen
<1>3. QED BY <1>1, <1>2, CopyFrameKeepsInv, CopyNumberKeepsInv DEF Camera!GetNext

LEMMA FrameInvStep == FrameInv /\ [Camera!Next]_feedVars => FrameInv'
<1>1. ASSUME FrameInv, UNCHANGED <<captured, frame, frameNum, fTime, frameLock, reader>>,
             \/ fPhase = "new" /\ fThread' \in {"none", "set"} /\ fPhase' # "new"
             \/ UNCHANGED fThread /\ (fPhase' = "new" => fPhase = "new")
      PROVE  FrameInv'
  BY <1>1 DEF FrameInv, FrameTyped, Counted, FrameLockHeld, Copied
<1>2. ASSUME FrameInv, NEW cfg, NEW ok, Camera!OpenCamera(cfg, ok)
      PROVE  FrameInv'
  <2>1. /\ fPhase = "new" /\ fThread = "none"
        /\ UNCHANGED <<captured, frame, frameNum, fTime, frameLock, reader>>
    BY <1>2 DEF Camera!OpenCamera, Camera!feed, FrameInv, FrameTyped
  <2>2. fThread' = fThread \/ fThread' = "set"
    BY <1>2 DEF Camera!OpenCamera, Camera!OpenFromConfigFile, Camera!Open
  <2>3. fPhase' # "new"
    BY <1>2, Zenon DEF Camera!OpenCamera
  <2>4. QED BY <1>1, <1>2, <2>1, <2>2, <2>3
<1>3. ASSUME FrameInv, NEW ok, Camera!Construct(ok)
      PROVE  FrameInv'
  BY <1>1, <1>3 DEF Camera!Construct, Camera!feed
<1>4. ASSUME FrameInv, \/ Camera!Release \/ Camera!Join \/ UNCHANGED feedVars
                       \/ \E flag \in BOOLEAN : Camera!Delete(flag)
      PROVE  FrameInv'
  BY <1>1, <1>4 DEF Camera!Release, Camera!Join, Camera!Delete, Camera!feed, feedVars
<1>5. QED BY <1>2, <1>3, <1>4, ThreadKeepsFrameInv, ReaderKeepsFrameInv
          DEF Camera!Next, Camera!Read, Camera!HasNewCameraFrame, Camera!ReadCamera, Camera!Destroy

\* A reader is behind the frame it is about to copy.
Newer ==
  \A r \in CamReaders :
    /\ reader[r].last <= frameNum
    /\ reader[r].at \in {"next", "frame", "number"} => reader[r].last < frameNum

LEMMA NewerInit == Camera!Init => Newer
BY DEF Camera!Init, Newer

LEMMA ReaderKeepsNewer ==
  ASSUME FrameInv, Newer, NEW r \in CamReaders, Camera!HasNext(r) \/ Camera!GetNext(r)
  PROVE  Newer'
<1>a. reader \in [CamReaders -> ReaderStates] /\ frameNum \in Int /\ reader[r] \in ReaderStates
  BY DEF FrameInv, FrameTyped
<1>b. frameNum' = frameNum
  BY DEF Camera!HasNext, Camera!GetNext, Camera!IsOpen, Camera!CopyFrame, Camera!CopyNumber,
         Camera!feed
<1>c. ASSUME NEW st, reader' = [reader EXCEPT ![r] = st], st.last <= frameNum,
             st.at \in {"next", "frame", "number"} => st.last < frameNum
      PROVE  Newer'
  BY <1>a, <1>b, <1>c DEF Newer
<1>d. reader[r].last \in Int /\ reader[r].last <= frameNum
  BY <1>a DEF Newer, ReaderStates
<1>1. CASE Camera!HasNext(r)
  <2> DEFINE at == IF reader[r].last # frameNum THEN "next" ELSE "idle"
             st == [reader[r] EXCEPT !.at = at]
  <2>1. reader' = [reader EXCEPT ![r] = st]
    BY <1>1 DEF Camera!HasNext
  <2>2. st.at = at /\ st.last = reader[r].last
    BY <1>a DEF ReaderStates
  <2>3. st.last <= frameNum /\ (at = "next" => st.last < frameNum)
    BY <1>a, <1>d, <2>2
  <2>4. at \in {"next", "idle"}
    OBVIOUS
  <2> HIDE DEF at, st
  <2>5. QED BY <1>c, <2>1, <2>2, <2>3, <2>4
<1>2. CASE Camera!IsOpen(r)
  <2> DEFINE at == IF fRunning THEN "frame" ELSE "idle"
             st == [reader[r] EXCEPT !.at = at]
  <2>1. reader' = [reader EXCEPT ![r] = st] /\ reader[r].at = "next"
    BY <1>2 DEF Camera!IsOpen
  <2>2. st.at = at /\ st.last = reader[r].last
    BY <1>a DEF ReaderStates
  <2>3. reader[r].last < frameNum
    BY <2>1 DEF Newer
  <2>4. QED BY <1>c, <1>d, <2>1, <2>2, <2>3
<1>3. CASE Camera!CopyFrame(r)
  <2> DEFINE st == [reader[r] EXCEPT !.at = "number", !.frame = frame]
  <2>1. reader' = [reader EXCEPT ![r] = st] /\ reader[r].at = "frame"
    BY <1>3 DEF Camera!CopyFrame
  <2>2. st.at = "number" /\ st.last = reader[r].last
    BY <1>a DEF ReaderStates
  <2>3. reader[r].last < frameNum
    BY <2>1 DEF Newer
  <2>4. QED BY <1>c, <1>d, <2>1, <2>2, <2>3
<1>4. CASE Camera!CopyNumber(r)
  <2> DEFINE st == [reader[r] EXCEPT !.at = "idle", !.last = frameNum, !.num = frameNum,
                                     !.time = fTime]
  <2>1. reader' = [reader EXCEPT ![r] = st]
    BY <1>4 DEF Camera!CopyNumber
  <2>2. st.at = "idle" /\ st.last = frameNum
    BY <1>a DEF ReaderStates
  <2>3. st.last <= frameNum
    BY <1>a, <2>2
  <2> HIDE DEF st
  <2>4. QED BY <1>c, <2>1, <2>2, <2>3
<1>5. QED BY <1>1, <1>2, <1>3, <1>4 DEF Camera!GetNext

LEMMA NewerStep == FrameInv /\ Newer /\ [Camera!Next]_feedVars => Newer'
<1> SUFFICES ASSUME FrameInv, Newer, [Camera!Next]_feedVars
             PROVE  Newer'
  OBVIOUS
<1>a. reader \in [CamReaders -> ReaderStates] /\ frameNum \in Int
  BY DEF FrameInv, FrameTyped
<1>b. ASSUME reader' = reader, frameNum' \in {frameNum, frameNum + 1}
      PROVE  Newer'
  <2>1. \A r \in CamReaders : reader[r].last \in Int
    BY <1>a DEF ReaderStates
  <2>2. QED BY <1>a, <1>b, <2>1 DEF Newer
<1>1. CASE Camera!Thread
  BY <1>b, <1>1 DEF Camera!Thread, Camera!SetProperties, Camera!Test, Camera!Capture,
                    Camera!StoreFrame, Camera!CountFrame, Camera!feed
<1>2. ASSUME NEW cfg, NEW ok, Camera!OpenCamera(cfg, ok)
      PROVE  Newer'
  BY <1>b, <1>2 DEF Camera!OpenCamera, Camera!feed
<1>3. ASSUME NEW ok, Camera!Construct(ok)
      PROVE  Newer'
  BY <1>b, <1>3 DEF Camera!Construct, Camera!feed
<1>4. CASE Camera!Release \/ Camera!Destroy \/ UNCHANGED feedVars
  BY <1>b, <1>4 DEF Camera!Release, Camera!Destroy, Camera!Delete, Camera!Join, Camera!feed,
                    feedVars
<1>5. QED BY <1>1, <1>2, <1>3, <1>4, ReaderKeepsNewer
          DEF Camera!Next, Camera!Read, Camera!HasNewCameraFrame, Camera!ReadCamera

LEMMA GivesNewer ==
  ASSUME FrameInv, Newer, [Camera!Next]_feedVars, NEW r \in CamReaders,
         reader'[r].at = "idle", reader[r].at = "number"
  PROVE  reader'[r].num > reader[r].last
<1>1. PICK s \in CamReaders : Camera!HasNext(s) \/ Camera!GetNext(s)
  BY DEF Camera!Next, Camera!Read, Camera!HasNewCameraFrame, Camera!ReadCamera, Camera!Thread,
         Camera!SetProperties, Camera!Test, Camera!Capture, Camera!StoreFrame, Camera!CountFrame,
         Camera!OpenCamera, Camera!Construct, Camera!Release, Camera!Destroy, Camera!Delete,
         Camera!Join, Camera!feed, feedVars
<1>2. reader \in [CamReaders -> ReaderStates] /\ reader[r] \in ReaderStates
  BY DEF FrameInv, FrameTyped
<1>3. s = r
  <2>1. ASSUME s # r
        PROVE  reader'[r] = reader[r]
    BY <1>1, <1>2, <2>1 DEF Camera!HasNext, Camera!GetNext, Camera!IsOpen, Camera!CopyFrame,
                            Camera!CopyNumber
  <2>2. QED BY <2>1
<1>4. Camera!CopyNumber(r)
  BY <1>1, <1>3 DEF Camera!HasNext, Camera!GetNext, Camera!IsOpen, Camera!CopyFrame
<1>5. reader'[r] = [reader[r] EXCEPT !.at = "idle", !.last = frameNum, !.num = frameNum,
                                     !.time = fTime]
  BY <1>2, <1>4 DEF Camera!CopyNumber
<1>6. reader'[r].num = frameNum
  BY <1>2, <1>5 DEF ReaderStates
<1>7. QED
  BY <1>2, <1>6 DEF Newer, ReaderStates, FrameInv, FrameTyped

(***************************************************************************)
(* Video streams.                                                          *)
(***************************************************************************)
\* A stream has an encoder, and has sent nothing that its camera has not given.
Sent(c) ==
  /\ openStreams[c] \in Nat
  /\ vLatest[c] = Video!NoFrame => openStreams[c] = 0
  /\ vLatest[c] # Video!NoFrame => vLatest[c] >= openStreams[c]

\* Streams are opened and closed between the task's passes only.
VideoInv ==
  /\ vLatest \in [Cams -> Int] /\ \A c \in Cams : vLatest[c] = Video!NoFrame \/ vLatest[c] >= 0
  /\ server = Video!Idle \/ server \in {"open", "close"} \X Cams
  /\ DOMAIN openStreams = encoders /\ encoders \subseteq Cams
  /\ \A c \in encoders : Sent(c)
  /\ openStreams = [c \in encoders |-> openStreams[c]]
  /\ streamer \in {"top", "pass", "send", "exited"}
  /\ streamer \in {"pass", "send"} => vLeft \subseteq encoders
  /\ streamer = "send" =>
       cam \in encoders /\ vLatest[cam] # Video!NoFrame /\ vLatest[cam] > openStreams[cam]

LEMMA VideoInvInit == Video!Init => VideoInv
BY DEF Video!Init, VideoInv, Video!NoFrame, Video!Idle

LEMMA NewFrameKeeps ==
  ASSUME VideoInv, NEW c \in Cams, Video!NewFrame(c)
  PROVE  VideoInv'
<1>1. UNCHANGED <<openStreams, encoders, server, streamer, vLeft, cam>>
  BY DEF Video!NewFrame, Video!task
<1>2. /\ vLatest' \in [Cams -> Int] /\ \A d \in Cams \ {c} : vLatest'[d] = vLatest[d]
      /\ vLatest'[c] = IF vLatest[c] = Video!NoFrame THEN 0 ELSE vLatest[c] + 1
  BY DEF Video!NewFrame, VideoInv
<1>3. /\ \A d \in Cams : vLatest'[d] # Video!NoFrame => vLatest'[d] >= 0
      /\ \A d \in Cams : vLatest[d] # Video!NoFrame =>
           vLatest'[d] # Video!NoFrame /\ vLatest'[d] >= vLatest[d]
      /\ \A d \in Cams : vLatest[d] = Video!NoFrame => vLatest'[d] \in {Video!NoFrame, 0}
  BY <1>2 DEF VideoInv, Video!NoFrame
<1>4. ASSUME NEW d \in encoders
      PROVE  Sent(d)'
  <2>1. d \in Cams /\ Sent(d) /\ openStreams'[d] = openStreams[d] /\ vLatest[d] \in Int
        /\ vLatest'[d] \in Int
    BY <1>1, <1>2, <1>4 DEF VideoInv
  <2>2. QED BY <1>3, <2>1 DEF Sent, Video!NoFrame
<1>5. streamer = "send" => vLatest'[cam] # Video!NoFrame /\ vLatest'[cam] > openStreams[cam]
  <2>1. ASSUME streamer = "send"
        PROVE  cam \in Cams /\ vLatest[cam] \in Int /\ vLatest'[cam] \in Int
               /\ openStreams[cam] \in Nat
    BY <1>2, <2>1 DEF VideoInv, Sent
  <2>2. QED BY <1>3, <2>1 DEF VideoInv
<1>6. QED BY <1>1, <1>2, <1>3, <1>4, <1>5 DEF VideoInv, Video!NoFrame

LEMMA UnderLockKeeps ==
  ASSUME VideoInv, Video!UnderLock
  PROVE  VideoInv'
<1>1. /\ UNCHANGED <<vLatest, streamer, vLeft, cam>> /\ streamer = "top"
      /\ server' = Video!Idle /\ server \in {"open", "close"} \X Cams
  BY DEF Video!UnderLock, Video!task, VideoInv
<1>2. PICK c \in Cams : c = server[2]
  BY <1>1
<1>3. CASE server[1] = "open"
  <2>1. /\ encoders' = encoders \cup {c} /\ DOMAIN openStreams = encoders
        /\ openStreams' = [d \in encoders \cup {c} |-> IF d = c THEN 0 ELSE openStreams[d]]
    BY <1>2, <1>3 DEF Video!UnderLock, Video!LastSentAtOpen, VideoInv
  <2>2. ASSUME NEW d \in encoders'
        PROVE  Sent(d)'
    <3>1. CASE d = c
      BY <1>1, <1>2, <2>1, <3>1 DEF Sent, VideoInv, Video!NoFrame
    <3>2. CASE d # c
      <4>1. openStreams'[d] = openStreams[d] /\ vLatest'[d] = vLatest[d] /\ Sent(d)
        BY <1>1, <2>1, <2>2, <3>2 DEF VideoInv
      <4>2. QED BY <4>1 DEF Sent
    <3>3. QED BY <3>1, <3>2
  <2>3. /\ DOMAIN openStreams' = encoders' /\ encoders' \subseteq Cams
        /\ openStreams' = [d \in encoders' |-> openStreams'[d]]
    BY <2>1 DEF VideoInv
  <2>4. QED BY <1>1, <2>2, <2>3 DEF VideoInv
<1>4. CASE server[1] # "open"
  <2>1. /\ encoders' = encoders \ {c} /\ DOMAIN openStreams = encoders
        /\ openStreams' = [d \in encoders \ {c} |-> openStreams[d]]
    BY <1>2, <1>4 DEF Video!UnderLock, Video!StreamsWithout, Video!Restrict, VideoInv
  <2>2. ASSUME NEW d \in encoders'
        PROVE  Sent(d)'
    <3>1. openStreams'[d] = openStreams[d] /\ vLatest'[d] = vLatest[d] /\ Sent(d)
      BY <1>1, <2>1, <2>2 DEF VideoInv
    <3>2. QED BY <3>1 DEF Sent
  <2>3. /\ DOMAIN openStreams' = encoders' /\ encoders' \subseteq Cams
        /\ openStreams' = [d \in encoders' |-> openStreams'[d]]
    BY <2>1 DEF VideoInv
  <2>4. QED BY <1>1, <2>2, <2>3 DEF VideoInv
<1>5. QED BY <1>3, <1>4

LEMMA SendKeeps ==
  ASSUME VideoInv, Video!Send
  PROVE  VideoInv' /\ vLatest[cam] > openStreams[cam] /\ cam \in encoders
<1>1. /\ cam \in encoders /\ vLatest[cam] # Video!NoFrame /\ vLatest[cam] > openStreams[cam]
      /\ vLatest[cam] \in Int /\ vLatest[cam] >= 0 /\ vLeft \subseteq encoders
  BY DEF VideoInv, Video!Send
<1>2. /\ UNCHANGED <<vLatest, encoders, server, cam>> /\ streamer' = "pass"
      /\ vLeft' \subseteq encoders
  BY <1>1 DEF Video!Send, Video!Rest
<1>3. openStreams' = [openStreams EXCEPT ![cam] = vLatest[cam]] /\ DOMAIN openStreams = encoders
  BY DEF Video!Send, Video!ReadCamera, VideoInv
<1>4. ASSUME NEW d \in encoders
      PROVE  Sent(d)'
  <2>1. CASE d = cam
    <3>1. openStreams'[d] = vLatest[d] /\ vLatest'[d] = vLatest[d]
      BY <1>2, <1>3, <1>4, <2>1
    <3>2. QED BY <1>1, <2>1, <3>1 DEF Sent
  <2>2. CASE d # cam
    <3>1. openStreams'[d] = openStreams[d] /\ vLatest'[d] = vLatest[d] /\ Sent(d)
      BY <1>2, <1>3, <1>4, <2>2 DEF VideoInv
    <3>2. QED BY <3>1 DEF Sent
  <2>3. QED BY <2>1, <2>2
<1>5. DOMAIN openStreams' = encoders' /\ openStreams' = [d \in encoders' |-> openStreams'[d]]
  BY <1>2, <1>3
<1>6. QED BY <1>1, <1>2, <1>4, <1>5 DEF VideoInv

LEMMA VideoInvStep == VideoInv /\ [Video!Next]_videoVars => VideoInv'
<1> SUFFICES ASSUME VideoInv, [Video!Next]_videoVars
             PROVE  VideoInv'
  OBVIOUS
<1>a. ASSUME UNCHANGED <<vLatest, openStreams, encoders>>,
             server' = Video!Idle \/ server' \in {"open", "close"} \X Cams,
             streamer' \in {"top", "pass", "send", "exited"},
             streamer' \in {"pass", "send"} => vLeft' \subseteq encoders,
             streamer' = "send" => cam' \in encoders /\ vLatest[cam'] # Video!NoFrame
                                   /\ vLatest[cam'] > openStreams[cam']
      PROVE  VideoInv'
  <2>1. \A c \in encoders : Sent(c)'
    BY <1>a DEF VideoInv, Sent
  <2>2. QED BY <1>a, <2>1 DEF VideoInv
<1>1. ASSUME NEW c \in Cams, Video!OpenRequest(c) \/ Video!CloseRequest(c)
      PROVE  VideoInv'
  BY <1>a, <1>1 DEF Video!OpenRequest, Video!CloseRequest, Video!task, VideoInv
<1>2. CASE Video!BeginPass
  BY <1>a, <1>2 DEF Video!BeginPass, VideoInv
<1>3. ASSUME NEW c \in Cams, Video!Check(c)
      PROVE  VideoInv'
  <2>1. /\ c \in encoders /\ c \in vLeft /\ Sent(c) /\ vLatest[c] \in Int
        /\ UNCHANGED <<vLatest, openStreams, encoders, server>>
    BY <1>3 DEF Video!Check, VideoInv
  <2>2. CASE Video!HasNewCameraFrame(c)
    <3>1. vLatest[c] # Video!NoFrame /\ vLatest[c] > openStreams[c]
      BY <2>1, <2>2 DEF Video!HasNewCameraFrame, Sent
    <3>2. streamer' = "send" /\ cam' = c /\ vLeft' = vLeft
      BY <1>3, <2>2 DEF Video!Check
    <3>3. QED BY <1>3, <1>a, <2>1, <3>1, <3>2 DEF VideoInv, Video!Check
  <2>3. CASE ~Video!HasNewCameraFrame(c)
    BY <1>3, <1>a, <2>1, <2>3 DEF VideoInv, Video!Check, Video!Rest
  <2>4. QED BY <2>2, <2>3
<1>4. CASE Video!EndPass
  BY <1>a, <1>4 DEF Video!EndPass, VideoInv
<1>5. CASE Video!Destroy \/ Video!Joined \/ UNCHANGED videoVars
  BY <1>a, <1>5 DEF Video!Destroy, Video!Joined, Video!task, videoVars, VideoInv
<1>6. QED BY <1>1, <1>2, <1>3, <1>4, <1>5, NewFrameKeeps, UnderLockKeeps, SendKeeps
          DEF Video!Next, Video!Streamer

(***************************************************************************)
(* The calibration tool.                                                   *)
(***************************************************************************)
\* What is captured must not be empty to be enough.
ToolInv ==
  /\ step \notin {"options", "invalid"} => nframes \in Nat \ {0}
  /\ Tool!CalibratedIsSaved

LEMMA ToolInvInit == Tool!Init => ToolInv
BY DEF Tool!Init, ToolInv, Tool!CalibratedIsSaved

LEMMA ToolInvStep == ToolInv /\ [Tool!Next]_toolVars => ToolInv'
<1> SUFFICES ASSUME ToolInv, [Tool!Next]_toolVars
             PROVE  ToolInv'
  OBVIOUS
<1> USE DEF ToolInv, Tool!CalibratedIsSaved, Tool!None, Tool!options
<1>1. ASSUME NEW n \in NFrames, NEW l \in BOOLEAN, NEW su \in BOOLEAN,
             NEW images \in 0..MaxViews, Tool!ReadOptions(n, l, images, su)
      PROVE  ToolInv'
  BY <1>1, NFramesAssumption DEF Tool!ReadOptions
<1>2. ASSUME NEW found \in BOOLEAN, NEW late \in BOOLEAN, Tool!TakeView(found, late)
      PROVE  ToolInv'
  BY <1>2 DEF Tool!TakeView
<1>3. ASSUME NEW ok \in BOOLEAN, Tool!NoView(ok)
      PROVE  ToolInv'
  BY <1>3 DEF Tool!NoView
<1>4. ASSUME NEW key, NEW ok \in BOOLEAN, Tool!Key(key, ok)
      PROVE  ToolInv'
  <2>1. CASE key = "esc"
    BY <1>4, <2>1 DEF Tool!Key
  <2>2. CASE key # "esc" /\ Tool!Enough(key)
    <3>1. imagePoints # {}
      <4>1. step = "key"
        BY <1>4, Zenon DEF Tool!Key
      <4>2. Cardinality(imagePoints) >= nframes
        BY <2>2, Zenon DEF Tool!Enough, Cardinality, Tool!Cardinality
      <4>3. nframes \in Nat \ {0}
        BY <4>1
      <4>4. Cardinality({}) = 0
        BY FS_EmptySet
      <4>5. QED BY <4>2, <4>3, <4>4
    <3>2. /\ step = "key" /\ UNCHANGED <<imagePoints, start, isLive, showUndistorted, nframes>>
          /\ cameraMatrix' = [views |-> imagePoints', ok |-> ok]
          /\ file' = (IF ok THEN cameraMatrix' ELSE file)
          /\ mode' = (IF ok THEN "calibrated" ELSE "detection")
          /\ step' = IF isLive THEN "view" ELSE "show"
      BY <1>4, <2>2, Zenon DEF Tool!Key, Tool!RunAndSave, Tool!RunCalibration
    <3>3. CASE ok = TRUE
      <4>1. cameraMatrix'.ok /\ cameraMatrix'.views = imagePoints /\ cameraMatrix' = file'
        BY <3>2, <3>3, Zenon
      <4>2. QED BY <3>1, <3>2, <4>1, SMT
    <3>4. CASE ok = FALSE
      <4>1. mode' = "detection"
        BY <3>2, <3>4, Zenon
      <4>2. QED BY <3>2, <4>1
    <3>5. QED BY <3>3, <3>4
  <2>3. CASE key # "esc" /\ ~Tool!Enough(key)
    BY <1>4, <2>3 DEF Tool!Key, Tool!StartCapturing
  <2>4. QED BY <2>1, <2>2, <2>3
<1>5. CASE Tool!ShowUndistorted
  BY <1>5 DEF Tool!ShowUndistorted
<1>6. CASE UNCHANGED toolVars
  BY <1>6 DEF toolVars
<1>7. QED BY <1>1, <1>2, <1>3, <1>4, <1>5, <1>6 DEF Tool!Next

\* Camera.cpp, calibration.cpp: a reader's frame is one store, with its own number and
\* time, for any readers; and a camera is "calibrated" with the matrix that was saved,
\* which is there, for any number of views.
THEOREM FramesAreWholeAlways == AllSpec => []FramesAreWhole
<1>1. AllInit => FrameInv /\ ToolInv
  BY FrameInvInit, ToolInvInit DEF AllInit
<1>2. [AllNext]_allVars => [Camera!Next]_feedVars /\ [Tool!Next]_toolVars
  BY DEF AllNext, allVars
<1>3. FrameInv /\ ToolInv /\ [AllNext]_allVars => (FrameInv /\ ToolInv)'
  BY <1>2, FrameInvStep, ToolInvStep
<1>4. FrameInv /\ ToolInv => FramesAreWhole
  BY DEF FrameInv, Copied, ToolInv, FramesAreWhole, Camera!FramesAreWhole
<1>5. QED BY <1>1, <1>3, <1>4, PTL DEF AllSpec

(***************************************************************************)
(* Positions of the rover and of its joints, and their times.              *)
(***************************************************************************)
\* The times of the reports of each topic.
Histories == [{"gps", "imu"} -> Seq(Nat)]

\* What is read of a topic: under the mutex, one of its reports whole.
IsReading(h, t, r) ==
  r # <<>> => r[1] \in Nat /\ (t \in Locked => r[2] \in 1..Len(h[t]) /\ r[1] = h[t][r[2]])

\* The message that was sent makes a reading no more recent than its report was.
Honest(h, t, r) == t \in Locked /\ r # <<>> => sent.at - h[t][r[2]] <= sent.recency

PositionInv ==
  /\ rNow \in Nat /\ reports \in Histories
  /\ DOMAIN last = {"gps", "imu"} /\ \A t \in {"gps", "imu"} : IsReading(reports, t, last[t])
  /\ writing # "none" => writing \in {"gps", "imu"} \ Locked /\ reports[writing] # <<>>
  /\ IsReading(reports, "imu", imu) /\ IsReading(reports, "gps", gps)
  /\ sent # <<>> =>
       /\ IsReading(reports, "imu", sent.imu) /\ IsReading(reports, "gps", sent.gps)
       /\ Honest(reports, "imu", sent.imu) /\ Honest(reports, "gps", sent.gps)

LEMMA PositionInvInit == Position!Init => PositionInv
BY DEF Position!Init, PositionInv, Histories, IsReading, Position!Topics, Position!None

LEMMA IsNewReading ==
  ASSUME NEW h, NEW t, NEW a \in Nat, NEW n,
         t \in Locked => n \in 1..Len(h[t]) /\ a = h[t][n]
  PROVE  IsReading(h, t, <<a, n>>)
BY DEF IsReading

\* A report that comes later does not change what was read, or how old it is.
Later(h, g) ==
  \A t \in {"gps", "imu"} : \A n \in 1..Len(h[t]) : n \in 1..Len(g[t]) /\ g[t][n] = h[t][n]

LEMMA ReadingsStay ==
  ASSUME NEW h, NEW g, Later(h, g), NEW t \in {"gps", "imu"}, NEW r, IsReading(h, t, r)
  PROVE  IsReading(g, t, r) /\ (Honest(h, t, r) => Honest(g, t, r))
BY DEF Later, IsReading, Honest

LEMMA ArriveAppends ==
  ASSUME PositionInv, NEW t \in {"gps", "imu"}, Position!Arrive(t)
  PROVE  /\ rNow \in Nat /\ UNCHANGED <<rNow, imu, gps, sent>> /\ writing = "none"
         /\ reports' \in Histories /\ reports'[t] # <<>>
         /\ Len(reports'[t]) \in 1..Len(reports'[t]) /\ reports'[t][Len(reports'[t])] = rNow
         /\ Later(reports, reports')
<1>1. /\ reports' = [reports EXCEPT ![t] = Append(reports[t], rNow)]
      /\ UNCHANGED <<rNow, imu, gps, sent>>
      /\ reports \in Histories /\ rNow \in Nat /\ writing = "none"
  BY DEF Position!Arrive, PositionInv
<1> DEFINE longer == Append(reports[t], rNow)
<1>2. /\ longer \in Seq(Nat) /\ Len(longer) = Len(reports[t]) + 1 /\ Len(reports[t]) \in Nat
      /\ longer[Len(reports[t]) + 1] = rNow
      /\ \A n \in 1..Len(reports[t]) : longer[n] = reports[t][n]
  BY <1>1, AppendProperties DEF Histories
<1>3. reports'[t] = longer /\ \A u \in {"gps", "imu"} \ {t} : reports'[u] = reports[u]
  BY <1>1 DEF Histories
<1>4. reports' \in Histories
  BY <1>1, <1>2 DEF Histories
<1> HIDE DEF longer
<1>5. Later(reports, reports')
  <2> SUFFICES ASSUME NEW u \in {"gps", "imu"}, NEW n \in 1..Len(reports[u])
               PROVE  n \in 1..Len(reports'[u]) /\ reports'[u][n] = reports[u][n]
    BY DEF Later
  <2>1. CASE u = t
    BY <1>2, <1>3, <2>1
  <2>2. CASE u # t
    BY <1>3, <2>2
  <2>3. QED BY <2>1, <2>2
<1>6. /\ Len(reports'[t]) \in 1..Len(reports'[t]) /\ reports'[t] # <<>>
      /\ reports'[t][Len(reports'[t])] = rNow
  BY <1>2, <1>3
<1>7. QED BY <1>1, <1>4, <1>5, <1>6

\* Steps that only add reports, and change what was stored last.
LEMMA StoreKeepsInv ==
  ASSUME PositionInv, Later(reports, reports'), reports' \in Histories, rNow' \in Nat,
         UNCHANGED <<imu, gps, sent>>,
         DOMAIN last' = {"gps", "imu"}, \A t \in {"gps", "imu"} : IsReading(reports', t, last'[t]),
         writing' # "none" => writing' \in {"gps", "imu"} \ Locked /\ reports'[writing'] # <<>>
  PROVE  PositionInv'
<1>1. IsReading(reports', "imu", imu') /\ IsReading(reports', "gps", gps')
  BY ReadingsStay DEF PositionInv
<1>2. sent' # <<>> =>
        /\ IsReading(reports', "imu", sent'.imu) /\ IsReading(reports', "gps", sent'.gps)
        /\ Honest(reports', "imu", sent.imu) /\ Honest(reports', "gps", sent.gps)
  BY ReadingsStay DEF PositionInv
<1>3. QED BY <1>1, <1>2 DEF PositionInv, Honest

LEMMA ReportKeepsInv ==
  ASSUME PositionInv, NEW t \in {"gps", "imu"},
         Position!ReportLocked(t) \/ Position!ReportUnlocked(t)
  PROVE  PositionInv'
<1>1. Position!Arrive(t)
  BY DEF Position!ReportLocked, Position!ReportUnlocked
<1> DEFINE n == Len(reports'[t])
<1>2. /\ rNow \in Nat /\ UNCHANGED <<rNow, imu, gps, sent>> /\ writing = "none"
      /\ reports' \in Histories /\ reports'[t] # <<>> /\ n \in 1..n /\ reports'[t][n] = rNow
      /\ Later(reports, reports')
  BY <1>1, ArriveAppends
<1>3. DOMAIN last' = {"gps", "imu"} /\ \A u \in {"gps", "imu"} \ {t} : last'[u] = last[u]
  BY DEF Position!ReportLocked, Position!ReportUnlocked, PositionInv, Position!None
<1>4. IsReading(reports', t, last'[t])
  <2>1. IsReading(reports', t, <<rNow, n>>)
    BY <1>2, IsNewReading
  <2>2. CASE last'[t] = <<rNow, n>>
    BY <2>1, <2>2
  <2>3. CASE last'[t] # <<rNow, n>>
    <3>1. t \notin Locked /\ last[t] # <<>>
          /\ last'[t] \in {<<rNow, last[t][2]>>, <<last[t][1], n>>}
      BY <2>3 DEF Position!ReportLocked, Position!ReportUnlocked, PositionInv, Position!None
    <3>2. last[t][1] \in Nat
      BY <3>1 DEF PositionInv, IsReading
    <3>3. IsReading(reports', t, <<rNow, last[t][2]>>) /\ IsReading(reports', t, <<last[t][1], n>>)
      BY <1>2, <3>1, <3>2, IsNewReading
    <3>4. QED BY <3>1, <3>3
  <2>4. QED BY <2>2, <2>3
<1>5. \A u \in {"gps", "imu"} : IsReading(reports', u, last'[u])
  BY <1>2, <1>3, <1>4, ReadingsStay DEF PositionInv
<1>6. writing' # "none" => writing' \in {"gps", "imu"} \ Locked /\ reports'[writing'] # <<>>
  BY <1>2 DEF Position!ReportLocked, Position!ReportUnlocked
<1>7. QED BY <1>2, <1>3, <1>5, <1>6, StoreKeepsInv

LEMMA WriteRestKeepsInv ==
  ASSUME PositionInv, Position!WriteRest
  PROVE  PositionInv'
<1> DEFINE n == Len(reports[writing])
           newest == <<reports[writing][n], n>>
<1>1. /\ writing \in {"gps", "imu"} \ Locked /\ reports[writing] # <<>> /\ writing' = "none"
      /\ UNCHANGED <<rNow, reports, imu, gps, sent>>
      /\ last' = [last EXCEPT ![writing] = newest]
  BY DEF Position!WriteRest, PositionInv
<1>2. reports[writing] \in Seq(Nat) /\ n \in 1..n
  BY <1>1 DEF PositionInv, Histories
<1>3. reports[writing][n] \in Nat
  BY <1>2, ElementOfSeq
<1>4. IsReading(reports, writing, newest)
  BY <1>1, <1>3, IsNewReading
<1> HIDE DEF newest
<1>5. DOMAIN last' = {"gps", "imu"} /\ \A t \in {"gps", "imu"} : IsReading(reports, t, last'[t])
  BY <1>1, <1>4 DEF PositionInv
<1>6. Later(reports, reports)
  BY DEF Later
<1>7. QED BY <1>1, <1>5, <1>6, StoreKeepsInv DEF PositionInv

LEMMA SendKeepsInv ==
  ASSUME PositionInv, Position!Send
  PROVE  PositionInv'
<1>1. UNCHANGED <<rNow, last, writing, reports, imu, gps>>
  BY DEF Position!Send
<1>2. CASE imu = <<>>
  BY <1>1, <1>2 DEF Position!Send, Position!None, PositionInv, Honest
<1>3. CASE imu # <<>>
  <2>1. sent' = [gps |-> gps, imu |-> imu, recency |-> Position!Recency, at |-> rNow]
    BY <1>3 DEF Position!Send, Position!None
  <2>2. /\ sent'.gps = gps /\ sent'.imu = imu /\ sent'.recency = Position!Recency /\ sent'.at = rNow
    BY <2>1
  <2>3. IsReading(reports, "imu", imu) /\ IsReading(reports, "gps", gps) /\ rNow \in Nat
    BY DEF PositionInv
  <2>4. /\ rNow - imu[1] <= Position!Recency
        /\ gps # <<>> => rNow - gps[1] <= Position!Recency
    BY <1>3, <2>3 DEF IsReading, Position!Recency, Position!None
  <2>5. Honest(reports, "imu", imu)' /\ Honest(reports, "gps", gps)'
    BY <1>1, <2>2, <2>3, <2>4 DEF Honest, IsReading
  <2>6. QED BY <1>1, <2>2, <2>5 DEF PositionInv
<1>4. QED BY <1>2, <1>3

LEMMA PositionInvStep == PositionInv /\ [Position!Next]_posVars => PositionInv'
<1>1. ASSUME PositionInv, Position!ReadIMU \/ Position!ReadGPS
      PROVE  PositionInv'
  BY <1>1 DEF Position!ReadIMU, Position!ReadGPS, Position!GetIMU, Position!GetGPS, PositionInv,
              Honest
<1>2. ASSUME PositionInv, Position!Tick \/ UNCHANGED posVars
      PROVE  PositionInv'
  BY <1>2 DEF Position!Tick, posVars, PositionInv, Honest
<1>3. QED BY <1>1, <1>2, ReportKeepsInv, WriteRestKeepsInv, SendKeepsInv
          DEF Position!Next, Position!Topics

\* Positions, each told by its message, and the time that is sent with them.
IsOldest(positions, time) ==
  /\ positions \in Seq(Nat \ {0})
  /\ IF positions = <<>> THEN time = 0
     ELSE /\ time # 0 /\ \E n \in 1..Len(positions) : positions[n] = time
          /\ \A n \in 1..Len(positions) : positions[n] >= time

JointInv ==
  /\ messages \in Nat /\ motorPosMap \in [JointPos!Motors -> Nat]
  /\ IsOldest(read, timestamp)
  /\ DOMAIN reported = Joints
  /\ \A j \in Joints : IsOldest(reported[j].positions, reported[j].time)

LEMMA JointInvInit == JointPos!Init => JointInv
<1> SUFFICES ASSUME JointPos!Init
             PROVE  JointInv
  OBVIOUS
<1>1. IsOldest(<<>>, 0)
  BY DEF IsOldest
<1>2. messages = 0 /\ motorPosMap = [m \in JointPos!Motors |-> 0] /\ read = <<>> /\ timestamp = 0
      /\ reported = [j \in Joints |-> [positions |-> <<>>, time |-> 0]]
  BY DEF JointPos!Init, JointPos!NoPos
<1>3. \A j \in Joints : reported[j].positions = <<>> /\ reported[j].time = 0
  BY <1>2
<1>4. QED BY <1>1, <1>2, <1>3 DEF JointInv

LEMMA OldestOfMore ==
  ASSUME NEW positions, NEW time \in Nat, IsOldest(positions, time), NEW pos \in Nat \ {0}
  PROVE  IsOldest(Append(positions, pos), JointPos!Oldest(time, pos))
<1> DEFINE more == Append(positions, pos)
           n == Len(positions)
<1>1. positions \in Seq(Nat \ {0})
  BY DEF IsOldest
<1>2. /\ more \in Seq(Nat \ {0}) /\ Len(more) = n + 1 /\ n \in Nat /\ more[n + 1] = pos
      /\ \A k \in 1..n : more[k] = positions[k]
      /\ (positions = <<>>) <=> n = 0
  BY <1>1, AppendProperties, EmptySeq
<1>3. more # <<>>
  BY <1>2
<1> HIDE DEF more, n
<1>4. \A k \in 1..n + 1 : more[k] = pos \/ (k \in 1..n /\ more[k] = positions[k])
  <2> TAKE k \in 1..n + 1
  <2>1. n \in Nat
    BY <1>2
  <2>2. k = n + 1 \/ k \in 1..n
    BY <2>1
  <2>3. CASE k = n + 1
    <3>1. more[n + 1] = pos
      BY <1>2
    <3>2. QED BY <2>1, <2>3, <3>1
  <2>4. CASE k \in 1..n
    BY <1>2, <2>4, Zenon
  <2>5. QED BY <2>2, <2>3, <2>4
<1>5. n + 1 \in 1..n + 1 /\ \A k \in 1..n : k \in 1..n + 1
  BY <1>2
<1>6. CASE positions = <<>>
  BY <1>2, <1>3, <1>4, <1>5, <1>6 DEF IsOldest, JointPos!Oldest, JointPos!NoPos, more, n
<1>7. CASE positions # <<>>
  <2>1. /\ time # 0 /\ \A k \in 1..n : positions[k] >= time /\ positions[k] \in Nat \ {0}
    BY <1>7 DEF IsOldest, n
  <2>2. PICK k \in 1..n : positions[k] = time
    BY <1>7 DEF IsOldest, n
  <2>3. CASE time > pos
    <3>1. JointPos!Oldest(time, pos) = pos
      BY <2>3 DEF JointPos!Oldest
    <3>2. \A l \in 1..n + 1 : more[l] >= pos
      BY <1>4, <2>1, <2>3
    <3>3. QED BY <1>2, <1>3, <1>5, <3>1, <3>2 DEF IsOldest, more
  <2>4. CASE ~(time > pos)
    <3>1. JointPos!Oldest(time, pos) = time
      BY <2>1, <2>4 DEF JointPos!Oldest, JointPos!NoPos
    <3>2. \A l \in 1..n + 1 : more[l] >= time
      BY <1>4, <2>1, <2>4
    <3>3. more[k] = time /\ k \in 1..n + 1
      BY <1>2, <2>2
    <3>4. QED BY <1>2, <1>3, <2>1, <3>1, <3>2, <3>3 DEF IsOldest, more
  <2>5. QED BY <2>3, <2>4
<1>8. QED BY <1>6, <1>7

LEMMA MotorsForIsSeq ==
  ASSUME NEW j \in Joints
  PROVE  JointPos!MotorsFor(j) \in Seq(JointPos!Motors)
<1>1. \/ JointPos!MotorsFor(j) = <<j>> \/ JointPos!MotorsFor(j) = JointPos!IKMotors
      \/ JointPos!MotorsFor(j) = <<>>
  BY Zenon DEF JointPos!MotorsFor
<1>2. <<j>> \in Seq({j, "shoulder", "elbow"}) /\ <<>> \in Seq({j, "shoulder", "elbow"})
      /\ JointPos!IKMotors \in Seq({j, "shoulder", "elbow"})
  BY DEF JointPos!IKMotors
<1>3. JointPos!MotorsFor(j) \in Seq({j, "shoulder", "elbow"})
  BY <1>1, <1>2
<1>4. DOMAIN JointPos!MotorsFor(j) = 1..Len(JointPos!MotorsFor(j))
  BY <1>3
<1>5. \A n \in 1..Len(JointPos!MotorsFor(j)) : JointPos!MotorsFor(j)[n] \in JointPos!Motors
  BY <1>4 DEF JointPos!Motors
<1>6. QED BY <1>3, <1>5

LEMMA JointInvStep == JointInv /\ [JointPos!Next]_jointVars => JointInv'
<1> SUFFICES ASSUME JointInv, [JointPos!Next]_jointVars
             PROVE  JointInv'
  OBVIOUS
<1>1. ASSUME NEW m \in JointPos!Motors, NEW valid \in BOOLEAN,
             JointPos!HandleMotorStatus(m, valid)
      PROVE  JointInv'
  <2>1. messages' \in Nat /\ UNCHANGED <<read, timestamp, reported>>
    BY <1>1 DEF JointPos!HandleMotorStatus, JointPos!task, JointInv
  <2>2. \/ motorPosMap' = [motorPosMap EXCEPT ![m] = messages']
        \/ motorPosMap' = [motorPosMap EXCEPT ![m] = 0]
    BY <1>1, Zenon DEF JointPos!HandleMotorStatus, JointPos!NoPos
  <2>3. motorPosMap' \in [JointPos!Motors -> Nat]
    BY <2>1, <2>2 DEF JointInv
  <2>4. QED BY <2>1, <2>3 DEF JointInv
<1>2. ASSUME NEW j \in Joints, JointPos!ReadMotor(j)
      PROVE  JointInv'
  <2> DEFINE pos == motorPosMap[JointPos!MotorsFor(j)[Len(read) + 1]]
  <2>1. read \in Seq(Nat \ {0}) /\ timestamp \in Nat /\ Len(read) \in Nat
    BY DEF JointInv, IsOldest
  <2>2. Len(read) < Len(JointPos!MotorsFor(j)) /\ UNCHANGED <<messages, motorPosMap, reported>>
    BY <1>2 DEF JointPos!ReadMotor
  <2>3. JointPos!MotorsFor(j) \in Seq(JointPos!Motors)
    BY MotorsForIsSeq
  <2>4. pos \in Nat
    <3>1. Len(read) + 1 \in 1..Len(JointPos!MotorsFor(j))
      BY <2>1, <2>2, <2>3
    <3>2. JointPos!MotorsFor(j)[Len(read) + 1] \in JointPos!Motors
      BY <2>3, <3>1, ElementOfSeq
    <3>3. QED BY <3>2 DEF JointInv
  <2>5. CASE pos # 0
    <3>1. read' = Append(read, pos) /\ timestamp' = JointPos!Oldest(timestamp, pos)
      BY <1>2, <2>5 DEF JointPos!ReadMotor, JointPos!GetMotorPos, JointPos!NoPos
    <3>2. IsOldest(read', timestamp')
      BY <2>1, <2>4, <2>5, <3>1, OldestOfMore DEF JointInv
    <3>3. QED BY <2>2, <3>2 DEF JointInv
  <2>6. CASE pos = 0
    <3>1. UNCHANGED <<read, timestamp>>
      BY <1>2, <2>6 DEF JointPos!ReadMotor, JointPos!GetMotorPos, JointPos!NoPos
    <3>2. QED BY <2>2, <3>1 DEF JointInv
  <2>7. QED BY <2>5, <2>6
<1>3. ASSUME NEW j \in Joints, JointPos!SendJointPositionReport(j)
      PROVE  JointInv'
  <2>1. UNCHANGED <<messages, motorPosMap, read, timestamp>>
    BY <1>3 DEF JointPos!SendJointPositionReport
  <2>2. \/ reported' = reported
        \/ reported' = [reported EXCEPT ![j] = [positions |-> read, time |-> timestamp]]
    BY <1>3 DEF JointPos!SendJointPositionReport
  <2>3. QED BY <2>1, <2>2 DEF JointInv
<1>4. ASSUME NEW j \in Joints, JointPos!BeginJoint(j)
      PROVE  JointInv'
  BY <1>4 DEF JointPos!BeginJoint, JointInv, IsOldest, JointPos!NoPos
<1>5. CASE JointPos!BeginPass \/ UNCHANGED jointVars
  BY <1>5 DEF JointPos!BeginPass, jointVars, JointInv
<1>6. QED BY <1>1, <1>2, <1>3, <1>4, <1>5 DEF JointPos!Next

\* ArduPilotProtocol.cpp, simulator_interface.cpp, world_interface.h: the time sent with a
\* position of the rover or of a joint is that of its oldest part, for any joints and any
\* number of reports and status messages. What a handler writes without the readers'
\* mutex is not in Locked.
THEOREM TimesAreHonestAlways == AllSpec => []TimesAreHonest
<1>1. AllInit => PositionInv /\ JointInv
  BY PositionInvInit, JointInvInit DEF AllInit
<1>2. [AllNext]_allVars => [Position!Next]_posVars /\ [JointPos!Next]_jointVars
  BY DEF AllNext, allVars
<1>3. PositionInv /\ JointInv /\ [AllNext]_allVars => (PositionInv /\ JointInv)'
  BY <1>2, PositionInvStep, JointInvStep
<1>4. PositionInv => Position!RecencyIsHonest
  BY LockedAssumption DEF PositionInv, Honest, Position!RecencyIsHonest, Position!None
<1>5. JointInv => JointPos!TimeIsOldest
  <2> SUFFICES ASSUME JointInv, NEW j \in Joints, reported[j].time # 0
               PROVE  /\ reported[j].time \in JointPos!Positions(j)
                      /\ \A p \in JointPos!Positions(j) : p >= reported[j].time
    BY DEF JointPos!TimeIsOldest, JointPos!NoPos
  <2>1. /\ reported[j].positions \in Seq(Nat \ {0})
        /\ \E n \in 1..Len(reported[j].positions) : reported[j].positions[n] = reported[j].time
        /\ \A n \in 1..Len(reported[j].positions) : reported[j].positions[n] >= reported[j].time
    BY DEF JointInv, IsOldest
  <2>2. DOMAIN reported[j].positions = 1..Len(reported[j].positions)
    BY <2>1
  <2>3. QED BY <2>1, <2>2 DEF JointPos!Positions
<1>6. PositionInv /\ JointInv => TimesAreHonest
  BY <1>4, <1>5 DEF TimesAreHonest
<1>7. QED BY <1>1, <1>3, <1>6, PTL DEF AllSpec

(***************************************************************************)
(* The boards of motors: MotorBoardsProofs, for Devices' two instances.    *)
(***************************************************************************)
ArmP == INSTANCE MotorBoardsProofs WITH
  todo <- bTodo, board <- regs, pulled <- bPulled, motor_mode <- bMode, asked <- bAsked,
  Motors <- ArmMotors

\* Arm's definitions are those that MotorBoardsProofs proves about.
LEMMA ArmRuns ==
  /\ Arm!Init => ArmP!Init
  /\ Arm!Next => ArmP!Next
  /\ ArmP!BoardsAreConfigured /\ ArmP!DutyIsAsked
       => Arm!BoardsAreConfigured /\ Arm!DutyIsAsked
<1>1. /\ Arm!None = ArmP!None /\ Arm!NoPower = ArmP!NoPower /\ Arm!NoDuty = ArmP!NoDuty
      /\ Arm!Registers = ArmP!Registers /\ Arm!PotMotors = ArmP!PotMotors
      /\ Arm!EncMotors = ArmP!EncMotors /\ Arm!PidMotors = ArmP!PidMotors
      /\ Arm!Wheels = ArmP!Wheels /\ Arm!Stages = ArmP!Stages
  BY SMT DEF Arm!None, ArmP!None, Arm!NoPower, ArmP!NoPower, Arm!NoDuty, ArmP!NoDuty,
         Arm!Registers, ArmP!Registers, Arm!PotMotors, ArmP!PotMotors, Arm!EncMotors,
         ArmP!EncMotors, Arm!PidMotors, ArmP!PidMotors, Arm!Wheels, ArmP!Wheels, Arm!Stages,
         ArmP!Stages
<1>2. Arm!PwmScale = ArmP!PwmScale
  BY SMT DEF Arm!PwmScale, ArmP!PwmScale
<1>3. Arm!Init => ArmP!Init
  BY <1>1, Zenon DEF Arm!Init, ArmP!Init
<1>4. \A do, m : Arm!Call(do, m) = ArmP!Call(do, m)
  BY <1>1, Zenon DEF Arm!Call, ArmP!Call
<1>5. /\ \A m, r, v : Arm!Packet(m, r, v) = ArmP!Packet(m, r, v)
      /\ \A m, d : Arm!Duty(m, d) = ArmP!Duty(m, d)
      /\ \A m : Arm!Pull(m) = ArmP!Pull(m)
      /\ \A m, b : Arm!AddMotorMapping(m, b) = ArmP!AddMotorMapping(m, b)
  BY <1>4, Zenon DEF Arm!Packet, ArmP!Packet, Arm!Duty, ArmP!Duty, Arm!Pull, ArmP!Pull,
         Arm!AddMotorMapping, ArmP!AddMotorMapping
<1>6. /\ \A m : Arm!InitMotor(m) = ArmP!InitMotor(m)
      /\ \A m : Arm!InitPotentiometer(m) = ArmP!InitPotentiometer(m)
      /\ \A m : Arm!InitEncoder(m) = ArmP!InitEncoder(m)
      /\ \A m : Arm!SetLimitSwitchLimits(m) = ArmP!SetLimitSwitchLimits(m)
      /\ \A m : Arm!SetMotorPIDConstants(m) = ArmP!SetMotorPIDConstants(m)
  BY <1>5, Zenon DEF Arm!InitMotor, ArmP!InitMotor, Arm!InitPotentiometer,
         ArmP!InitPotentiometer, Arm!InitEncoder, ArmP!InitEncoder, Arm!SetLimitSwitchLimits,
         ArmP!SetLimitSwitchLimits, Arm!SetMotorPIDConstants, ArmP!SetMotorPIDConstants
<1>7. /\ \A s : Arm!After(s) = ArmP!After(s)
      /\ \A s : Arm!MotorsOf(s) = ArmP!MotorsOf(s)
      /\ \A s, m : Arm!CallsFor(s, m) = ArmP!CallsFor(s, m)
  BY <1>1, <1>5, <1>6, Zenon DEF Arm!After, ArmP!After, Arm!MotorsOf, ArmP!MotorsOf,
         Arm!CallsFor, ArmP!CallsFor
<1>8. /\ \A m, p : Arm!DutyCycle(m, p) = ArmP!DutyCycle(m, p)
      /\ \A m, c : Arm!EnsureMotorMode(m, c) = ArmP!EnsureMotorMode(m, c)
  <2>1. \A x : Arm!Clamp(x) = ArmP!Clamp(x) /\ Arm!Rounded(x) = ArmP!Rounded(x)
    BY SMT DEF Arm!Clamp, ArmP!Clamp, Arm!Rounded, ArmP!Rounded
  <2>2. QED
    BY <1>2, <1>5, <2>1, Zenon DEF Arm!DutyCycle, ArmP!DutyCycle, Arm!EnsureMotorMode,
         ArmP!EnsureMotorMode
<1>9. \A c, r : Arm!InitCAN(c, r) => ArmP!InitCAN(c, r)
  BY <1>1, Zenon DEF Arm!InitCAN, ArmP!InitCAN, Arm!CreateCANSocket, ArmP!CreateCANSocket,
         Arm!boards, ArmP!boards, Arm!objects, ArmP!objects
<1>10. /\ Arm!NextStage => ArmP!NextStage
       /\ \A m : Arm!InitOne(m) => ArmP!InitOne(m)
  BY <1>7, Zenon DEF Arm!NextStage, ArmP!NextStage, Arm!InitOne, ArmP!InitOne, Arm!bus,
         ArmP!bus, Arm!boards, ArmP!boards, Arm!objects, ArmP!objects
<1>11. \A ok \in BOOLEAN : Arm!Send(ok) => ArmP!Send(ok)
  <2>1. \A S : Arm!Cardinality(S) = ArmP!Cardinality(S)
    BY Zenon DEF Arm!Cardinality, ArmP!Cardinality
  <2>2. QED
    BY <2>1, SMT DEF Arm!Send, ArmP!Send, Arm!bus, ArmP!bus, Arm!objects, ArmP!objects
<1>12. /\ Arm!ScheduleTelemetryPull => ArmP!ScheduleTelemetryPull
       /\ Arm!Insert => ArmP!Insert
  BY Zenon DEF Arm!ScheduleTelemetryPull, ArmP!ScheduleTelemetryPull, Arm!Insert, ArmP!Insert,
         Arm!bus, ArmP!bus, Arm!boards, ArmP!boards
<1>13. /\ \A m : Arm!SetMotorPos(m) => ArmP!SetMotorPos(m)
       /\ \A m, p : Arm!SetMotorPower(m, p) => ArmP!SetMotorPower(m, p)
  BY <1>1, <1>5, <1>8, Zenon DEF Arm!SetMotorPos, ArmP!SetMotorPos, Arm!SetMotorPower,
         ArmP!SetMotorPower, Arm!bus, ArmP!bus, Arm!boards, ArmP!boards
<1>14. Arm!Next => ArmP!Next
  BY <1>9, <1>10, <1>11, <1>12, <1>13, Zenon DEF Arm!Next, ArmP!Next, Arm!Circumstances,
         ArmP!Circumstances
<1>15. ArmP!BoardsAreConfigured /\ ArmP!DutyIsAsked
         => Arm!BoardsAreConfigured /\ Arm!DutyIsAsked
  <2>1. \A m, rs : Arm!Arrived(m, rs) <=> ArmP!Arrived(m, rs)
    BY <1>1, Zenon DEF Arm!Arrived, ArmP!Arrived
  <2>2. \A m : Arm!Error(m) = ArmP!Error(m)
    BY <1>2, SMT DEF Arm!Error, ArmP!Error
  <2>3. \A m : Arm!InDuty(m) <=> ArmP!InDuty(m)
    BY <1>1, <2>2, SMT DEF Arm!InDuty, ArmP!InDuty
  <2>4. QED
    BY <1>1, <2>1, <2>3, Zenon DEF Arm!BoardsAreConfigured, ArmP!BoardsAreConfigured,
         Arm!DutyIsAsked, ArmP!DutyIsAsked
<1>16. QED BY <1>3, <1>14, <1>15

OtherP == INSTANCE MotorBoardsProofs WITH
  todo <- bTodo, board <- regs, pulled <- bPulled, motor_mode <- bMode, asked <- bAsked,
  Motors <- OtherMotors

\* Other's definitions are those that MotorBoardsProofs proves about.
LEMMA OtherRuns ==
  /\ Other!Init => OtherP!Init
  /\ Other!Next => OtherP!Next
  /\ OtherP!BoardsAreConfigured /\ OtherP!DutyIsAsked
       => Other!BoardsAreConfigured /\ Other!DutyIsAsked
<1>1. /\ Other!None = OtherP!None /\ Other!NoPower = OtherP!NoPower /\ Other!NoDuty = OtherP!NoDuty
      /\ Other!Registers = OtherP!Registers /\ Other!PotMotors = OtherP!PotMotors
      /\ Other!EncMotors = OtherP!EncMotors /\ Other!PidMotors = OtherP!PidMotors
      /\ Other!Wheels = OtherP!Wheels /\ Other!Stages = OtherP!Stages
  BY SMT DEF Other!None, OtherP!None, Other!NoPower, OtherP!NoPower, Other!NoDuty,
         OtherP!NoDuty, Other!Registers, OtherP!Registers, Other!PotMotors, OtherP!PotMotors,
         Other!EncMotors, OtherP!EncMotors, Other!PidMotors, OtherP!PidMotors, Other!Wheels,
         OtherP!Wheels, Other!Stages, OtherP!Stages
<1>2. Other!PwmScale = OtherP!PwmScale
  BY SMT DEF Other!PwmScale, OtherP!PwmScale
<1>3. Other!Init => OtherP!Init
  BY <1>1, Zenon DEF Other!Init, OtherP!Init
<1>4. \A do, m : Other!Call(do, m) = OtherP!Call(do, m)
  BY <1>1, Zenon DEF Other!Call, OtherP!Call
<1>5. /\ \A m, r, v : Other!Packet(m, r, v) = OtherP!Packet(m, r, v)
      /\ \A m, d : Other!Duty(m, d) = OtherP!Duty(m, d)
      /\ \A m : Other!Pull(m) = OtherP!Pull(m)
      /\ \A m, b : Other!AddMotorMapping(m, b) = OtherP!AddMotorMapping(m, b)
  BY <1>4, Zenon DEF Other!Packet, OtherP!Packet, Other!Duty, OtherP!Duty, Other!Pull,
         OtherP!Pull, Other!AddMotorMapping, OtherP!AddMotorMapping
<1>6. /\ \A m : Other!InitMotor(m) = OtherP!InitMotor(m)
      /\ \A m : Other!InitPotentiometer(m) = OtherP!InitPotentiometer(m)
      /\ \A m : Other!InitEncoder(m) = OtherP!InitEncoder(m)
      /\ \A m : Other!SetLimitSwitchLimits(m) = OtherP!SetLimitSwitchLimits(m)
      /\ \A m : Other!SetMotorPIDConstants(m) = OtherP!SetMotorPIDConstants(m)
  BY <1>5, Zenon DEF Other!InitMotor, OtherP!InitMotor, Other!InitPotentiometer,
         OtherP!InitPotentiometer, Other!InitEncoder, OtherP!InitEncoder,
         Other!SetLimitSwitchLimits, OtherP!SetLimitSwitchLimits, Other!SetMotorPIDConstants,
         OtherP!SetMotorPIDConstants
<1>7. /\ \A s : Other!After(s) = OtherP!After(s)
      /\ \A s : Other!MotorsOf(s) = OtherP!MotorsOf(s)
      /\ \A s, m : Other!CallsFor(s, m) = OtherP!CallsFor(s, m)
  BY <1>1, <1>5, <1>6, Zenon DEF Other!After, OtherP!After, Other!MotorsOf, OtherP!MotorsOf,
         Other!CallsFor, OtherP!CallsFor
<1>8. /\ \A m, p : Other!DutyCycle(m, p) = OtherP!DutyCycle(m, p)
      /\ \A m, c : Other!EnsureMotorMode(m, c) = OtherP!EnsureMotorMode(m, c)
  <2>1. \A x : Other!Clamp(x) = OtherP!Clamp(x) /\ Other!Rounded(x) = OtherP!Rounded(x)
    BY SMT DEF Other!Clamp, OtherP!Clamp, Other!Rounded, OtherP!Rounded
  <2>2. QED
    BY <1>2, <1>5, <2>1, Zenon DEF Other!DutyCycle, OtherP!DutyCycle, Other!EnsureMotorMode,
         OtherP!EnsureMotorMode
<1>9. \A c, r : Other!InitCAN(c, r) => OtherP!InitCAN(c, r)
  BY <1>1, Zenon DEF Other!InitCAN, OtherP!InitCAN, Other!CreateCANSocket,
         OtherP!CreateCANSocket, Other!boards, OtherP!boards, Other!objects, OtherP!objects
<1>10. /\ Other!NextStage => OtherP!NextStage
       /\ \A m : Other!InitOne(m) => OtherP!InitOne(m)
  BY <1>7, Zenon DEF Other!NextStage, OtherP!NextStage, Other!InitOne, OtherP!InitOne,
         Other!bus, OtherP!bus, Other!boards, OtherP!boards, Other!objects, OtherP!objects
<1>11. \A ok \in BOOLEAN : Other!Send(ok) => OtherP!Send(ok)
  <2>1. \A S : Other!Cardinality(S) = OtherP!Cardinality(S)
    BY Zenon DEF Other!Cardinality, OtherP!Cardinality
  <2>2. QED
    BY <2>1, SMT DEF Other!Send, OtherP!Send, Other!bus, OtherP!bus, Other!objects,
         OtherP!objects
<1>12. /\ Other!ScheduleTelemetryPull => OtherP!ScheduleTelemetryPull
       /\ Other!Insert => OtherP!Insert
  BY Zenon DEF Other!ScheduleTelemetryPull, OtherP!ScheduleTelemetryPull, Other!Insert,
         OtherP!Insert, Other!bus, OtherP!bus, Other!boards, OtherP!boards
<1>13. /\ \A m : Other!SetMotorPos(m) => OtherP!SetMotorPos(m)
       /\ \A m, p : Other!SetMotorPower(m, p) => OtherP!SetMotorPower(m, p)
  BY <1>1, <1>5, <1>8, Zenon DEF Other!SetMotorPos, OtherP!SetMotorPos, Other!SetMotorPower,
         OtherP!SetMotorPower, Other!bus, OtherP!bus, Other!boards, OtherP!boards
<1>14. Other!Next => OtherP!Next
  BY <1>9, <1>10, <1>11, <1>12, <1>13, Zenon DEF Other!Next, OtherP!Next, Other!Circumstances,
         OtherP!Circumstances
<1>15. OtherP!BoardsAreConfigured /\ OtherP!DutyIsAsked
         => Other!BoardsAreConfigured /\ Other!DutyIsAsked
  <2>1. \A m, rs : Other!Arrived(m, rs) <=> OtherP!Arrived(m, rs)
    BY <1>1, Zenon DEF Other!Arrived, OtherP!Arrived
  <2>2. \A m : Other!Error(m) = OtherP!Error(m)
    BY <1>2, SMT DEF Other!Error, OtherP!Error
  <2>3. \A m : Other!InDuty(m) <=> OtherP!InDuty(m)
    BY <1>1, <2>2, SMT DEF Other!InDuty, OtherP!InDuty
  <2>4. QED
    BY <1>1, <2>1, <2>3, Zenon DEF Other!BoardsAreConfigured, OtherP!BoardsAreConfigured,
         Other!DutyIsAsked, OtherP!DutyIsAsked
<1>16. QED BY <1>3, <1>14, <1>15

BoardsHold == IF which = "wheels" THEN OtherP!BoardsInv ELSE ArmP!BoardsInv

LEMMA RoversBoards ==
  /\ ArmP!RoversMotors /\ ArmP!UpToFullPower
  /\ OtherP!RoversMotors /\ OtherP!UpToFullPower
<1>1. Arm!PwmScale = ArmP!PwmScale /\ Arm!PwmScale = OtherP!PwmScale
  BY SMT DEF Arm!PwmScale, ArmP!PwmScale, OtherP!PwmScale
<1>2. QED BY <1>1, BoardsAssumption, Zenon DEF ArmP!RoversMotors, ArmP!UpToFullPower,
             OtherP!RoversMotors, OtherP!UpToFullPower

LEMMA BoardsHoldInit == AllInit => BoardsHold
<1>1. AllInit => IF which = "wheels" THEN OtherP!Init ELSE ArmP!Init
  BY ArmRuns, OtherRuns DEF AllInit
<1>2. QED BY RoversBoards, <1>1, ArmP!BoardsInit, OtherP!BoardsInit DEF BoardsHold

LEMMA BoardsHoldStep == BoardsHold /\ [AllNext]_allVars => BoardsHold'
<1> SUFFICES ASSUME BoardsHold, [AllNext]_allVars
             PROVE  BoardsHold'
  OBVIOUS
<1>1. which' = which
  BY DEF AllNext, allVars
<1>2. CASE which = "wheels"
  <2>1. Other!Next \/ UNCHANGED boardVars
    BY <1>2 DEF AllNext, allVars
  <2>2. [OtherP!Next]_OtherP!vars
    BY <2>1, OtherRuns DEF boardVars, OtherP!vars, OtherP!bus, OtherP!boards, OtherP!objects
  <2>3. OtherP!BoardsInv'
    BY RoversBoards, <1>2, <2>2, OtherP!BoardsStep DEF BoardsHold
  <2>4. QED BY <1>1, <1>2, <2>3 DEF BoardsHold
<1>3. CASE which # "wheels"
  <2>1. Arm!Next \/ UNCHANGED boardVars
    BY <1>3 DEF AllNext, allVars
  <2>2. [ArmP!Next]_ArmP!vars
    BY <2>1, ArmRuns DEF boardVars, ArmP!vars, ArmP!bus, ArmP!boards, ArmP!objects
  <2>3. ArmP!BoardsInv'
    BY RoversBoards, <1>3, <2>2, ArmP!BoardsStep DEF BoardsHold
  <2>4. QED BY <1>1, <1>3, <2>3 DEF BoardsHold
<1>4. QED BY <1>2, <1>3

\* real_world_interface.cpp, can_motor.cpp: whatever packets are lost, the boards of any of the
\* rover's motors are configured before they are used, and a board that lost no packet gets the
\* power that was asked last, in the mode for it.
THEOREM BoardsAreConfiguredAlways == AllSpec => []BoardsAreConfigured
<1>1. AllInit => BoardsHold
  BY BoardsHoldInit
<1>2. BoardsHold /\ [AllNext]_allVars => BoardsHold'
  BY BoardsHoldStep
<1>3. BoardsHold => BoardsAreConfigured
  BY RoversBoards, ArmRuns, OtherRuns, ArmP!InvIsConfigured, ArmP!InvIsAsked,
     OtherP!InvIsConfigured, OtherP!InvIsAsked DEF BoardsHold, BoardsAreConfigured
<1>4. QED BY <1>1, <1>2, <1>3, PTL DEF AllSpec

(***************************************************************************)
(* What the steps of the watchdog, of the GPS, of the calibration tool and *)
(* of the detector of landmarks may never do.                              *)
(***************************************************************************)
\* scheduler.h: the watchdog among the devices keeps its promise, for every period.
THEOREM KeepsPromiseAlways == AllSpec => KeepsPromise
<1>1. AllInit => Init
  BY DEF AllInit
<1>2. [AllNext]_allVars => [Next]_vars
  BY DEF AllNext, allVars
<1>3. QED BY <1>1, <1>2, WatchdogImplementsStarvation, PTL DEF AllSpec, Spec

Steps == {"readGPSCoords", "readGPS", "gpsHasFix", "place", "hasFix", "copy"}

\* A position is only placed when its reading has been returned, so with the newest one;
\* and with no reading returned, as from the USB device, there is no map.
GpsInv ==
  IF which = "usb" THEN value = 0 /\ converter = 0 /\ placed = <<0, 0>>
  ELSE /\ gLast \in Nat /\ value \in Nat /\ converter \in Nat /\ placed \in Nat \X Nat
       /\ stack \in Seq(Steps)
       /\ placed[1] <= gLast /\ (placed[2] # 0 => converter = placed[2])
       /\ \A n \in 2..Len(stack) : stack[n] = "place" => stack[n - 1] = "readGPSCoords"
       /\ stack # <<>> /\ stack[1] = "place" => placed[1] <= value /\ value <= gLast

LEMMA GpsInvInit == AllInit => GpsInv
<1> SUFFICES ASSUME AllInit
             PROVE  GpsInv
  OBVIOUS
<1>1. CASE which = "usb"
  BY <1>1 DEF AllInit, GpsInv, Usb!Init, Usb!None
<1>2. CASE which # "usb"
  <2>1. gLast = 0 /\ stack = <<>> /\ value = 0 /\ converter = 0 /\ placed = <<0, 0>>
    BY <1>2 DEF AllInit, Gps!Init, Gps!None
  <2>2. QED BY <1>2, <2>1 DEF GpsInv
<1>3. QED BY <1>1, <1>2

LEMMA Continues ==
  ASSUME NEW s \in Seq(Steps), s # <<>>, NEW l \in Seq(Steps)
  PROVE  /\ l \o Tail(s) \in Seq(Steps) /\ Len(l \o Tail(s)) = Len(l) + Len(s) - 1
         /\ \A n \in 1..Len(l \o Tail(s)) :
              (l \o Tail(s))[n] = IF n <= Len(l) THEN l[n] ELSE s[n - Len(l) + 1]
<1>1. Tail(s) \in Seq(Steps) /\ Len(Tail(s)) = Len(s) - 1 /\ Len(s) \in Nat \ {0}
  BY HeadTailProperties
<1>2. \A n \in 1..Len(Tail(s)) : Tail(s)[n] = s[n + 1]
  BY HeadTailProperties
<1>3. /\ l \o Tail(s) \in Seq(Steps) /\ Len(l \o Tail(s)) = Len(l) + Len(Tail(s))
      /\ \A n \in 1..Len(l) + Len(Tail(s)) :
           (l \o Tail(s))[n] = IF n <= Len(l) THEN l[n] ELSE Tail(s)[n - Len(l)]
  BY <1>1, ConcatProperties
<1>4. Len(l) \in Nat
  BY LenProperties
<1>5. QED BY <1>1, <1>2, <1>3, <1>4

LEMMA GpsInvStep == GpsInv /\ [AllNext]_allVars => GpsInv'
<1> SUFFICES ASSUME GpsInv, [AllNext]_allVars
             PROVE  GpsInv'
  OBVIOUS
<1>1. which' = which
  BY DEF AllNext, allVars
<1>2. CASE which = "usb"
  <2>1. Usb!Next \/ UNCHANGED gpsVars
    BY <1>2 DEF AllNext, allVars
  <2>2. value' = 0 /\ converter' = 0 /\ placed' = <<0, 0>>
    BY <1>2, <2>1 DEF GpsInv, Usb!Next, Usb!StartGPSThread, Usb!Device, Usb!DetectHardware,
       Usb!StoreFix, Usb!Call, Usb!Reader, Usb!ReadGPS, Usb!Place, Usb!GpsHasFix, Usb!HasFix,
       Usb!ReadGPSCoords, Usb!None, Usb!reader, gpsVars
  <2>3. QED BY <1>1, <1>2, <2>2 DEF GpsInv
<1>3. CASE which # "usb"
  <2> USE <1>1, <1>3 DEF GpsInv
  <2>1. Gps!Next \/ UNCHANGED gpsVars
    BY DEF AllNext, allVars
  <2>2. CASE Gps!StartGPSThread \/ Gps!Device \/ Gps!StoreFix \/ UNCHANGED gpsVars
    BY <2>2 DEF Gps!StartGPSThread, Gps!Device, Gps!DetectHardware, Gps!StoreFix, Gps!reader,
       gpsVars
  <2>3. ASSUME NEW f \in {"readGPSCoords", "readGPS", "gpsHasFix"}, Gps!Call(f)
        PROVE  GpsInv'
    <3>1. stack' = <<f>> /\ UNCHANGED <<gLast, value, converter, placed>>
      BY <2>3 DEF Gps!Call
    <3>2. QED BY <3>1 DEF Steps
  <2>4. CASE Gps!ReadGPS
    <3>1. /\ stack # <<>> /\ stack[1] = "readGPS"
          /\ stack' = <<"readGPSCoords", "place">> \o Tail(stack)
          /\ UNCHANGED <<gLast, value, converter, placed>>
      BY <2>4 DEF Gps!ReadGPS, Gps!At, Gps!Continue
    <3>2. <<"readGPSCoords", "place">> \in Seq(Steps)
      BY DEF Steps
    <3>3. QED BY <3>1, <3>2, Continues
  <2>5. CASE Gps!GpsHasFix
    <3>1. /\ stack # <<>> /\ stack[1] = "gpsHasFix"
          /\ UNCHANGED <<gLast, value, converter, placed>>
      BY <2>5 DEF Gps!GpsHasFix, Gps!At
    <3>2. <<"readGPS", "hasFix">> \in Seq(Steps) /\ <<"hasFix">> \in Seq(Steps)
      BY DEF Steps
    <3>3. CASE converter = 0
      <4>1. stack' = <<"readGPS", "hasFix">> \o Tail(stack)
        BY <2>5, <3>3, Zenon DEF Gps!GpsHasFix, Gps!Continue, Gps!None
      <4>2. QED BY <3>1, <3>2, <4>1, Continues
    <3>4. CASE converter # 0
      <4>1. stack' = <<"hasFix">> \o Tail(stack)
        BY <2>5, <3>4, Zenon DEF Gps!GpsHasFix, Gps!Continue, Gps!None
      <4>2. QED BY <3>1, <3>2, <4>1, Continues
    <3>5. QED BY <3>3, <3>4
  <2>6. CASE Gps!ReadGPSCoords
    <3>1. /\ stack # <<>> /\ stack[1] = "readGPSCoords" /\ stack' = <<>> \o Tail(stack)
          /\ value' = gLast /\ UNCHANGED <<gLast, converter, placed>>
      BY <2>6 DEF Gps!ReadGPSCoords, Gps!At, Gps!Continue
    <3>2. <<>> \in Seq(Steps)
      OBVIOUS
    <3>3. QED BY <3>1, <3>2, Continues
  <2>7. CASE Gps!HasFix
    <3>1. /\ stack # <<>> /\ stack[1] = "hasFix" /\ stack' = <<>> \o Tail(stack)
          /\ value' = converter /\ UNCHANGED <<gLast, converter, placed>>
      BY <2>7 DEF Gps!HasFix, Gps!At, Gps!Continue
    <3>2. <<>> \in Seq(Steps)
      OBVIOUS
    <3>3. QED BY <3>1, <3>2, Continues
  <2>8. CASE Gps!Place
    <3>1. /\ stack # <<>> /\ stack[1] = "place" /\ stack' = <<>> \o Tail(stack)
          /\ UNCHANGED <<gLast, value>>
      BY <2>8 DEF Gps!Place, Gps!At, Gps!Continue
    <3>2. \/ UNCHANGED <<converter, placed>>
          \/ /\ converter' = (IF converter = 0 THEN value ELSE converter)
             /\ placed' = <<value, converter'>>
      BY <2>8 DEF Gps!Place, Gps!None
    <3>3. /\ converter' \in Nat /\ placed' \in Nat \X Nat
          /\ placed'[1] <= gLast /\ (placed'[2] # 0 => converter' = placed'[2])
      BY <3>1, <3>2
    <3>4. <<>> \in Seq(Steps)
      OBVIOUS
    <3>5. QED BY <3>1, <3>3, <3>4, Continues
  <2>9. QED BY <2>1, <2>2, <2>3, <2>4, <2>5, <2>6, <2>7, <2>8 DEF Gps!Next, Gps!Reader
<1>4. QED BY <1>2, <1>3

\* gps_common_interface.cpp: positions that are returned one after the other are points of
\* one map, and never go back in time, over either source and for any number of readings.
THEOREM OneMapAlways == AllSpec => OneMap
<1>1. ASSUME GpsInv, [AllNext]_allVars, placed[2] # 0
      PROVE  placed'[2] = placed[2] /\ placed'[1] >= placed[1]
  <2>1. which # "usb"
    BY <1>1 DEF GpsInv
  <2>2. Gps!Next \/ UNCHANGED gpsVars
    BY <1>1, <2>1 DEF AllNext, allVars
  <2>3. CASE Gps!Place
    BY <1>1, <2>1, <2>3 DEF GpsInv, Gps!Place, Gps!At, Gps!None
  <2>4. CASE ~Gps!Place
    <3>1. UNCHANGED placed
      BY <2>2, <2>4 DEF Gps!Next, Gps!StartGPSThread, Gps!Device, Gps!DetectHardware, Gps!StoreFix,
         Gps!Call, Gps!Reader, Gps!ReadGPS, Gps!GpsHasFix, Gps!HasFix, Gps!ReadGPSCoords,
         Gps!reader, gpsVars
    <3>2. QED BY <1>1, <2>1, <3>1 DEF GpsInv
  <2>5. QED BY <2>3, <2>4
<1>2. GpsInv /\ [AllNext]_allVars =>
        [placed[2] # Gps!None => placed'[2] = placed[2] /\ placed'[1] >= placed[1]]_(Gps!vars)
  BY <1>1 DEF Gps!None
<1>3. QED BY GpsInvInit, GpsInvStep, <1>2, PTL DEF AllSpec, OneMap, Gps!OneMap

\* The views that are kept were taken since capturing was started.
CaptureInv ==
  /\ i \in Nat /\ start \in Nat /\ start <= i
  /\ \A v \in imagePoints : v \in Nat /\ start < v /\ v <= i

LEMMA CaptureInvInit == Tool!Init => CaptureInv
BY DEF Tool!Init, CaptureInv

LEMMA CaptureInvStep == CaptureInv /\ [Tool!Next]_toolVars => CaptureInv'
<1> SUFFICES ASSUME CaptureInv, [Tool!Next]_toolVars
             PROVE  CaptureInv'
  OBVIOUS
<1> USE DEF CaptureInv
<1>1. ASSUME NEW n \in NFrames, NEW l \in BOOLEAN, NEW su \in BOOLEAN,
             NEW images \in 0..MaxViews, Tool!ReadOptions(n, l, images, su)
      PROVE  CaptureInv'
  BY <1>1 DEF Tool!ReadOptions
<1>2. ASSUME NEW found \in BOOLEAN, NEW late \in BOOLEAN, Tool!TakeView(found, late)
      PROVE  CaptureInv'
  <2>1. i' = i + 1 /\ start' = start
        /\ (imagePoints' = imagePoints \/ imagePoints' = imagePoints \cup {i'})
    BY <1>2, Zenon DEF Tool!TakeView
  <2>2. QED BY <2>1
<1>3. ASSUME NEW ok \in BOOLEAN, Tool!NoView(ok)
      PROVE  CaptureInv'
  BY <1>3 DEF Tool!NoView
<1>4. ASSUME NEW key, NEW ok \in BOOLEAN, Tool!Key(key, ok)
      PROVE  CaptureInv'
  <2>1. i' = i
        /\ (UNCHANGED <<imagePoints, start>> \/ (imagePoints' = {} /\ start' = i))
    BY <1>4, Zenon DEF Tool!Key, Tool!StartCapturing
  <2>2. QED BY <2>1
<1>5. CASE Tool!ShowUndistorted
  BY <1>5 DEF Tool!ShowUndistorted
<1>6. CASE UNCHANGED toolVars
  BY <1>6 DEF toolVars
<1>7. QED BY <1>1, <1>2, <1>3, <1>4, <1>5, <1>6 DEF Tool!Next

\* What is saved is what is kept, from a calibration that succeeded: when the views are over,
\* or when they are enough.
LEMMA SavesWhatIsKept ==
  ASSUME [Tool!Next]_toolVars, file' # file
  PROVE  /\ file' = [views |-> imagePoints, ok |-> TRUE] /\ UNCHANGED <<imagePoints, nframes>>
         /\ step' = "show" \/ Tool!Cardinality(imagePoints) >= nframes
<1>1. ASSUME NEW ok \in BOOLEAN, Tool!NoView(ok)
      PROVE  /\ file' = [views |-> imagePoints, ok |-> TRUE] /\ UNCHANGED <<imagePoints, nframes>>
             /\ step' = "show"
  <2>1. ok = TRUE
    BY <1>1, Zenon DEF Tool!NoView, Tool!RunAndSave
  <2>2. QED BY <1>1, <2>1, Zenon DEF Tool!NoView, Tool!RunAndSave, Tool!RunCalibration, Tool!options
<1>2. ASSUME NEW key, NEW ok \in BOOLEAN, Tool!Key(key, ok)
      PROVE  /\ file' = [views |-> imagePoints, ok |-> TRUE] /\ UNCHANGED <<imagePoints, nframes>>
             /\ Tool!Cardinality(imagePoints) >= nframes
  <2>1. Tool!Enough(key) /\ key # "esc"
    BY <1>2, Zenon DEF Tool!Key
  <2>2. ok = TRUE
    BY <1>2, <2>1, Zenon DEF Tool!Key, Tool!RunAndSave
  <2>3. QED
    BY <1>2, <2>1, <2>2, Zenon
       DEF Tool!Key, Tool!Enough, Tool!RunAndSave, Tool!RunCalibration, Tool!options
<1>3. CASE UNCHANGED file
  BY <1>3
<1>4. QED
  BY <1>1, <1>2, <1>3
     DEF Tool!Next, Tool!ReadOptions, Tool!TakeView, Tool!ShowUndistorted, toolVars

\* calibration.cpp: what is saved comes from views captured since g was pressed last, as many
\* as were asked for or all that there were, and from a calibration that succeeded.
THEOREM SavesOneCaptureAlways == AllSpec => SavesOneCapture
<1>1. AllInit => CaptureInv
  BY CaptureInvInit DEF AllInit
<1>2. [AllNext]_allVars => [Tool!Next]_toolVars
  BY DEF AllNext, allVars
<1>3. CaptureInv /\ [AllNext]_allVars => CaptureInv'
  BY <1>2, CaptureInvStep
<1>4. ASSUME CaptureInv, CaptureInv', [AllNext]_allVars, file' # file
      PROVE  /\ file'.ok /\ \A v \in file'.views : v > start
             /\ Tool!Cardinality(file'.views) >= nframes \/ step' = "show"
  <2>1. /\ file' = [views |-> imagePoints, ok |-> TRUE]
        /\ step' = "show" \/ Tool!Cardinality(imagePoints) >= nframes
    BY <1>2, <1>4, SavesWhatIsKept
  <2>2. file'.ok = TRUE /\ file'.views = imagePoints
    BY <2>1, Zenon
  <2>3. \A v \in imagePoints : v > start
    BY <1>4 DEF CaptureInv
  <2>4. Tool!Cardinality(file'.views) >= nframes \/ step' = "show"
    BY <2>1, <2>2, Zenon
  <2>5. QED BY <2>2, <2>3, <2>4, Zenon
<1>5. CaptureInv /\ CaptureInv' /\ [AllNext]_allVars =>
        [file' # file => /\ file'.ok /\ \A v \in file'.views : v > start
                         /\ Tool!Cardinality(file'.views) >= nframes \/ step' = "show"]_(Tool!vars)
  BY <1>4
<1>6. QED BY <1>1, <1>3, <1>5, PTL DEF AllSpec, SavesOneCapture, Tool!SavesOneCapture

\* What the detector keeps of a tag is its last sight, or nothing when that is not fresh; and
\* what the last copy did not return is marked.
TagsInv ==
  /\ lNow \in Nat
  /\ output \in [TagIDs -> Nat \cup {-1}] /\ seen \in [TagIDs -> Nat \cup {-1}]
  /\ DOMAIN current_landmarks = TagIDs
  /\ \A t \in TagIDs : \/ current_landmarks[t] = seen[t]
                       \/ current_landmarks[t] = -1 /\ ~Tags!IsFresh(seen[t])
  /\ fresh_data \/ current_landmarks = returned

LEMMA TagsInvInit == Tags!Init => TagsInv
BY DEF Tags!Init, TagsInv, Tags!Nothing, Tags!None

LEMMA TagsInvStep == TagsInv /\ [Tags!Next]_tagVars => TagsInv'
<1> SUFFICES ASSUME TagsInv, [Tags!Next]_tagVars
             PROVE  TagsInv'
  OBVIOUS
<1> USE FreshPeriodAssumption DEF TagsInv, Tags!IsFresh, Tags!None
<1>1. CASE Tags!Tick
  <2>1. lNow' = lNow + 1 /\ UNCHANGED <<output, current_landmarks, fresh_data, seen, returned>>
    BY <1>1 DEF Tags!Tick
  <2>2. \A t \in TagIDs : seen[t] \in Nat \cup {-1}
    OBVIOUS
  <2>3. QED BY <2>1, <2>2
<1>2. ASSUME NEW tags \in SUBSET TagIDs, Tags!DetectTags(tags)
      PROVE  TagsInv'
  BY <1>2 DEF Tags!DetectTags
<1>3. CASE Tags!Store
  <2>1. /\ UNCHANGED <<lNow, output>> /\ fresh_data' = TRUE
        /\ seen' = [t \in TagIDs |-> IF output[t] # -1 THEN output[t] ELSE seen[t]]
        /\ current_landmarks' =
             [t \in TagIDs |-> IF Tags!Overwrites(t) THEN output[t] ELSE current_landmarks[t]]
    BY <1>3 DEF Tags!Store
  <2>2. seen' \in [TagIDs -> Nat \cup {-1}] /\ DOMAIN current_landmarks' = TagIDs
    BY <2>1
  <2>3. ASSUME NEW t \in TagIDs
        PROVE  \/ current_landmarks'[t] = seen'[t]
               \/ current_landmarks'[t] = -1 /\ ~Tags!IsFresh(seen[t])' 
    <3>1. /\ seen'[t] = IF output[t] # -1 THEN output[t] ELSE seen[t]
          /\ current_landmarks'[t] = IF output[t] # -1 \/ ~Tags!IsFresh(current_landmarks[t])
                                     THEN output[t] ELSE current_landmarks[t]
      BY <2>1, <2>3 DEF Tags!Overwrites
    <3>2. QED BY <2>1, <3>1
  <2>4. QED BY <2>1, <2>2, <2>3
<1>4. ASSUME NEW r \in TagReaders, Tags!TestFresh(r)
      PROVE  TagsInv'
  BY <1>4 DEF Tags!TestFresh
<1>5. ASSUME NEW r \in TagReaders, Tags!Copy(r)
      PROVE  TagsInv'
  BY <1>5 DEF Tags!Copy
<1>6. CASE UNCHANGED tagVars
  BY <1>6 DEF tagVars
<1>7. QED BY <1>1, <1>2, <1>3, <1>4, <1>5, <1>6 DEF Tags!Next

LEMMA SightsAreKept == TagsInv /\ Tags!Store => Tags!LastSights
<1> SUFFICES ASSUME TagsInv, Tags!Store, NEW t \in TagIDs
             PROVE  current_landmarks'[t] =
                      IF output[t] # Tags!None \/ Tags!IsFresh(seen[t]) THEN seen'[t] ELSE Tags!None
  BY DEF Tags!LastSights
<1>1. /\ seen'[t] = IF output[t] # -1 THEN output[t] ELSE seen[t]
      /\ current_landmarks'[t] = IF output[t] # -1 \/ ~Tags!IsFresh(current_landmarks[t])
                                 THEN output[t] ELSE current_landmarks[t]
  BY DEF Tags!Store, Tags!Overwrites, Tags!None
<1>2. ~Tags!IsFresh(-1)
  BY DEF Tags!IsFresh, Tags!None
<1>3. QED BY <1>1, <1>2 DEF TagsInv, Tags!None

\* What was read of a joint's motors is told by messages that came, and what a motor's map
\* entry has since is not older.
InHand(j, positions) == \A n \in 1..Len(positions) :
  /\ n <= Len(JointPos!MotorsFor(j)) /\ positions[n] <= messages
  /\ \/ motorPosMap[JointPos!MotorsFor(j)[n]] = 0
     \/ motorPosMap[JointPos!MotorsFor(j)[n]] >= positions[n]

ReportInv ==
  /\ JointInv /\ jLatest = motorPosMap /\ joint \subseteq Joints
  /\ atStart \in [JointPos!Motors -> Nat]
  /\ \A m \in JointPos!Motors : /\ motorPosMap[m] <= messages /\ atStart[m] <= messages
                                /\ motorPosMap[m] = 0 \/ motorPosMap[m] >= atStart[m]
  /\ \A j \in Joints :
       /\ reported[j].positions # <<>> => Len(reported[j].positions) = Len(JointPos!MotorsFor(j))
       /\ InHand(j, reported[j].positions)
  /\ \A j \in joint :
       /\ InHand(j, read)
       /\ \A n \in 1..Len(read) :
            /\ read[n] >= atStart[JointPos!MotorsFor(j)[n]]
            /\ reported[j].positions # <<>> => read[n] >= reported[j].positions[n]

LEMMA ReportInvInit == JointPos!Init => ReportInv
<1> SUFFICES ASSUME JointPos!Init
             PROVE  ReportInv
  OBVIOUS
<1>1. JointInv
  BY JointInvInit
<1>2. messages = 0 /\ motorPosMap = [m \in JointPos!Motors |-> 0] /\ joint = {}
      /\ jLatest = motorPosMap /\ atStart = motorPosMap
      /\ reported = [j \in Joints |-> [positions |-> <<>>, time |-> 0]]
  BY DEF JointPos!Init, JointPos!NoPos
<1>3. \A j \in Joints : reported[j].positions = <<>>
  BY <1>2
<1>4. QED BY <1>1, <1>2, <1>3 DEF ReportInv, InHand

\* A message keeps what was read: the entry that it changes is empty or newest.
LEMMA MessageKeepsInHand ==
  ASSUME ReportInv, NEW m \in JointPos!Motors, NEW valid \in BOOLEAN,
         JointPos!HandleMotorStatus(m, valid), NEW j \in Joints,
         NEW positions \in Seq(Nat \ {0}), InHand(j, positions)
  PROVE  InHand(j, positions)'
<1>1. /\ messages \in Nat /\ messages' = messages + 1
      /\ motorPosMap \in [JointPos!Motors -> Nat] /\ DOMAIN motorPosMap' = JointPos!Motors
      /\ motorPosMap'[m] \in {0, messages'}
      /\ \A k \in JointPos!Motors \ {m} : motorPosMap'[k] = motorPosMap[k]
  BY DEF JointPos!HandleMotorStatus, JointPos!NoPos, ReportInv, JointInv
<1>2. JointPos!MotorsFor(j) \in Seq(JointPos!Motors)
  BY MotorsForIsSeq
<1>3. ASSUME NEW n \in 1..Len(positions)
      PROVE  /\ n <= Len(JointPos!MotorsFor(j)) /\ positions[n] <= messages'
             /\ \/ motorPosMap'[JointPos!MotorsFor(j)[n]] = 0
                \/ motorPosMap'[JointPos!MotorsFor(j)[n]] >= positions[n]
  <2>1. /\ n <= Len(JointPos!MotorsFor(j)) /\ positions[n] <= messages /\ positions[n] \in Nat
        /\ \/ motorPosMap[JointPos!MotorsFor(j)[n]] = 0
           \/ motorPosMap[JointPos!MotorsFor(j)[n]] >= positions[n]
    BY <1>3 DEF InHand
  <2>2. JointPos!MotorsFor(j)[n] \in JointPos!Motors
    <3>1. n \in 1..Len(JointPos!MotorsFor(j))
      BY <1>2, <2>1
    <3>2. QED BY <1>2, <3>1, ElementOfSeq
  <2>3. QED BY <1>1, <2>1, <2>2
<1>4. QED BY <1>3 DEF InHand

LEMMA ReportInvStep == ReportInv /\ [JointPos!Next]_jointVars => ReportInv'
<1> SUFFICES ASSUME ReportInv, [JointPos!Next]_jointVars
             PROVE  ReportInv'
  OBVIOUS
<1>a. JointInv'
  BY JointInvStep DEF ReportInv
<1>b. \A j \in Joints : reported[j].positions \in Seq(Nat \ {0})
  BY DEF ReportInv, JointInv, IsOldest
<1>c. read \in Seq(Nat \ {0}) /\ messages \in Nat /\ motorPosMap \in [JointPos!Motors -> Nat]
  BY DEF ReportInv, JointInv, IsOldest
<1>1. ASSUME NEW m \in JointPos!Motors, NEW valid \in BOOLEAN,
             JointPos!HandleMotorStatus(m, valid)
      PROVE  ReportInv'
  <2>1. /\ messages' = messages + 1 /\ jLatest' = motorPosMap'
        /\ UNCHANGED <<joint, read, reported, atStart>>
        /\ motorPosMap'[m] \in {0, messages'}
        /\ \A k \in JointPos!Motors \ {m} : motorPosMap'[k] = motorPosMap[k]
    BY <1>1, <1>c DEF JointPos!HandleMotorStatus, JointPos!NoPos, JointPos!task
  <2>2. \A j \in Joints : InHand(j, reported[j].positions)'
    <3> TAKE j \in Joints
    <3>1. InHand(j, reported[j].positions) /\ reported[j].positions \in Seq(Nat \ {0})
      BY <1>b DEF ReportInv
    <3>2. PICK positions \in Seq(Nat \ {0}) : positions = reported[j].positions
      BY <3>1
    <3>3. InHand(j, positions)'
      BY <1>1, <3>1, <3>2, MessageKeepsInHand
    <3>4. QED BY <2>1, <3>2, <3>3 DEF InHand
  <2>3. \A j \in joint' : InHand(j, read)'
    BY <1>1, <1>c, <2>1, MessageKeepsInHand DEF ReportInv
  <2>4. \A k \in JointPos!Motors : /\ motorPosMap'[k] <= messages' /\ atStart'[k] <= messages'
                                   /\ motorPosMap'[k] = 0 \/ motorPosMap'[k] >= atStart'[k]
    BY <1>c, <2>1 DEF ReportInv
  <2>5. QED BY <1>a, <2>1, <2>2, <2>3, <2>4 DEF ReportInv
<1>2. ASSUME NEW j \in Joints, JointPos!ReadMotor(j)
      PROVE  ReportInv'
  <2> DEFINE m == JointPos!MotorsFor(j)[Len(read) + 1]
  <2>1. /\ joint = {j} /\ Len(read) < Len(JointPos!MotorsFor(j)) /\ Len(read) \in Nat
        /\ UNCHANGED <<messages, motorPosMap, jLatest, reported, atStart>>
    BY <1>2, <1>c DEF JointPos!ReadMotor
  <2>2. m \in JointPos!Motors
    <3>1. /\ JointPos!MotorsFor(j) \in Seq(JointPos!Motors)
          /\ Len(read) + 1 \in 1..Len(JointPos!MotorsFor(j))
      BY <2>1, MotorsForIsSeq
    <3>2. QED BY <3>1, ElementOfSeq
  <2>3. \A k \in Joints : InHand(k, reported[k].positions)'
    BY <2>1 DEF ReportInv, InHand
  <2>4. CASE joint' = {}
    BY <1>a, <2>1, <2>3, <2>4 DEF ReportInv
  <2>5. CASE joint' # {}
    <3>1. motorPosMap[m] # 0 /\ read' = Append(read, motorPosMap[m]) /\ joint' = joint
      BY <1>2, <2>5 DEF JointPos!ReadMotor, JointPos!GetMotorPos, JointPos!NoPos
    <3>2. /\ Len(read') = Len(read) + 1 /\ read'[Len(read) + 1] = motorPosMap[m]
          /\ \A n \in 1..Len(read) : read'[n] = read[n]
      BY <1>c, <2>2, <3>1, AppendProperties
    <3>3. motorPosMap[m] >= atStart[m] /\ motorPosMap[m] <= messages /\ motorPosMap[m] \in Nat
      BY <1>c, <2>2, <3>1 DEF ReportInv
    <3>4. reported[j].positions # <<>> => motorPosMap[m] >= reported[j].positions[Len(read) + 1]
      <4>1. SUFFICES ASSUME reported[j].positions # <<>>
                     PROVE  motorPosMap[m] >= reported[j].positions[Len(read) + 1]
        OBVIOUS
      <4>2. Len(read) + 1 \in 1..Len(reported[j].positions)
        BY <2>1, <4>1, <1>b DEF ReportInv
      <4>3. QED BY <3>1, <4>2 DEF ReportInv, InHand
    <3>5. ASSUME NEW n \in 1..Len(read')
          PROVE  /\ n <= Len(JointPos!MotorsFor(j)) /\ read'[n] <= messages
                 /\ \/ motorPosMap[JointPos!MotorsFor(j)[n]] = 0
                    \/ motorPosMap[JointPos!MotorsFor(j)[n]] >= read'[n]
                 /\ read'[n] >= atStart[JointPos!MotorsFor(j)[n]]
                 /\ reported[j].positions # <<>> => read'[n] >= reported[j].positions[n]
      <4>1. CASE n = Len(read) + 1
        BY <2>1, <3>2, <3>3, <3>4, <4>1, MotorsForIsSeq
      <4>2. CASE n # Len(read) + 1
        <5>1. n \in 1..Len(read) /\ read'[n] = read[n]
          BY <2>1, <3>2, <4>2
        <5>2. QED BY <2>1, <5>1 DEF ReportInv, InHand
      <4>3. QED BY <4>1, <4>2
    <3>6. InHand(j, read)'
      BY <2>1, <3>5 DEF InHand
    <3>7. QED BY <1>a, <2>1, <2>3, <3>1, <3>5, <3>6 DEF ReportInv
  <2>6. QED BY <2>4, <2>5
<1>3. ASSUME NEW j \in Joints, JointPos!SendJointPositionReport(j)
      PROVE  ReportInv'
  <2>1. /\ joint = {j} /\ joint' = {} /\ Len(read) = Len(JointPos!MotorsFor(j))
        /\ UNCHANGED <<messages, motorPosMap, jLatest, atStart>>
        /\ \A k \in Joints \ {j} : reported'[k] = reported[k]
        /\ reported'[j] = reported[j] \/ reported'[j].positions = read
    BY <1>3 DEF JointPos!SendJointPositionReport, ReportInv, JointInv
  <2>2. \A k \in Joints : InHand(k, reported[k].positions) /\ InHand(j, read)
    BY <2>1 DEF ReportInv
  <2>3. ASSUME NEW k \in Joints
        PROVE  /\ reported'[k].positions # <<>>
                    => Len(reported'[k].positions) = Len(JointPos!MotorsFor(k))
               /\ InHand(k, reported[k].positions)'
    BY <2>1, <2>2 DEF ReportInv, InHand
  <2>4. QED BY <1>a, <2>1, <2>3 DEF ReportInv
<1>4. CASE JointPos!BeginPass
  <2>1. /\ joint' = {} /\ joint = {} /\ atStart' = motorPosMap
        /\ UNCHANGED <<messages, motorPosMap, jLatest, reported>>
    BY <1>4 DEF JointPos!BeginPass, ReportInv
  <2>2. \A k \in Joints : InHand(k, reported[k].positions)'
    BY <2>1 DEF ReportInv, InHand
  <2>3. QED BY <1>a, <1>c, <2>1, <2>2 DEF ReportInv
<1>5. ASSUME NEW j \in Joints, JointPos!BeginJoint(j)
      PROVE  ReportInv'
  <2>1. /\ joint' = {j} /\ read' = <<>>
        /\ UNCHANGED <<messages, motorPosMap, jLatest, reported, atStart>>
    BY <1>5 DEF JointPos!BeginJoint
  <2>2. \A k \in Joints : InHand(k, reported[k].positions)'
    BY <2>1 DEF ReportInv, InHand
  <2>3. Len(read') = 0
    BY <2>1
  <2>4. QED BY <1>a, <2>1, <2>2, <2>3 DEF ReportInv, InHand
<1>6. CASE UNCHANGED jointVars
  BY <1>a, <1>6 DEF jointVars, ReportInv, InHand
<1>7. QED BY <1>1, <1>2, <1>3, <1>4, <1>5, <1>6 DEF JointPos!Next

LEMMA SendsCurrent ==
  ASSUME ReportInv, [JointPos!Next]_jointVars, NEW j \in Joints, reported'[j] # reported[j]
  PROVE  JointPos!Current(j)
<1> SUFFICES ASSUME NEW n \in DOMAIN JointPos!MotorsFor(j)
             PROVE  /\ reported'[j].positions[n] >= atStart[JointPos!MotorsFor(j)[n]]
                    /\ reported[j].time # JointPos!NoPos
                         => reported'[j].positions[n] >= reported[j].positions[n]
  BY DEF JointPos!Current
<1>1. PICK k \in Joints : JointPos!SendJointPositionReport(k)
  BY DEF JointPos!Next, JointPos!HandleMotorStatus, JointPos!BeginPass, JointPos!BeginJoint,
         JointPos!ReadMotor, JointPos!task, jointVars
<1>2. /\ joint = {j} /\ Len(read) = Len(JointPos!MotorsFor(j)) /\ reported'[j].positions = read
  BY <1>1 DEF JointPos!SendJointPositionReport, ReportInv, JointInv
<1>3. n \in 1..Len(read)
  BY <1>2, MotorsForIsSeq
<1>4. reported[j].time # 0 => reported[j].positions # <<>>
  BY DEF ReportInv, JointInv, IsOldest
<1>5. QED BY <1>2, <1>3, <1>4 DEF ReportInv, JointPos!NoPos

\* MissionControlProtocol.cpp, Camera.cpp: a frame that is sent is newer than the last one of
\* its stream, whatever frames come and streams open between passes, and so is what a reader
\* of a camera gets, for any cameras and readers. read_landmarks.cpp, world_interface.h: a
\* good sight is kept while it is fresh and no reader loses one between the flag and the
\* lock, for any landmarks, readers and period; and a joint's report is of positions that are
\* not older than the pass or the report before it.
THEOREM DataIsCurrentAlways == AllSpec => DataIsCurrent
<1> DEFINE Inv == TagsInv /\ ReportInv /\ VideoInv /\ FrameInv /\ Newer
<1>1. AllInit => Inv
  BY TagsInvInit, ReportInvInit, VideoInvInit, FrameInvInit, NewerInit DEF AllInit
<1>2. [AllNext]_allVars => /\ [Tags!Next]_tagVars /\ [JointPos!Next]_jointVars
                           /\ [Video!Next]_videoVars /\ [Camera!Next]_feedVars
  BY DEF AllNext, allVars
<1>3. Inv /\ [AllNext]_allVars => Inv'
  BY <1>2, TagsInvStep, ReportInvStep, VideoInvStep, FrameInvStep, NewerStep
<1>4. Inv' => fresh_data' \/ current_landmarks' = returned'
  BY DEF TagsInv
<1>5. Inv /\ [AllNext]_allVars => [Tags!Store => Tags!LastSights]_(Tags!vars)
  BY SightsAreKept
<1>6. Inv /\ [AllNext]_allVars =>
        [\A j \in Joints : reported'[j] # reported[j] => JointPos!Current(j)]_(JointPos!vars)
  BY <1>2, SendsCurrent
<1>7. Inv /\ [AllNext]_allVars =>
        [Video!Send => vLatest[cam] > openStreams[cam] /\ cam \in encoders]_(Video!vars)
  BY SendKeeps
<1>8. Inv /\ [AllNext]_allVars =>
        [\A r \in CamReaders : reader'[r].at = "idle" /\ reader[r].at = "number" =>
           reader'[r].num > reader[r].last]_(Camera!vars)
  BY <1>2, GivesNewer
<1> HIDE DEF Inv
<1>9. AllSpec => Tags!NoSightLost
  BY <1>1, <1>3, <1>4, PTL DEF AllSpec, Tags!NoSightLost
<1>10. AllSpec => Tags!KeepsFreshSights
  BY <1>1, <1>3, <1>5, PTL DEF AllSpec, Tags!KeepsFreshSights
<1>11. AllSpec => JointPos!ReportsAreCurrent
  BY <1>1, <1>3, <1>6, PTL DEF AllSpec, JointPos!ReportsAreCurrent
<1>12. AllSpec => Video!SendsNewFrames
  BY <1>1, <1>3, <1>7, PTL DEF AllSpec, Video!SendsNewFrames
<1>13. AllSpec => Camera!NoDuplicates
  BY <1>1, <1>3, <1>8, PTL DEF AllSpec, Camera!NoDuplicates
<1>14. QED BY <1>9, <1>10, <1>11, <1>12, <1>13 DEF DataIsCurrent
=============================================================================
