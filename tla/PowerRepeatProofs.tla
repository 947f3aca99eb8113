------------------------- MODULE PowerRepeatProofs -------------------------
(***************************************************************************)
(* Safety of PowerRepeat for every set of velocities, powers and joints.   *)
(***************************************************************************)
EXTENDS PowerRepeat, TLAPS

InCritical(t) == pc[t] \in {"start.thread"} \cup Stopping
RepHoldsRunning == rep \in {"loop"} \cup Sending

\* Who owns the running and the power mutex, from where each thread is.
LockOwners ==
  /\ \A t \in Controllers : InCritical(t) => mutex["running"] = t
  /\ RepHoldsRunning => mutex["running"] = "repeater"
  /\ rep \in Sending => mutex["power"] = "repeater"

\* The repeater sends a velocity only while there is one.
SendsVelocity == rep \in {"left", "right"} => lastVel # None

\* The flag is up wherever a thread relies on having tested it under the mutex.
FlagTested ==
  /\ \A t \in Controllers : pc[t] \in Stopping => running
  /\ RepHoldsRunning => running

\* Only the server thread starts the repeater, and only out of autonomous mode.
StartsInTeleoperation ==
  /\ req["watchdog"] \in {None, "timeout"}
  /\ pc["watchdog"] \notin {"start.running", "start.thread"}
  /\ pc["server"] \in {"start.running", "start.thread"} => ~AUTONOMOUS
  /\ AUTONOMOUS /\ pc["server"] \notin {"stop.enter"} \cup Stopping => ~running

IInv == TypeOK /\ LockOwners /\ SendsVelocity /\ FlagTested /\ StartsInTeleoperation

(***************************************************************************)
(* Type correctness.                                                       *)
(***************************************************************************)
LEMMA InitTypeOK == Init => TypeOK
<1> SUFFICES ASSUME Init PROVE TypeOK
  OBVIOUS
<1>1. mutex \in [MutexNames -> Owners]
  BY DEF Init, Owners
<1>2. pc \in [Controllers -> Labels] /\ req \in [Controllers -> Requests]
  BY DEF Init, Labels, Requests
<1>3. QED BY <1>1, <1>2 DEF Init, TypeOK, Velocities, RepLabels, IKLabels

LEMMA RequestTypeOK ==
  ASSUME TypeOK, Request
  PROVE  TypeOK'
<1> USE DEF TypeOK, globals, stored, motors, Begin, Goto, Labels, Requests,
            Controllers, Velocities, None
<1>1. ASSUME NEW b \in BOOLEAN, EmergencyStopRequest(b)
      PROVE  TypeOK'
  <2>1. req' \in [Controllers -> Requests]
    BY <1>1 DEF EmergencyStopRequest
  <2>2. pc' \in [Controllers -> Labels]
    BY <1>1 DEF EmergencyStopRequest
  <2> HIDE DEF Labels, Requests, Controllers, Begin, Goto
  <2>3. QED BY <1>1, <2>1, <2>2 DEF EmergencyStopRequest
<1>2. ASSUME NEW b \in BOOLEAN, OperationModeRequest(b)
      PROVE  TypeOK'
  <2>1. req' \in [Controllers -> Requests]
    BY <1>2 DEF OperationModeRequest
  <2>2. pc' \in [Controllers -> Labels]
    BY <1>2 DEF OperationModeRequest
  <2> HIDE DEF Labels, Requests, Controllers, Begin, Goto
  <2>3. QED BY <1>2, <2>1, <2>2 DEF OperationModeRequest
<1>3. ASSUME NEW b \in BOOLEAN, SetArmIKEnabled(b)
      PROVE  TypeOK'
  <2>1. req' \in [Controllers -> Requests]
    BY <1>3 DEF SetArmIKEnabled
  <2>2. pc' \in [Controllers -> Labels]
    BY <1>3 DEF SetArmIKEnabled
  <2> HIDE DEF Labels, Requests, Controllers, Begin, Goto
  <2>3. QED BY <1>3, <2>1, <2>2 DEF SetArmIKEnabled
<1>4. ASSUME NEW v \in Vels \cup {Zero}, DriveRequest(v)
      PROVE  TypeOK'
  BY <1>4 DEF DriveRequest
<1>5. ASSUME NEW j \in Joints, NEW p \in Powers \cup {Zero}, JointPowerRequest(j, p)
      PROVE  TypeOK'
  BY <1>5 DEF JointPowerRequest, threads
<1>6. CASE Connect
  BY <1>6 DEF Connect
<1>7. CASE Close
  BY <1>7 DEF Close
<1>8. CASE HeartbeatTimedOut
  BY <1>8 DEF HeartbeatTimedOut
<1>9. QED BY <1>1, <1>2, <1>3, <1>4, <1>5, <1>6, <1>7, <1>8 DEF Request

LEMMA HandlerTypeOK ==
  ASSUME TypeOK, NEW t \in Controllers, Handler(t)
  PROVE  TypeOK'
<1> USE DEF TypeOK, globals, stored, motors
<1>1. CASE StartLockRunning(t)
  <2>1. pc' \in [Controllers -> Labels]
    BY <1>1 DEF StartLockRunning, Goto, Labels
  <2>2. mutex' \in [MutexNames -> Owners]
    BY <1>1 DEF StartLockRunning, MutexNames, Owners, Take
  <2>3. QED BY <1>1, <2>1, <2>2 DEF StartLockRunning
<1>2. CASE StartThread(t)
  <2>1. pc' \in [Controllers -> Labels]
    BY <1>2 DEF StartThread, Goto, Labels, AfterStart, Die, Dead
  <2>2. mutex' \in [MutexNames -> Owners]
    BY <1>2 DEF StartThread, MutexNames, Owners, Release
  <2>3. QED BY <1>2, <2>1, <2>2 DEF StartThread, Die, Dead, RepLabels, IKLabels
<1>3. CASE StopNotRunning(t)
  <2>1. pc' \in [Controllers -> Labels]
    BY <1>3 DEF StopNotRunning, Goto, Labels, AfterStop
  <2>2. QED BY <1>3, <2>1 DEF StopNotRunning
<1>4. CASE StopLockRunning(t)
  <2>1. pc' \in [Controllers -> Labels]
    BY <1>4 DEF StopLockRunning, Goto, Labels, Stopping
  <2>2. mutex' \in [MutexNames -> Owners]
    BY <1>4 DEF StopLockRunning, MutexNames, Owners, Take
  <2>3. QED BY <1>4, <2>1, <2>2 DEF StopLockRunning
<1>5. CASE StopClear(t)
  <2>1. pc' \in [Controllers -> Labels]
    BY <1>5 DEF StopClear, Goto, Labels, Stopping
  <2>2. QED BY <1>5, <2>1 DEF StopClear
<1>6. CASE StopJoints(t)
  <2>1. pc' \in [Controllers -> Labels]
    BY <1>6 DEF StopJoints, Goto, Labels, Stopping
  <2>2. QED BY <1>6, <2>1 DEF StopJoints
<1>7. ASSUME NEW s \in Sides, StopWheel(t, s)
      PROVE  TypeOK'
  <2>1. pc' \in [Controllers -> Labels]
    BY <1>7 DEF StopWheel, Goto, Labels, Stopping
  <2>2. QED BY <1>7, <2>1 DEF StopWheel, Velocities
<1>8. CASE StopSignal(t)
  <2>1. pc' \in [Controllers -> Labels]
    BY <1>8 DEF StopSignal, Goto, Labels
  <2>2. mutex' \in [MutexNames -> Owners]
    BY <1>8 DEF StopSignal, MutexNames, Owners, Release
  <2>3. QED BY <1>8, <2>1, <2>2 DEF StopSignal
<1>9. CASE StopLockThread(t)
  <2>1. pc' \in [Controllers -> Labels]
    BY <1>9 DEF StopLockThread, Goto, Labels
  <2>2. mutex' \in [MutexNames -> Owners]
    BY <1>9 DEF StopLockThread, MutexNames, Owners, Take
  <2>3. QED BY <1>9, <2>1, <2>2 DEF StopLockThread
<1>10. CASE StopJoin(t)
  <2>1. pc' \in [Controllers -> Labels]
    BY <1>10 DEF StopJoin, Goto, Labels, AfterStop
  <2>2. mutex' \in [MutexNames -> Owners]
    BY <1>10 DEF StopJoin, MutexNames, Owners, Release
  <2>3. QED BY <1>10, <2>1, <2>2 DEF StopJoin, RepLabels
<1>11. CASE Halt(t)
  <2>1. pc' \in [Controllers -> Labels]
    BY <1>11 DEF Halt, Goto, Labels
  <2>2. QED BY <1>11, <2>1 DEF Halt, Velocities
<1>12. CASE SetFlag(t)
  <2>1. pc' \in [Controllers -> Labels]
    BY <1>12 DEF SetFlag, Goto, Labels
  <2>2. QED BY <1>12, <2>1 DEF SetFlag
<1>13. CASE IKOff(t)
  <2>1. pc' \in [Controllers -> Labels]
    BY <1>13 DEF IKOff, Goto, Labels
  <2>2. QED BY <1>13, <2>1 DEF IKOff
<1>14. QED
  BY <1>1, <1>2, <1>3, <1>4, <1>5, <1>6, <1>7, <1>8, <1>9, <1>10, <1>11, <1>12, <1>13
  DEF Handler, StopPowerRepeat

LEMMA ServerTypeOK ==
  ASSUME TypeOK, ServerStep
  PROVE  TypeOK'
<1> USE DEF TypeOK, globals, stored, motors
<1>1. CASE Handler("server")
  BY <1>1, HandlerTypeOK DEF Controllers
<1>2. CASE Disconnect
  <2>1. pc' \in [Controllers -> Labels]
    BY <1>2 DEF Disconnect, Goto, Labels
  <2>2. QED BY <1>2, <2>1 DEF Disconnect
<1>3. CASE DriveCheck
  <2>1. pc' \in [Controllers -> Labels]
    BY <1>3 DEF DriveCheck, Goto, Labels
  <2>2. QED BY <1>3, <2>1 DEF DriveCheck
<1>4. ASSUME NEW s \in Sides, DriveWheel(s)
      PROVE  TypeOK'
  <2>1. pc' \in [Controllers -> Labels]
    BY <1>4 DEF DriveWheel, Goto, Labels
  <2>2. QED BY <1>4, <2>1 DEF DriveWheel
<1>5. CASE IKJoin
  <2>1. pc' \in [Controllers -> Labels]
    BY <1>5 DEF IKJoin, Goto, Labels
  <2>2. QED BY <1>5, <2>1 DEF IKJoin, IKLabels
<1>6. CASE IKEnable
  <2>1. pc' \in [Controllers -> Labels]
    BY <1>6 DEF IKEnable, Goto, Labels
  <2>2. QED BY <1>6, <2>1 DEF IKEnable, IKLabels
<1>7. CASE IKEnableInvalid
  <2>1. pc' \in [Controllers -> Labels]
    BY <1>7 DEF IKEnableInvalid, Die, Dead, Labels
  <2>2. QED BY <1>7, <2>1 DEF IKEnableInvalid, Die, Dead, RepLabels, IKLabels
<1>8. QED BY <1>1, <1>2, <1>3, <1>4, <1>5, <1>6, <1>7 DEF ServerStep

LEMMA RepeaterTypeOK ==
  ASSUME TypeOK, SendsVelocity, Repeater
  PROVE  TypeOK'
<1> USE DEF TypeOK, globals, stored, motors
<1>1. CASE RepLockRunning
  <2>1. mutex' \in [MutexNames -> Owners]
    BY <1>1 DEF RepLockRunning, Take, Owners
  <2>2. rep' \in RepLabels
    BY <1>1 DEF RepLockRunning, RepLabels
  <2>3. QED BY <1>1, <2>1, <2>2 DEF RepLockRunning
<1>2. CASE RepLockPower
  <2>1. mutex' \in [MutexNames -> Owners]
    BY <1>2 DEF RepLockPower, Take, Owners
  <2>2. rep' \in RepLabels
    BY <1>2 DEF RepLockPower, RepLabels, Sending
  <2>3. QED BY <1>2, <2>1, <2>2 DEF RepLockPower
<1>3. CASE RepJoints
  <2>1. joint' \in [Joints -> Powers \cup {Zero, IKTarget}]
    BY <1>3 DEF RepJoints
  <2>2. rep' \in RepLabels
    BY <1>3 DEF RepJoints, RepLabels, Sending
  <2>3. QED BY <1>3, <2>1, <2>2 DEF RepJoints
<1>4. ASSUME NEW s \in Sides, RepWheel(s)
      PROVE  TypeOK'
  <2>1. wheel' \in [Sides -> Velocities]
    BY <1>4 DEF RepWheel, Sides, SendsVelocity
  <2>2. rep' \in RepLabels
    BY <1>4 DEF RepWheel, RepLabels, Sending
  <2>3. QED BY <1>4, <2>1, <2>2 DEF RepWheel
<1>5. CASE RepWait
  <2>1. mutex' \in [MutexNames -> Owners]
    BY <1>5 DEF RepWait, Owners
  <2>2. QED BY <1>5, <2>1 DEF RepWait, RepLabels
<1>6. QED BY <1>1, <1>2, <1>3, <1>4, <1>5 DEF Repeater

LEMMA IKTypeOK ==
  ASSUME TypeOK, IKStep
  PROVE  TypeOK'
<1> USE DEF TypeOK, globals, stored, motors
<1>1. CASE IKCheck
  BY <1>1 DEF IKCheck, IKLabels
<1>2. CASE IKSend
  <2>1. joint' \in [Joints -> Powers \cup {Zero, IKTarget}]
    BY <1>2 DEF IKSend
  <2>2. QED BY <1>2, <2>1 DEF IKSend, IKLabels
<1>3. QED BY <1>1, <1>2 DEF IKStep

(***************************************************************************)
(* The mutexes: one step per action, since each moves a thread.            *)
(***************************************************************************)
LEMMA LockOwnersStep ==
  ASSUME TypeOK, LockOwners, Next
  PROVE  LockOwners'
<1> USE DEF TypeOK, LockOwners, InCritical, RepHoldsRunning, Controllers, MutexNames,
            Stopping, Sending, Free, Take, Release, Goto, Begin, threads, None,
            AfterStart, AfterStop
<1>1. CASE Request
  <2>1. ASSUME NEW b \in BOOLEAN, EmergencyStopRequest(b)
        PROVE  LockOwners'
    BY <2>1 DEF EmergencyStopRequest
  <2>2. ASSUME NEW b \in BOOLEAN, OperationModeRequest(b)
        PROVE  LockOwners'
    BY <2>2 DEF OperationModeRequest
  <2>3. ASSUME NEW b \in BOOLEAN, SetArmIKEnabled(b)
        PROVE  LockOwners'
    BY <2>3 DEF SetArmIKEnabled
  <2>4. ASSUME NEW v \in Vels \cup {Zero}, DriveRequest(v)
        PROVE  LockOwners'
    BY <2>4 DEF DriveRequest
  <2>5. ASSUME NEW j \in Joints, NEW p \in Powers \cup {Zero}, JointPowerRequest(j, p)
        PROVE  LockOwners'
    BY <2>5 DEF JointPowerRequest
  <2>6. CASE Connect
    BY <2>6 DEF Connect
  <2>7. CASE Close
    BY <2>7 DEF Close
  <2>8. CASE HeartbeatTimedOut
    BY <2>8 DEF HeartbeatTimedOut
  <2>9. QED
    BY <1>1, <2>1, <2>2, <2>3, <2>4, <2>5, <2>6, <2>7, <2>8
    DEF Request
<1>2. ASSUME NEW t \in Controllers, Handler(t)
      PROVE  LockOwners'
  <2>1. CASE StartLockRunning(t)
    BY <2>1 DEF StartLockRunning
  <2>2. CASE StartThread(t)
    BY <2>2 DEF StartThread, Die, Dead
  <2>3. CASE StopNotRunning(t)
    BY <2>3 DEF StopNotRunning
  <2>4. CASE StopLockRunning(t)
    BY <2>4 DEF StopLockRunning
  <2>5. CASE StopClear(t)
    BY <2>5 DEF StopClear
  <2>6. CASE StopJoints(t)
    BY <2>6 DEF StopJoints
  <2>7. ASSUME NEW s \in Sides, StopWheel(t, s)
        PROVE  LockOwners'
    BY <2>7 DEF StopWheel
  <2>8. CASE StopSignal(t)
    BY <2>8 DEF StopSignal
  <2>9. CASE StopLockThread(t)
    BY <2>9 DEF StopLockThread
  <2>10. CASE StopJoin(t)
    BY <2>10 DEF StopJoin
  <2>11. CASE Halt(t)
    BY <2>11 DEF Halt
  <2>12. CASE SetFlag(t)
    BY <2>12 DEF SetFlag
  <2>13. CASE IKOff(t)
    BY <2>13 DEF IKOff
  <2>14. QED
    BY <1>2, <2>1, <2>2, <2>3, <2>4, <2>5, <2>6, <2>7, <2>8, <2>9, <2>10, <2>11, <2>12, <2>13
    DEF Handler, StopPowerRepeat
<1>3. CASE ServerStep
  <2>1. CASE Disconnect
    BY <2>1 DEF Disconnect
  <2>2. CASE DriveCheck
    BY <2>2 DEF DriveCheck
  <2>3. ASSUME NEW s \in Sides, DriveWheel(s)
        PROVE  LockOwners'
    BY <2>3 DEF DriveWheel
  <2>4. CASE IKJoin
    BY <2>4 DEF IKJoin
  <2>5. CASE IKEnable
    BY <2>5 DEF IKEnable
  <2>6. CASE IKEnableInvalid
    BY <2>6 DEF IKEnableInvalid, Die, Dead
  <2>7. QED
    BY <1>3, <2>1, <2>2, <2>3, <2>4, <2>5, <2>6, <1>2
    DEF ServerStep, Controllers
<1>4. CASE Repeater
  <2>1. CASE RepLockRunning
    BY <2>1 DEF RepLockRunning
  <2>2. CASE RepLockPower
    BY <2>2 DEF RepLockPower
  <2>3. CASE RepJoints
    BY <2>3 DEF RepJoints
  <2>4. ASSUME NEW s \in Sides, RepWheel(s)
        PROVE  LockOwners'
    BY <2>4 DEF RepWheel, Sides
  <2>5. CASE RepWait
    <3>1. mutex["running"] = "repeater" /\ ~InCritical("server") /\ ~InCritical("watchdog")
      BY <2>5 DEF RepWait
    <3>2. ~InCritical("server")' /\ ~InCritical("watchdog")'
      BY <2>5, <3>1 DEF RepWait
    <3>3. ~(RepHoldsRunning)' /\ rep' \notin Sending
      BY <2>5 DEF RepWait
    <3>4. QED BY <3>2, <3>3
  <2>6. QED
    BY <1>4, <2>1, <2>2, <2>3, <2>4, <2>5
    DEF Repeater
<1>5. CASE IKStep
  BY <1>5 DEF IKStep, IKCheck, IKSend
<1>6. QED BY <1>1, <1>2, <1>3, <1>4, <1>5 DEF Next, Controllers

LEMMA SendsVelocityStep ==
  ASSUME TypeOK, LockOwners, SendsVelocity, Next
  PROVE  SendsVelocity'
<1> USE DEF TypeOK, LockOwners, SendsVelocity, Sending, Controllers, MutexNames, Sides,
            Free, Take, Release, Goto, Begin, threads, stored, None, Zero, Velocities
<1>1. CASE Request
  <2>1. ASSUME NEW b \in BOOLEAN, EmergencyStopRequest(b)
        PROVE  SendsVelocity'
    BY <2>1 DEF EmergencyStopRequest
  <2>2. ASSUME NEW b \in BOOLEAN, OperationModeRequest(b)
        PROVE  SendsVelocity'
    BY <2>2 DEF OperationModeRequest
  <2>3. ASSUME NEW b \in BOOLEAN, SetArmIKEnabled(b)
        PROVE  SendsVelocity'
    BY <2>3 DEF SetArmIKEnabled
  <2>4. ASSUME NEW v \in Vels \cup {Zero}, DriveRequest(v)
        PROVE  SendsVelocity'
    BY <2>4 DEF DriveRequest, Velocities
  <2>5. ASSUME NEW j \in Joints, NEW p \in Powers \cup {Zero}, JointPowerRequest(j, p)
        PROVE  SendsVelocity'
    BY <2>5 DEF JointPowerRequest
  <2>6. CASE Connect
    BY <2>6 DEF Connect
  <2>7. CASE Close
    BY <2>7 DEF Close
  <2>8. CASE HeartbeatTimedOut
    BY <2>8 DEF HeartbeatTimedOut
  <2>9. QED
    BY <1>1, <2>1, <2>2, <2>3, <2>4, <2>5, <2>6, <2>7, <2>8
    DEF Request
<1>2. ASSUME NEW t \in Controllers, Handler(t)
      PROVE  SendsVelocity'
  <2>1. CASE StartLockRunning(t)
    BY <2>1 DEF StartLockRunning
  <2>2. CASE StartThread(t)
    BY <2>2 DEF StartThread, Die, Dead
  <2>3. CASE StopNotRunning(t)
    BY <2>3 DEF StopNotRunning
  <2>4. CASE StopLockRunning(t)
    BY <2>4 DEF StopLockRunning
  <2>5. CASE StopClear(t)
    BY <2>5 DEF StopClear
  <2>6. CASE StopJoints(t)
    BY <2>6 DEF StopJoints
  <2>7. ASSUME NEW s \in Sides, StopWheel(t, s)
        PROVE  SendsVelocity'
    BY <2>7 DEF StopWheel
  <2>8. CASE StopSignal(t)
    BY <2>8 DEF StopSignal
  <2>9. CASE StopLockThread(t)
    BY <2>9 DEF StopLockThread
  <2>10. CASE StopJoin(t)
    BY <2>10 DEF StopJoin
  <2>11. CASE Halt(t)
    BY <2>11 DEF Halt
  <2>12. CASE SetFlag(t)
    BY <2>12 DEF SetFlag
  <2>13. CASE IKOff(t)
    BY <2>13 DEF IKOff
  <2>14. QED
    BY <1>2, <2>1, <2>2, <2>3, <2>4, <2>5, <2>6, <2>7, <2>8, <2>9, <2>10, <2>11, <2>12, <2>13
    DEF Handler, StopPowerRepeat
<1>3. CASE ServerStep
  <2>1. CASE Disconnect
    BY <2>1 DEF Disconnect
  <2>2. CASE DriveCheck
    BY <2>2 DEF DriveCheck
  <2>3. ASSUME NEW s \in Sides, DriveWheel(s)
        PROVE  SendsVelocity'
    BY <2>3 DEF DriveWheel
  <2>4. CASE IKJoin
    BY <2>4 DEF IKJoin
  <2>5. CASE IKEnable
    BY <2>5 DEF IKEnable
  <2>6. CASE IKEnableInvalid
    BY <2>6 DEF IKEnableInvalid, Die, Dead
  <2>7. QED
    BY <1>3, <2>1, <2>2, <2>3, <2>4, <2>5, <2>6, <1>2
    DEF ServerStep, Controllers
<1>4. CASE Repeater
  <2>1. CASE RepLockRunning
    BY <2>1 DEF RepLockRunning
  <2>2. CASE RepLockPower
    BY <2>2 DEF RepLockPower
  <2>3. CASE RepJoints
    BY <2>3 DEF RepJoints
  <2>4. ASSUME NEW s \in Sides, RepWheel(s)
        PROVE  SendsVelocity'
    BY <2>4 DEF RepWheel, Sides
  <2>5. CASE RepWait
    BY <2>5 DEF RepWait
  <2>6. QED
    BY <1>4, <2>1, <2>2, <2>3, <2>4, <2>5
    DEF Repeater
<1>5. CASE IKStep
  BY <1>5 DEF IKStep, IKCheck, IKSend
<1>6. QED BY <1>1, <1>2, <1>3, <1>4, <1>5 DEF Next, Controllers

LEMMA FlagTestedStep ==
  ASSUME TypeOK, LockOwners, FlagTested, Next
  PROVE  FlagTested'
<1> USE DEF TypeOK, LockOwners, FlagTested, InCritical, RepHoldsRunning, Controllers, MutexNames,
            Stopping, Sending, Free, Take, Release, Goto, Begin, threads, None,
            AfterStart, AfterStop
<1>1. CASE Request
  <2>1. ASSUME NEW b \in BOOLEAN, EmergencyStopRequest(b)
        PROVE  FlagTested'
    BY <2>1 DEF EmergencyStopRequest
  <2>2. ASSUME NEW b \in BOOLEAN, OperationModeRequest(b)
        PROVE  FlagTested'
    BY <2>2 DEF OperationModeRequest
  <2>3. ASSUME NEW b \in BOOLEAN, SetArmIKEnabled(b)
        PROVE  FlagTested'
    BY <2>3 DEF SetArmIKEnabled
  <2>4. ASSUME NEW v \in Vels \cup {Zero}, DriveRequest(v)
        PROVE  FlagTested'
    BY <2>4 DEF DriveRequest
  <2>5. ASSUME NEW j \in Joints, NEW p \in Powers \cup {Zero}, JointPowerRequest(j, p)
        PROVE  FlagTested'
    BY <2>5 DEF JointPowerRequest
  <2>6. CASE Connect
    BY <2>6 DEF Connect
  <2>7. CASE Close
    BY <2>7 DEF Close
  <2>8. CASE HeartbeatTimedOut
    BY <2>8 DEF HeartbeatTimedOut
  <2>9. QED
    BY <1>1, <2>1, <2>2, <2>3, <2>4, <2>5, <2>6, <2>7, <2>8
    DEF Request
<1>2. ASSUME NEW t \in Controllers, Handler(t)
      PROVE  FlagTested'
  <2>1. CASE StartLockRunning(t)
    BY <2>1 DEF StartLockRunning
  <2>2. CASE StartThread(t)
    BY <2>2 DEF StartThread, Die, Dead
  <2>3. CASE StopNotRunning(t)
    BY <2>3 DEF StopNotRunning
  <2>4. CASE StopLockRunning(t)
    BY <2>4 DEF StopLockRunning
  <2>5. CASE StopClear(t)
    BY <2>5 DEF StopClear
  <2>6. CASE StopJoints(t)
    BY <2>6 DEF StopJoints
  <2>7. ASSUME NEW s \in Sides, StopWheel(t, s)
        PROVE  FlagTested'
    BY <2>7 DEF StopWheel
  <2>8. CASE StopSignal(t)
    BY <2>8 DEF StopSignal
  <2>9. CASE StopLockThread(t)
    BY <2>9 DEF StopLockThread
  <2>10. CASE StopJoin(t)
    BY <2>10 DEF StopJoin
  <2>11. CASE Halt(t)
    BY <2>11 DEF Halt
  <2>12. CASE SetFlag(t)
    BY <2>12 DEF SetFlag
  <2>13. CASE IKOff(t)
    BY <2>13 DEF IKOff
  <2>14. QED
    BY <1>2, <2>1, <2>2, <2>3, <2>4, <2>5, <2>6, <2>7, <2>8, <2>9, <2>10, <2>11, <2>12, <2>13
    DEF Handler, StopPowerRepeat
<1>3. CASE ServerStep
  <2>1. CASE Disconnect
    BY <2>1 DEF Disconnect
  <2>2. CASE DriveCheck
    BY <2>2 DEF DriveCheck
  <2>3. ASSUME NEW s \in Sides, DriveWheel(s)
        PROVE  FlagTested'
    BY <2>3 DEF DriveWheel
  <2>4. CASE IKJoin
    BY <2>4 DEF IKJoin
  <2>5. CASE IKEnable
    BY <2>5 DEF IKEnable
  <2>6. CASE IKEnableInvalid
    BY <2>6 DEF IKEnableInvalid, Die, Dead
  <2>7. QED
    BY <1>3, <2>1, <2>2, <2>3, <2>4, <2>5, <2>6, <1>2
    DEF ServerStep, Controllers
<1>4. CASE Repeater
  <2>1. CASE RepLockRunning
    BY <2>1 DEF RepLockRunning
  <2>2. CASE RepLockPower
    BY <2>2 DEF RepLockPower
  <2>3. CASE RepJoints
    BY <2>3 DEF RepJoints
  <2>4. ASSUME NEW s \in Sides, RepWheel(s)
        PROVE  FlagTested'
    BY <2>4 DEF RepWheel, Sides
  <2>5. CASE RepWait
    BY <2>5 DEF RepWait
  <2>6. QED
    BY <1>4, <2>1, <2>2, <2>3, <2>4, <2>5
    DEF Repeater
<1>5. CASE IKStep
  BY <1>5 DEF IKStep, IKCheck, IKSend
<1>6. QED BY <1>1, <1>2, <1>3, <1>4, <1>5 DEF Next, Controllers

LEMMA StartsInTeleoperationStep ==
  ASSUME TypeOK, LockOwners, FlagTested, StartsInTeleoperation, Next
  PROVE  StartsInTeleoperation'
<1> USE DEF TypeOK, FlagTested, StartsInTeleoperation, Controllers, Stopping, globals,
            Free, Take, Release, Goto, Begin, threads, None, AfterStart, AfterStop
<1>1. CASE Request
  <2>1. ASSUME NEW b \in BOOLEAN, EmergencyStopRequest(b)
        PROVE  StartsInTeleoperation'
    BY <2>1 DEF EmergencyStopRequest
  <2>2. ASSUME NEW b \in BOOLEAN, OperationModeRequest(b)
        PROVE  StartsInTeleoperation'
    BY <2>2 DEF OperationModeRequest
  <2>3. ASSUME NEW b \in BOOLEAN, SetArmIKEnabled(b)
        PROVE  StartsInTeleoperation'
    BY <2>3 DEF SetArmIKEnabled
  <2>4. ASSUME NEW v \in Vels \cup {Zero}, DriveRequest(v)
        PROVE  StartsInTeleoperation'
    BY <2>4 DEF DriveRequest
  <2>5. ASSUME NEW j \in Joints, NEW p \in Powers \cup {Zero}, JointPowerRequest(j, p)
        PROVE  StartsInTeleoperation'
    BY <2>5 DEF JointPowerRequest
  <2>6. CASE Connect
    BY <2>6 DEF Connect
  <2>7. CASE Close
    BY <2>7 DEF Close
  <2>8. CASE HeartbeatTimedOut
    BY <2>8 DEF HeartbeatTimedOut
  <2>9. QED
    BY <1>1, <2>1, <2>2, <2>3, <2>4, <2>5, <2>6, <2>7, <2>8
    DEF Request
<1>2. ASSUME NEW t \in Controllers, Handler(t)
      PROVE  StartsInTeleoperation'
  <2>1. CASE StartLockRunning(t)
    BY <2>1 DEF StartLockRunning
  <2>2. CASE StartThread(t)
    BY <2>2 DEF StartThread, Die, Dead
  <2>3. CASE StopNotRunning(t)
    BY <2>3 DEF StopNotRunning
  <2>4. CASE StopLockRunning(t)
    BY <2>4 DEF StopLockRunning
  <2>5. CASE StopClear(t)
    BY <2>5 DEF StopClear
  <2>6. CASE StopJoints(t)
    BY <2>6 DEF StopJoints
  <2>7. ASSUME NEW s \in Sides, StopWheel(t, s)
        PROVE  StartsInTeleoperation'
    BY <2>7 DEF StopWheel
  <2>8. CASE StopSignal(t)
    BY <2>8 DEF StopSignal
  <2>9. CASE StopLockThread(t)
    BY <2>9 DEF StopLockThread
  <2>10. CASE StopJoin(t)
    BY <2>10 DEF StopJoin
  <2>11. CASE Halt(t)
    BY <2>11 DEF Halt
  <2>12. CASE SetFlag(t)
    BY <2>12 DEF SetFlag
  <2>13. CASE IKOff(t)
    BY <2>13 DEF IKOff
  <2>14. QED
    BY <1>2, <2>1, <2>2, <2>3, <2>4, <2>5, <2>6, <2>7, <2>8, <2>9, <2>10, <2>11, <2>12, <2>13
    DEF Handler, StopPowerRepeat
<1>3. CASE ServerStep
  <2>1. CASE Disconnect
    BY <2>1 DEF Disconnect
  <2>2. CASE DriveCheck
    BY <2>2 DEF DriveCheck
  <2>3. ASSUME NEW s \in Sides, DriveWheel(s)
        PROVE  StartsInTeleoperation'
    BY <2>3 DEF DriveWheel
  <2>4. CASE IKJoin
    BY <2>4 DEF IKJoin
  <2>5. CASE IKEnable
    BY <2>5 DEF IKEnable
  <2>6. CASE IKEnableInvalid
    BY <2>6 DEF IKEnableInvalid, Die, Dead
  <2>7. QED
    BY <1>3, <2>1, <2>2, <2>3, <2>4, <2>5, <2>6, <1>2
    DEF ServerStep, Controllers
<1>4. CASE Repeater
  <2>1. CASE RepLockRunning
    BY <2>1 DEF RepLockRunning
  <2>2. CASE RepLockPower
    BY <2>2 DEF RepLockPower
  <2>3. CASE RepJoints
    BY <2>3 DEF RepJoints
  <2>4. ASSUME NEW s \in Sides, RepWheel(s)
        PROVE  StartsInTeleoperation'
    BY <2>4 DEF RepWheel, Sides
  <2>5. CASE RepWait
    BY <2>5 DEF RepWait
  <2>6. QED
    BY <1>4, <2>1, <2>2, <2>3, <2>4, <2>5
    DEF Repeater
<1>5. CASE IKStep
  BY <1>5 DEF IKStep, IKCheck, IKSend
<1>6. QED BY <1>1, <1>2, <1>3, <1>4, <1>5 DEF Next, Controllers

(***************************************************************************)
(* The theorems.                                                           *)
(***************************************************************************)
LEMMA IInvInit == Init => IInv
BY InitTypeOK
DEF Init, IInv, LockOwners, SendsVelocity, FlagTested, StartsInTeleoperation,
    InCritical, RepHoldsRunning, Stopping, Sending, Controllers, None

LEMMA IInvStep == IInv /\ [Next]_vars => IInv'
<1> SUFFICES ASSUME IInv, [Next]_vars
             PROVE  IInv'
  OBVIOUS
<1>1. CASE Next
  <2>1. TypeOK'
    BY <1>1, RequestTypeOK, HandlerTypeOK, ServerTypeOK, RepeaterTypeOK, IKTypeOK
    DEF IInv, Next, Controllers
  <2>2. QED
    BY <1>1, <2>1, LockOwnersStep, SendsVelocityStep, FlagTestedStep,
       StartsInTeleoperationStep DEF IInv
<1>2. CASE UNCHANGED vars
  BY <1>2 DEF vars, globals, stored, motors, threads, IInv, TypeOK, LockOwners,
              SendsVelocity, FlagTested, StartsInTeleoperation, InCritical, RepHoldsRunning
<1>3. QED BY <1>1, <1>2

\* The inductive invariant: types, who holds each mutex, what the repeater may send,
\* when its flag is up, and that a start under way belongs to teleoperation.
THEOREM IInvHolds == Spec => []IInv
<1>1. QED BY IInvInit, IInvStep, PTL DEF Spec

\* Every variable keeps its type; in particular the repeater never sends the empty
\* _last_cmd_vel, because it tests it and sends it under one lock of its mutex.
THEOREM TypeCorrect == Spec => []TypeOK
<1>1. IInv => TypeOK
  BY DEF IInv
<1>2. QED BY IInvHolds, <1>1, PTL

\* The repeater commands a motor only with its flag up (line 427), whatever the two
\* controllers do.
THEOREM FlagObeyed == Spec => []RepeaterObeysFlag
<1>1. IInv => RepeaterObeysFlag
  BY DEF IInv, FlagTested, RepHoldsRunning, RepeaterObeysFlag
<1>2. QED BY IInvHolds, <1>1, PTL

\* In autonomous mode the repeater is off and sends nothing as soon as the server
\* thread is past the stop, even when the watchdog was stopping it at the same time.
THEOREM SilentInAutonomous == Spec => []RepeaterSilentInAutonomous
<1>1. IInv => RepeaterSilentInAutonomous
  BY DEF IInv, FlagTested, RepHoldsRunning, StartsInTeleoperation,
         RepeaterSilentInAutonomous
<1>2. QED BY IInvHolds, <1>1, PTL

(***************************************************************************)
(* Joints.                                                                 *)
(***************************************************************************)
LEMMA JointsStep ==
  ASSUME TypeOK, JointsAsRequested, Next
  PROVE  JointsAsRequested'
<1> USE DEF TypeOK, JointsAsRequested, Controllers, Dead, Reachable, stored, motors,
            Goto, Begin, threads, None, AfterStart, AfterStop
<1>1. CASE Request
  <2>1. ASSUME NEW b \in BOOLEAN, EmergencyStopRequest(b)
        PROVE  JointsAsRequested'
    BY <2>1 DEF EmergencyStopRequest
  <2>2. ASSUME NEW b \in BOOLEAN, OperationModeRequest(b)
        PROVE  JointsAsRequested'
    BY <2>2 DEF OperationModeRequest
  <2>3. ASSUME NEW b \in BOOLEAN, SetArmIKEnabled(b)
        PROVE  JointsAsRequested'
    BY <2>3 DEF SetArmIKEnabled
  <2>4. ASSUME NEW v \in Vels \cup {Zero}, DriveRequest(v)
        PROVE  JointsAsRequested'
    BY <2>4 DEF DriveRequest
  <2>5. ASSUME NEW j \in Joints, NEW p \in Powers \cup {Zero}, JointPowerRequest(j, p)
        PROVE  JointsAsRequested'
    BY <2>5 DEF JointPowerRequest
  <2>6. CASE Connect
    BY <2>6 DEF Connect
  <2>7. CASE Close
    BY <2>7 DEF Close
  <2>8. CASE HeartbeatTimedOut
    BY <2>8 DEF HeartbeatTimedOut
  <2>9. QED
    BY <1>1, <2>1, <2>2, <2>3, <2>4, <2>5, <2>6, <2>7, <2>8
    DEF Request
<1>2. ASSUME NEW t \in Controllers, Handler(t)
      PROVE  JointsAsRequested'
  <2>1. CASE StartLockRunning(t)
    BY <2>1 DEF StartLockRunning
  <2>2. CASE StartThread(t)
    BY <2>2 DEF StartThread, Die
  <2>3. CASE StopNotRunning(t)
    BY <2>3 DEF StopNotRunning
  <2>4. CASE StopLockRunning(t)
    BY <2>4 DEF StopLockRunning
  <2>5. CASE StopClear(t)
    BY <2>5 DEF StopClear
  <2>6. CASE StopJoints(t)
    BY <2>6, ValuesAssumption DEF StopJoints
  <2>7. ASSUME NEW s \in Sides, StopWheel(t, s)
        PROVE  JointsAsRequested'
    BY <2>7 DEF StopWheel
  <2>8. CASE StopSignal(t)
    BY <2>8 DEF StopSignal
  <2>9. CASE StopLockThread(t)
    BY <2>9 DEF StopLockThread
  <2>10. CASE StopJoin(t)
    BY <2>10 DEF StopJoin
  <2>11. CASE Halt(t)
    BY <2>11, ValuesAssumption DEF Halt
  <2>12. CASE SetFlag(t)
    BY <2>12 DEF SetFlag
  <2>13. CASE IKOff(t)
    BY <2>13 DEF IKOff
  <2>14. QED
    BY <1>2, <2>1, <2>2, <2>3, <2>4, <2>5, <2>6, <2>7, <2>8, <2>9, <2>10, <2>11, <2>12, <2>13
    DEF Handler, StopPowerRepeat
<1>3. CASE ServerStep
  <2>1. CASE Disconnect
    BY <2>1 DEF Disconnect
  <2>2. CASE DriveCheck
    BY <2>2 DEF DriveCheck
  <2>3. ASSUME NEW s \in Sides, DriveWheel(s)
        PROVE  JointsAsRequested'
    BY <2>3 DEF DriveWheel
  <2>4. CASE IKJoin
    BY <2>4 DEF IKJoin
  <2>5. CASE IKEnable
    BY <2>5 DEF IKEnable
  <2>6. CASE IKEnableInvalid
    BY <2>6 DEF IKEnableInvalid, Die
  <2>7. QED
    BY <1>3, <2>1, <2>2, <2>3, <2>4, <2>5, <2>6, <1>2
    DEF ServerStep, Controllers
<1>4. CASE Repeater
  <2>1. CASE RepLockRunning
    BY <2>1 DEF RepLockRunning
  <2>2. CASE RepLockPower
    BY <2>2 DEF RepLockPower
  <2>3. CASE RepJoints
    BY <2>3 DEF RepJoints
  <2>4. ASSUME NEW s \in Sides, RepWheel(s)
        PROVE  JointsAsRequested'
    BY <2>4 DEF RepWheel, Sides
  <2>5. CASE RepWait
    BY <2>5 DEF RepWait
  <2>6. QED
    BY <1>4, <2>1, <2>2, <2>3, <2>4, <2>5
    DEF Repeater
<1>5. CASE IKStep
  BY <1>5 DEF IKStep, IKCheck, IKSend
<1>6. QED BY <1>1, <1>2, <1>3, <1>4, <1>5 DEF Next, Controllers

\* A joint that has power is in the repeater's map with that power, whatever the
\* requests, the repeater and the stops on both threads do.
THEOREM JointsFollowMap == Spec => []JointsAsRequested
<1>1. Init => JointsAsRequested
  BY ValuesAssumption DEF Init, JointsAsRequested
<1>2. TypeOK /\ JointsAsRequested /\ [Next]_vars => JointsAsRequested'
  <2>1. ASSUME JointsAsRequested, UNCHANGED vars
        PROVE  JointsAsRequested'
    BY <2>1 DEF vars, stored, motors, threads, JointsAsRequested
  <2>2. QED BY JointsStep, <2>1
<1>3. QED BY TypeCorrect, <1>1, <1>2, PTL DEF Spec

(***************************************************************************)
(* When mission control answers every ping, the server thread is the only  *)
(* controller.                                                             *)
(***************************************************************************)
WheelsStill == \A s \in Sides : wheel[s] = Zero

OneController ==
  /\ pc["watchdog"] \in {"idle"} \cup Dead /\ \A m \in MutexNames : mutex[m] # "watchdog"
  /\ rep \in Dead \/ pc["watchdog"] \in Dead => pc["server"] \in Dead
  /\ rep # "terminated"
  \* a finished repeater is joined before the server does anything else
  /\ ~running /\ rep \notin {None} \cup Dead => pc["server"] \in {"stop.thread", "stop.join"}
  \* between the stop and the emergency stop flag the repeater stays off
  /\ pc["server"] \in {"stop.thread", "stop.join", "halt"} => ~running
  /\ pc["server"] = "flag" /\ req["server"] # "release" => ~running /\ WheelsStill
  \* under the flag, whoever is past the test of robot::setCmdVel sends zero
  /\ E_STOP => /\ WheelsStill
               /\ pc["server"] \in {"drive.left", "drive.right"} => vel = Zero
               /\ rep \in {"left", "right"} => lastVel = Zero

LEMMA OneControllerStep ==
  ASSUME ~HeartbeatMayFail, IInv, OneController, Next
  PROVE  OneController'
<1> USE DEF IInv, TypeOK, LockOwners, FlagTested, InCritical, RepHoldsRunning,
            OneController, WheelsStill, Controllers, MutexNames, Dead, Stopping, Sending, Sides,
            Refused, globals,
            stored, motors, Free, Take, Release, Goto, Begin, threads, None, Zero,
            AfterStart, AfterStop
<1>1. CASE Request
  <2>1. ASSUME NEW b \in BOOLEAN, EmergencyStopRequest(b)
        PROVE  OneController'
    BY <2>1 DEF EmergencyStopRequest
  <2>2. ASSUME NEW b \in BOOLEAN, OperationModeRequest(b)
        PROVE  OneController'
    BY <2>2 DEF OperationModeRequest
  <2>3. ASSUME NEW b \in BOOLEAN, SetArmIKEnabled(b)
        PROVE  OneController'
    BY <2>3 DEF SetArmIKEnabled
  <2>4. ASSUME NEW v \in Vels \cup {Zero}, DriveRequest(v)
        PROVE  OneController'
    BY <2>4 DEF DriveRequest
  <2>5. ASSUME NEW j \in Joints, NEW p \in Powers \cup {Zero}, JointPowerRequest(j, p)
        PROVE  OneController'
    BY <2>5 DEF JointPowerRequest
  <2>6. CASE Connect
    BY <2>6 DEF Connect
  <2>7. CASE Close
    BY <2>7 DEF Close
  <2>8. CASE HeartbeatTimedOut
    BY <2>8 DEF HeartbeatTimedOut
  <2>9. QED
    BY <1>1, <2>1, <2>2, <2>3, <2>4, <2>5, <2>6, <2>7, <2>8
    DEF Request
<1>2. ASSUME NEW t \in Controllers, Handler(t)
      PROVE  OneController'
  <2>1. CASE StartLockRunning(t)
    BY <2>1 DEF StartLockRunning
  <2>2. CASE StartThread(t)
    BY <2>2 DEF StartThread, Die
  <2>3. CASE StopNotRunning(t)
    BY <2>3 DEF StopNotRunning
  <2>4. CASE StopLockRunning(t)
    BY <2>4 DEF StopLockRunning
  <2>5. CASE StopClear(t)
    BY <2>5 DEF StopClear
  <2>6. CASE StopJoints(t)
    BY <2>6 DEF StopJoints
  <2>7. ASSUME NEW s \in Sides, StopWheel(t, s)
        PROVE  OneController'
    BY <2>7 DEF StopWheel
  <2>8. CASE StopSignal(t)
    BY <2>8 DEF StopSignal
  <2>9. CASE StopLockThread(t)
    BY <2>9 DEF StopLockThread
  <2>10. CASE StopJoin(t)
    BY <2>10 DEF StopJoin
  <2>11. CASE Halt(t)
    BY <2>11 DEF Halt
  <2>12. CASE SetFlag(t)
    BY <2>12 DEF SetFlag
  <2>13. CASE IKOff(t)
    BY <2>13 DEF IKOff
  <2>14. QED
    BY <1>2, <2>1, <2>2, <2>3, <2>4, <2>5, <2>6, <2>7, <2>8, <2>9, <2>10, <2>11, <2>12, <2>13
    DEF Handler, StopPowerRepeat
<1>3. CASE ServerStep
  <2>1. CASE Disconnect
    BY <2>1 DEF Disconnect
  <2>2. CASE DriveCheck
    BY <2>2 DEF DriveCheck
  <2>3. ASSUME NEW s \in Sides, DriveWheel(s)
        PROVE  OneController'
    BY <2>3 DEF DriveWheel
  <2>4. CASE IKJoin
    BY <2>4 DEF IKJoin
  <2>5. CASE IKEnable
    BY <2>5 DEF IKEnable
  <2>6. CASE IKEnableInvalid
    BY <2>6 DEF IKEnableInvalid, Die
  <2>7. QED
    BY <1>3, <2>1, <2>2, <2>3, <2>4, <2>5, <2>6, <1>2
    DEF ServerStep, Controllers
<1>4. CASE Repeater
  <2>1. CASE RepLockRunning
    BY <2>1 DEF RepLockRunning
  <2>2. CASE RepLockPower
    BY <2>2 DEF RepLockPower
  <2>3. CASE RepJoints
    BY <2>3 DEF RepJoints
  <2>4. ASSUME NEW s \in Sides, RepWheel(s)
        PROVE  OneController'
    BY <2>4 DEF RepWheel
  <2>5. CASE RepWait
    BY <2>5 DEF RepWait
  <2>6. QED
    BY <1>4, <2>1, <2>2, <2>3, <2>4, <2>5
    DEF Repeater
<1>5. CASE IKStep
  BY <1>5 DEF IKStep, IKCheck, IKSend
<1>6. QED BY <1>1, <1>2, <1>3, <1>4, <1>5 DEF Next, Controllers

LEMMA OneControllerHolds ==
  ASSUME ~HeartbeatMayFail
  PROVE  Spec => []OneController
<1>1. Init => OneController
  BY DEF Init, OneController, WheelsStill, Dead, Controllers, MutexNames, None
<1>2. IInv /\ OneController /\ [Next]_vars => OneController'
  <2>1. ASSUME OneController, UNCHANGED vars
        PROVE  OneController'
    BY <2>1 DEF vars, globals, stored, motors, threads, OneController, WheelsStill
  <2>2. QED BY OneControllerStep, <2>1
<1>3. QED BY IInvHolds, <1>1, <1>2, PTL DEF Spec

\* As long as the watchdog does not interfere, no wheel moves under the emergency
\* stop flag: not through a request, nor through a repeater started meanwhile.
THEOREM EstopStopsWheels ==
  ASSUME ~HeartbeatMayFail
  PROVE  Spec => []WheelsStoppedInEstop
<1>1. OneController => WheelsStoppedInEstop
  BY DEF OneController, WheelsStill, WheelsStoppedInEstop
<1>2. QED BY OneControllerHolds, <1>1, PTL

\* As long as the watchdog does not interfere, startPowerRepeat never assigns to a
\* std::thread that is still joinable.
THEOREM HandleIsFree ==
  ASSUME ~HeartbeatMayFail
  PROVE  Spec => []NeverTerminates
<1>1. OneController => NeverTerminates
  BY DEF OneController, NeverTerminates
<1>2. QED BY OneControllerHolds, <1>1, PTL

(***************************************************************************)
(* Who waits for whom: besides LockOwners, a mutex that has an owner is    *)
(* held only where the owner's code can still release it.                  *)
(***************************************************************************)
OwnersHold ==
  /\ \A t \in Controllers :
       /\ mutex["running"] = t => InCritical(t) \/ pc[t] \in Dead
       /\ mutex["thread"] = t => pc[t] \in {"stop.join"} \cup Dead
  /\ mutex["running"] = "repeater" => RepHoldsRunning \/ rep \in Dead
  /\ mutex["power"] = "repeater" => rep \in Sending \cup Dead
  /\ mutex["power"] \in {"repeater", None}
  /\ mutex["thread"] # "repeater"

LEMMA OwnersHoldStep ==
  ASSUME TypeOK, OwnersHold, Next
  PROVE  OwnersHold'
<1> USE DEF TypeOK, OwnersHold, InCritical, RepHoldsRunning, MutexNames,
            Controllers, Dead, Stopping, Sending, Sides, globals, stored, motors,
            Free, Take, Release, Goto, Begin, threads, None, Zero, AfterStart, AfterStop
<1>1. CASE Request
  <2>1. ASSUME NEW b \in BOOLEAN, EmergencyStopRequest(b)
        PROVE  OwnersHold'
    BY <2>1 DEF EmergencyStopRequest
  <2>2. ASSUME NEW b \in BOOLEAN, OperationModeRequest(b)
        PROVE  OwnersHold'
    BY <2>2 DEF OperationModeRequest
  <2>3. ASSUME NEW b \in BOOLEAN, SetArmIKEnabled(b)
        PROVE  OwnersHold'
    BY <2>3 DEF SetArmIKEnabled
  <2>4. ASSUME NEW v \in Vels \cup {Zero}, DriveRequest(v)
        PROVE  OwnersHold'
    BY <2>4 DEF DriveRequest
  <2>5. ASSUME NEW j \in Joints, NEW p \in Powers \cup {Zero}, JointPowerRequest(j, p)
        PROVE  OwnersHold'
    BY <2>5 DEF JointPowerRequest
  <2>6. CASE Connect
    BY <2>6 DEF Connect
  <2>7. CASE Close
    BY <2>7 DEF Close
  <2>8. CASE HeartbeatTimedOut
    BY <2>8 DEF HeartbeatTimedOut
  <2>9. QED
    BY <1>1, <2>1, <2>2, <2>3, <2>4, <2>5, <2>6, <2>7, <2>8
    DEF Request
<1>2. ASSUME NEW t \in Controllers, Handler(t)
      PROVE  OwnersHold'
  <2>1. CASE StartLockRunning(t)
    BY <2>1 DEF StartLockRunning
  <2>2. CASE StartThread(t)
    BY <2>2 DEF StartThread, Die
  <2>3. CASE StopNotRunning(t)
    BY <2>3 DEF StopNotRunning
  <2>4. CASE StopLockRunning(t)
    BY <2>4 DEF StopLockRunning
  <2>5. CASE StopClear(t)
    BY <2>5 DEF StopClear
  <2>6. CASE StopJoints(t)
    BY <2>6 DEF StopJoints
  <2>7. ASSUME NEW s \in Sides, StopWheel(t, s)
        PROVE  OwnersHold'
    BY <2>7 DEF StopWheel
  <2>8. CASE StopSignal(t)
    BY <2>8 DEF StopSignal
  <2>9. CASE StopLockThread(t)
    BY <2>9 DEF StopLockThread
  <2>10. CASE StopJoin(t)
    BY <2>10 DEF StopJoin
  <2>11. CASE Halt(t)
    BY <2>11 DEF Halt
  <2>12. CASE SetFlag(t)
    BY <2>12 DEF SetFlag
  <2>13. CASE IKOff(t)
    BY <2>13 DEF IKOff
  <2>14. QED
    BY <1>2, <2>1, <2>2, <2>3, <2>4, <2>5, <2>6, <2>7, <2>8, <2>9, <2>10, <2>11, <2>12, <2>13
    DEF Handler, StopPowerRepeat
<1>3. CASE ServerStep
  <2>1. CASE Disconnect
    BY <2>1 DEF Disconnect
  <2>2. CASE DriveCheck
    BY <2>2 DEF DriveCheck
  <2>3. ASSUME NEW s \in Sides, DriveWheel(s)
        PROVE  OwnersHold'
    BY <2>3 DEF DriveWheel
  <2>4. CASE IKJoin
    BY <2>4 DEF IKJoin
  <2>5. CASE IKEnable
    BY <2>5 DEF IKEnable
  <2>6. CASE IKEnableInvalid
    BY <2>6 DEF IKEnableInvalid, Die
  <2>7. QED
    BY <1>3, <2>1, <2>2, <2>3, <2>4, <2>5, <2>6, <1>2
    DEF ServerStep, Controllers
<1>4. CASE Repeater
  <2>1. CASE RepLockRunning
    BY <2>1 DEF RepLockRunning
  <2>2. CASE RepLockPower
    BY <2>2 DEF RepLockPower
  <2>3. CASE RepJoints
    BY <2>3 DEF RepJoints
  <2>4. ASSUME NEW s \in Sides, RepWheel(s)
        PROVE  OwnersHold'
    BY <2>4 DEF RepWheel
  <2>5. CASE RepWait
    BY <2>5 DEF RepWait
  <2>6. QED
    BY <1>4, <2>1, <2>2, <2>3, <2>4, <2>5
    DEF Repeater
<1>5. CASE IKStep
  BY <1>5 DEF IKStep, IKCheck, IKSend
<1>6. QED BY <1>1, <1>2, <1>3, <1>4, <1>5 DEF Next, Controllers

LEMMA OwnersHoldHolds == Spec => []OwnersHold
<1>1. Init => OwnersHold
  BY DEF Init, OwnersHold, Controllers, MutexNames, None
<1>2. TypeOK /\ OwnersHold /\ [Next]_vars => OwnersHold'
  <2>1. ASSUME OwnersHold, UNCHANGED vars
        PROVE  OwnersHold'
    BY <2>1 DEF vars, threads, OwnersHold, InCritical, RepHoldsRunning
  <2>2. QED BY OwnersHoldStep, <2>1
<1>3. QED BY TypeCorrect, <1>1, <1>2, PTL DEF Spec

\* No thread waits for a mutex of its own, and of the server thread and the repeater
\* at most one waits for the other: the controller that holds the running mutex needs
\* only the power mutex, which the repeater locks after it, and the thread mutex,
\* which the repeater never locks (lines 291-294); it joins the repeater with the
\* running mutex released (line 336).
LEMMA NoCircle ==
  ASSUME TypeOK, OwnersHold, LockOwners, OneController
  PROVE  NoDeadlock
<1> SUFFICES ASSUME NEW S \in SUBSET (Controllers \cup {"repeater"}),
                    \A t \in S : \E u \in S : BlockedBy(t, u)
             PROVE  S = {}
  BY Zenon DEF NoDeadlock
<1> USE DEF TypeOK, OwnersHold, LockOwners, OneController, InCritical, RepHoldsRunning,
            Controllers, MutexNames, Stopping, Sending, Dead, None, BlockedBy, NeedsMutex
<1>1. \A u \in Controllers \cup {"repeater"} : ~BlockedBy("watchdog", u)
  BY DEF BlockedBy, NeedsMutex
<1>2. \A u \in Controllers : ~BlockedBy("server", u)
  OBVIOUS
<1>3. ~BlockedBy("repeater", "watchdog") /\ ~BlockedBy("repeater", "repeater")
  OBVIOUS
<1>4. ~(BlockedBy("repeater", "server") /\ BlockedBy("server", "repeater"))
  OBVIOUS
<1> HIDE DEF BlockedBy, NeedsMutex
<1>5. QED BY <1>1, <1>2, <1>3, <1>4

\* As long as the watchdog does not interfere, no circle of threads waits for each
\* other, for any number of joints and any velocities. (With it there is one: the run
\* power_deadlock.)
THEOREM NoCircularWait ==
  ASSUME ~HeartbeatMayFail
  PROVE  Spec => []NoDeadlock
<1>1. IInv => TypeOK /\ LockOwners
  BY DEF IInv
<1>2. QED BY IInvHolds, OwnersHoldHolds, OneControllerHolds, NoCircle, <1>1, PTL

(***************************************************************************)
(* The wheels under one controller: where the two sides agree, and which   *)
(* velocity a half-done call of robot::setCmdVel is sending.               *)
(***************************************************************************)
Even == \E v \in {Zero, lastVel} \ {None} : \A s \in Sides : wheel[s] = v
SettingWheels == {"drive.check", "drive.left", "drive.right",
                  "stop.joints", "stop.left", "stop.right"}

WheelsInStep ==
  /\ pc["server"] \notin SettingWheels \cup Dead /\ rep # "right" => Even
  /\ rep = "right" => wheel["left"] = lastVel
  /\ pc["server"] = "stop.right" => wheel["left"] = Zero
  /\ pc["server"] \in {"drive.check", "drive.left", "drive.right"} => lastVel = vel
  /\ pc["server"] = "drive.right" => wheel["left"] = vel

LEMMA WheelsInStepStep ==
  ASSUME ~HeartbeatMayFail, IInv, OneController, WheelsInStep, Next
  PROVE  WheelsInStep'
<1> USE DEF IInv, TypeOK, LockOwners, SendsVelocity, FlagTested, InCritical, RepHoldsRunning,
            OneController, WheelsStill, WheelsInStep, Even, SettingWheels, Refused, Velocities,
            Controllers, Dead, Stopping, Sending, Sides, globals, stored, motors,
            Free, Take, Release, Goto, Begin, threads, None, Zero, AfterStart, AfterStop
<1>1. CASE Request
  <2>1. ASSUME NEW b \in BOOLEAN, EmergencyStopRequest(b)
        PROVE  WheelsInStep'
    BY <2>1 DEF EmergencyStopRequest
  <2>2. ASSUME NEW b \in BOOLEAN, OperationModeRequest(b)
        PROVE  WheelsInStep'
    BY <2>2 DEF OperationModeRequest
  <2>3. ASSUME NEW b \in BOOLEAN, SetArmIKEnabled(b)
        PROVE  WheelsInStep'
    BY <2>3 DEF SetArmIKEnabled
  <2>4. ASSUME NEW v \in Vels \cup {Zero}, DriveRequest(v)
        PROVE  WheelsInStep'
    BY <2>4 DEF DriveRequest
  <2>5. ASSUME NEW j \in Joints, NEW p \in Powers \cup {Zero}, JointPowerRequest(j, p)
        PROVE  WheelsInStep'
    BY <2>5 DEF JointPowerRequest
  <2>6. CASE Connect
    BY <2>6 DEF Connect
  <2>7. CASE Close
    BY <2>7 DEF Close
  <2>8. CASE HeartbeatTimedOut
    BY <2>8 DEF HeartbeatTimedOut
  <2>9. QED
    BY <1>1, <2>1, <2>2, <2>3, <2>4, <2>5, <2>6, <2>7, <2>8
    DEF Request
<1>2. ASSUME NEW t \in Controllers, Handler(t)
      PROVE  WheelsInStep'
  <2>1. CASE StartLockRunning(t)
    BY <2>1 DEF StartLockRunning
  <2>2. CASE StartThread(t)
    BY <2>2 DEF StartThread, Die
  <2>3. CASE StopNotRunning(t)
    BY <2>3 DEF StopNotRunning
  <2>4. CASE StopLockRunning(t)
    BY <2>4 DEF StopLockRunning
  <2>5. CASE StopClear(t)
    BY <2>5 DEF StopClear
  <2>6. CASE StopJoints(t)
    BY <2>6 DEF StopJoints
  <2>7. ASSUME NEW s \in Sides, StopWheel(t, s)
        PROVE  WheelsInStep'
    BY <2>7 DEF StopWheel
  <2>8. CASE StopSignal(t)
    BY <2>8 DEF StopSignal
  <2>9. CASE StopLockThread(t)
    BY <2>9 DEF StopLockThread
  <2>10. CASE StopJoin(t)
    BY <2>10 DEF StopJoin
  <2>11. CASE Halt(t)
    BY <2>11 DEF Halt
  <2>12. CASE SetFlag(t)
    BY <2>12 DEF SetFlag
  <2>13. CASE IKOff(t)
    BY <2>13 DEF IKOff
  <2>14. QED
    BY <1>2, <2>1, <2>2, <2>3, <2>4, <2>5, <2>6, <2>7, <2>8, <2>9, <2>10, <2>11, <2>12, <2>13
    DEF Handler, StopPowerRepeat
<1>3. CASE ServerStep
  <2>1. CASE Disconnect
    BY <2>1 DEF Disconnect
  <2>2. CASE DriveCheck
    <3>1. CASE Refused(vel)
      <4>1. \A s \in Sides : wheel'[s] = Zero
        BY <2>2, <3>1 DEF DriveCheck
      <4>2. Even'
        BY <4>1 DEF Even
      <4>3. QED BY <2>2, <4>2 DEF DriveCheck
    <3>2. CASE ~Refused(vel)
      BY <2>2, <3>2 DEF DriveCheck
    <3>3. QED BY <3>1, <3>2
  <2>3. ASSUME NEW s \in Sides, DriveWheel(s)
        PROVE  WheelsInStep'
    <3>1. vel # None
      BY ValuesAssumption
    <3>2. CASE s = "left"
      BY <2>3, <3>2 DEF DriveWheel
    <3>3. CASE s = "right"
      <4>1. \A i \in Sides : wheel'[i] = lastVel
        BY <2>3, <3>3 DEF DriveWheel
      <4>2. Even'
        BY <2>3, <3>1, <3>3, <4>1 DEF DriveWheel
      <4>3. QED BY <2>3, <3>3, <4>1, <4>2 DEF DriveWheel
    <3>4. QED BY <3>2, <3>3
  <2>4. CASE IKJoin
    BY <2>4 DEF IKJoin
  <2>5. CASE IKEnable
    BY <2>5 DEF IKEnable
  <2>6. CASE IKEnableInvalid
    BY <2>6 DEF IKEnableInvalid, Die
  <2>7. QED
    BY <1>3, <2>1, <2>2, <2>3, <2>4, <2>5, <2>6, <1>2
    DEF ServerStep, Controllers
<1>4. CASE Repeater
  <2>1. CASE RepLockRunning
    BY <2>1 DEF RepLockRunning
  <2>2. CASE RepLockPower
    BY <2>2 DEF RepLockPower
  <2>3. CASE RepJoints
    BY <2>3 DEF RepJoints
  <2>4. ASSUME NEW s \in Sides, RepWheel(s)
        PROVE  WheelsInStep'
    BY <2>4 DEF RepWheel
  <2>5. CASE RepWait
    BY <2>5 DEF RepWait
  <2>6. QED
    BY <1>4, <2>1, <2>2, <2>3, <2>4, <2>5
    DEF Repeater
<1>5. CASE IKStep
  BY <1>5 DEF IKStep, IKCheck, IKSend
<1>6. QED BY <1>1, <1>2, <1>3, <1>4, <1>5 DEF Next, Controllers

LEMMA WheelsInStepHolds ==
  ASSUME ~HeartbeatMayFail
  PROVE  Spec => []WheelsInStep
<1>1. Init => WheelsInStep
  BY DEF Init, WheelsInStep, Even, Controllers, None, Zero
<1>2. IInv /\ OneController /\ WheelsInStep /\ [Next]_vars => WheelsInStep'
  <2>1. ASSUME WheelsInStep, UNCHANGED vars
        PROVE  WheelsInStep'
    BY <2>1 DEF vars, stored, motors, threads, WheelsInStep, Even
  <2>2. QED BY WheelsInStepStep, <2>1
<1>3. QED BY IInvHolds, OneControllerHolds, <1>1, <1>2, PTL DEF Spec

\* As long as the watchdog does not interfere, the drive requests, the repeater and
\* the stops leave both sides of the rover at one velocity, zero or the one that the
\* repeater resends.
THEOREM WheelsAgree ==
  ASSUME ~HeartbeatMayFail
  PROVE  Spec => []WheelsAsRequested
<1>1. WheelsInStep => WheelsAsRequested
  BY DEF WheelsInStep, WheelsAsRequested, Even, Idle, SettingWheels, Dead, Sending
<1>2. QED BY WheelsInStepHolds, <1>1, PTL
============================================================================
