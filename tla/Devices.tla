------------------------------ MODULE Devices ------------------------------
(***************************************************************************)
(* The watchdog, the scheduler, the power repeater and the models of       *)
(* devices side by side: a behaviour is one of the component it chose in   *)
(* its first state, and the others stand still, so that the states add up  *)
(* and do not multiply. The constants of the components that are proved    *)
(* about here are constants here.                                          *)
(***************************************************************************)
EXTENDS Watchdog, Integers

CONSTANTS Periods, MaxEvents, MaxLate,               \* PeriodicScheduler
          DriveVels, JointPowers, PowerJoints, IKJoints,      \* PowerRepeat
          CanDevices, CanTypes, CanClients, MaxPackets, MaxCallbacks,  \* CANTelemetry
          PullKeys, MaxPulls, MaxVelEvents,           \* TelemetryPulls, MotorControl
          SimMotors, Cams, SimUsers, MaxSimCallbacks, \* SimulatorLink, Cams of VideoStreams
          TagIDs, TagReaders, FreshPeriod, MaxTagTime, \* Landmarks
          MaxReadings,                                \* GPS
          Locked, MaxReports, MaxTime,                \* RoverPosition
          CamReaders, MaxFrames,                      \* CameraFeed, MaxFrames of VideoStreams
          MaxViews, NFrames,                          \* CameraCalibration
          Joints, MaxMessages,                        \* JointReports
          ArmMotors, OtherMotors,                     \* MotorBoards
          PowersAhead, PowersBack, MaxLost
ASSUME PeriodsAssumption == Periods \subseteq Nat \ {0} /\ MaxEvents \in Nat
ASSUME LockedAssumption == Locked \subseteq {"gps", "imu"}
\* The capturing thread does not read frames.
ASSUME CamReadersAssumption == CamReaders \cap {"thread", "none"} = {}
ASSUME NFramesAssumption == NFrames \subseteq Int
ASSUME FreshPeriodAssumption == FreshPeriod \in Nat
Powers == PowersAhead \cup {-p : p \in PowersBack}

VARIABLES which,                                                     \* the component that runs
          schedule, marked, nextEventID, newEventAdded, leaving,     \* PeriodicScheduler
          place, wakeIn, runs, prompt,
          E_STOP, AUTONOMOUS, armIKEnabled, connected, repeating,    \* PowerRepeat
          mutex, lastPower, lastVel, wheel, jointPower, hpc, req, vel, rep, ik,
          telemMap, callbacks, nextCallbackID, lock, packets, pkt,   \* CANTelemetry
          rpc, cLeft, calling, mine, cpc, latest,
          live, current, tNextID, pulls, telemEventIDMap,            \* TelemetryPulls
          scheduling, pulled,
          motor_mode, board, velEventID, events, toRemove, nextID,   \* MotorControl
          sched, mpc, op,
          powered, alerts, nAlerts, stopped, count, cMain, todo,     \* LimitCalibration
          main, client, simConnected, asked, limitSwitchCallbackMap, \* SimulatorLink
          lsCallbackToMotorMap, sNextID, alert, sLeft, sMine, crashed,
          vLatest, openStreams, encoders, server, streamer, vLeft,   \* VideoStreams
          cam, running, destroyer,
          lNow, frameTime, output, detecting, current_landmarks,     \* Landmarks
          fresh_data, reading, answer, seen, returned,
          rNow, last, writing, reports, sender, imu, gps, sent,      \* RoverPosition
          device, attempts, gLast, held, stack, value, converter,    \* GPS
          placed,
          fPhase, opened, mapped, fRunning, fThread, captured,       \* CameraFeed
          frame, frameNum, fTime, frameLock, reader,
          step, isLive, showUndistorted, nframes, mode, i,           \* CameraCalibration
          imagePoints, undistortImage, cameraMatrix, file, start,
          fd, receiving, stage, bTodo, calls, regs, duty, motor_ptrs,    \* MotorBoards
          posSensor, bPulled, bMode, bAsked, lost,
          messages, motorPosMap, jLatest, jLeft, joint, read,        \* JointReports
          timestamp, reported, atStart

schedVars == <<schedule, marked, nextEventID, newEventAdded, leaving, place, wakeIn, runs,
               prompt>>
powerVars == <<E_STOP, AUTONOMOUS, armIKEnabled, connected, repeating, mutex, lastPower, lastVel,
               wheel, jointPower, hpc, req, vel, rep, ik>>
canVars == <<telemMap, callbacks, nextCallbackID, lock, packets, pkt, rpc, cLeft, calling,
             mine, cpc, latest>>
pullVars == <<live, current, tNextID, pulls, telemEventIDMap, scheduling, pulled>>
motorVars == <<motor_mode, board, velEventID, events, toRemove, nextID, sched, mpc, op>>
calibVars == <<powered, alerts, nAlerts, stopped, count, cMain, todo>>
simVars == <<main, client, simConnected, asked, limitSwitchCallbackMap, lsCallbackToMotorMap,
             sNextID, alert, sLeft, sMine, crashed>>
videoVars == <<vLatest, openStreams, encoders, server, streamer, vLeft, cam, running, destroyer>>
tagVars == <<lNow, frameTime, output, detecting, current_landmarks, fresh_data, reading,
             answer, seen, returned>>
posVars == <<rNow, last, writing, reports, sender, imu, gps, sent>>
gpsVars == <<device, attempts, gLast, held, stack, value, converter, placed>>
feedVars == <<fPhase, opened, mapped, fRunning, fThread, captured, frame, frameNum, fTime,
              frameLock, reader>>
toolVars == <<step, isLive, showUndistorted, nframes, mode, i, imagePoints, undistortImage,
              cameraMatrix, file, start>>
boardVars == <<fd, receiving, stage, bTodo, calls, regs, duty, motor_ptrs, posSensor, bPulled,
               bMode, bAsked, lost>>
jointVars == <<messages, motorPosMap, jLatest, jLeft, joint, read, timestamp, reported, atStart>>
allVars == <<which, vars, schedVars, powerVars, canVars, pullVars, motorVars, calibVars,
             simVars, videoVars, tagVars, posVars, gpsVars, feedVars, toolVars, boardVars,
             jointVars>>

Sched == INSTANCE PeriodicScheduler WITH
  toRemove <- marked, nextID <- nextEventID, quitting <- leaving, pc <- place, running <- runs
\* Without the heartbeat: the server's thread, the repeater and the arm IK thread.
Repeat == INSTANCE PowerRepeat WITH
  running <- repeating, joint <- jointPower, pc <- hpc, Vels <- DriveVels,
  Powers <- JointPowers, Joints <- PowerJoints, HeartbeatMayFail <- FALSE
\* None of the values that requests do not have is one of theirs.
ASSUME RequestsAssumption ==
  /\ IKJoints \subseteq PowerJoints
  /\ {Repeat!None, Repeat!Zero, Repeat!IKTarget} \cap (DriveVels \cup JointPowers) = {}
Can == INSTANCE CANTelemetry WITH
  left <- cLeft, Devices <- CanDevices, Types <- CanTypes, Receivers <- {"receiveThread"},
  Clients <- CanClients
Pulls == INSTANCE TelemetryPulls WITH nextID <- tNextID, Keys <- PullKeys, MaxEvents <- MaxPulls
Motor == INSTANCE MotorControl WITH
  pc <- mpc, PowerCallers <- {"server"}, PosCallers <- {"server"}, VelCallers <- {"server"},
  MaxEvents <- MaxVelEvents
Calib == INSTANCE LimitCalibration WITH main <- cMain, Motors <- {"a", "b"}, MaxAlerts <- 4
Sim == INSTANCE SimulatorLink WITH
  nextCallbackID <- sNextID, left <- sLeft, mine <- sMine, Motors <- SimMotors,
  Users <- SimUsers, MaxCallbacks <- MaxSimCallbacks
Video == INSTANCE VideoStreams WITH
  latest <- vLatest, left <- vLeft, FirstFrame <- 0
Tags == INSTANCE Landmarks WITH
  now <- lNow, Tags <- TagIDs, Readers <- TagReaders, MaxTime <- MaxTagTime
Position == INSTANCE RoverPosition WITH now <- rNow
Gps == INSTANCE GPS WITH last <- gLast, Source <- "ardupilot"
Usb == INSTANCE GPS WITH last <- gLast, Source <- "usb"
Camera == INSTANCE CameraFeed WITH
  phase <- fPhase, running <- fRunning, thread <- fThread, frameTime <- fTime,
  Readers <- CamReaders
Tool == INSTANCE CameraCalibration WITH live <- isLive
Arm == INSTANCE MotorBoards WITH
  todo <- bTodo, board <- regs, pulled <- bPulled, motor_mode <- bMode, asked <- bAsked,
  Motors <- ArmMotors
Other == INSTANCE MotorBoards WITH
  todo <- bTodo, board <- regs, pulled <- bPulled, motor_mode <- bMode, asked <- bAsked,
  Motors <- OtherMotors
\* The motors are the rover's, and their callers ask for full power at most.
ASSUME BoardsAssumption ==
  ArmMotors \cup OtherMotors \subseteq DOMAIN Arm!PwmScale /\ Powers \subseteq -100..100
JointPos == INSTANCE JointReports WITH latest <- jLatest, left <- jLeft

AllInit ==
  /\ which \in {"watchdog", "scheduler", "power", "can", "pulls", "motor", "calib", "sim", "video",
                "tags", "pos", "gps", "usb", "feed", "tool", "arm", "wheels", "joints"}
  /\ which # "watchdog" => keepCallingOnDeath = FALSE
  /\ Init /\ Sched!Init /\ Repeat!Init /\ Can!Init /\ Pulls!Init /\ Motor!Init /\ Calib!Init
  /\ Sim!Init /\ Video!Init /\ Tags!Init /\ Position!Init
  /\ IF which = "usb" THEN Usb!Init ELSE Gps!Init
  /\ Camera!Init /\ Tool!Init /\ IF which = "wheels" THEN Other!Init ELSE Arm!Init
  /\ JointPos!Init
AllNext ==
  /\ UNCHANGED which
  /\ IF which = "watchdog" THEN Next ELSE UNCHANGED vars
  /\ IF which = "scheduler" THEN Sched!Next ELSE UNCHANGED schedVars
  /\ IF which = "power" THEN Repeat!Next ELSE UNCHANGED powerVars
  /\ IF which = "can" THEN Can!Next ELSE UNCHANGED canVars
  /\ IF which = "pulls" THEN Pulls!Next ELSE UNCHANGED pullVars
  /\ IF which = "motor" THEN Motor!Next ELSE UNCHANGED motorVars
  /\ IF which = "calib" THEN Calib!Next ELSE UNCHANGED calibVars
  /\ IF which = "sim" THEN Sim!Next ELSE UNCHANGED simVars
  /\ IF which = "video" THEN Video!Next ELSE UNCHANGED videoVars
  /\ IF which = "tags" THEN Tags!Next ELSE UNCHANGED tagVars
  /\ IF which = "pos" THEN Position!Next ELSE UNCHANGED posVars
  /\ IF which = "usb" THEN Usb!Next
     ELSE IF which = "gps" THEN Gps!Next ELSE UNCHANGED gpsVars
  /\ IF which = "feed" THEN Camera!Next ELSE UNCHANGED feedVars
  /\ IF which = "tool" THEN Tool!Next ELSE UNCHANGED toolVars
  /\ IF which = "wheels" THEN Other!Next
     ELSE IF which = "arm" THEN Arm!Next ELSE UNCHANGED boardVars
  /\ IF which = "joints" THEN JointPos!Next ELSE UNCHANGED jointVars
AllSpec ==
  /\ AllInit /\ [][AllNext]_allVars
  /\ WF_vars(which = "watchdog" /\ Tick) /\ WF_vars(which = "watchdog" /\ Thread)
  /\ WF_schedVars(which = "scheduler" /\ Sched!Tick)
  /\ WF_schedVars(which = "scheduler" /\ Sched!Thread)
  /\ SF_powerVars(which = "power" /\ Repeat!ServerStep)
  /\ SF_powerVars(which = "power" /\ Repeat!Repeater)
  /\ WF_powerVars(which = "power" /\ Repeat!IKStep)
  /\ WF_canVars(which = "can" /\ Can!Receiver("receiveThread"))
  /\ \A c \in CanClients : SF_canVars(which = "can" /\ Can!Remove(c))
  /\ WF_calibVars(which = "calib" /\ Calib!MainStep)
  /\ WF_calibVars(which = "calib" /\ Calib!Callback)
  /\ SF_calibVars(which = "calib" /\ \E m \in {"a", "b"} : Calib!Alert(m))
  /\ WF_simVars(which = "sim" /\ ~crashed /\ Sim!Main)
  /\ WF_videoVars(which = "video" /\ Video!Streamer)
  /\ WF_videoVars(which = "video" /\ Video!Joined)
  /\ WF_gpsVars(which = "gps" /\ Gps!Reader) /\ WF_gpsVars(which = "usb" /\ Usb!Device)
  /\ WF_feedVars(which = "feed" /\ fPhase # "died" /\ Camera!Thread)
  /\ WF_feedVars(which = "feed" /\ fPhase # "died" /\ Camera!Destroy)

\* scheduler.h: the watchdog's starvation is heard, and heard again if it is to be; and
\* destroying it joins its thread.
WatchdogAnswers == Barks /\ KeepsBarking /\ DestructorReturns
\* scheduler.h: an id marked for removal is that of a scheduled event, after clear() too; no
\* event is overdue while the thread runs when it can; and events run while they are scheduled
\* and not removed, one at a time, with no removal in between.
RemovalsHitTheirEvent == Sched!RemovalsHitTheirEvent
NeverOverdue == Sched!NeverOverdue
ImplementsEventSet == Sched!ImplementsEventSet
\* scheduler.h: an event keeps being run until it is removed, and destroying the scheduler
\* joins its thread, which waits on nothing for ever.
EventsRun == which = "scheduler" => Sched!EventsRun /\ Sched!DestructorReturns
\* MissionControlProtocol.cpp, as long as no heartbeat times out: no wheel moves while
\* emergency stopped; between commands both sides stand still or obey the velocity that is
\* resent; and no threads wait in a circle, nor is the handle of a repeater assigned to before
\* it is joined.
WheelsStoppedInEstop == Repeat!WheelsStoppedInEstop
WheelsAsRequested == Repeat!WheelsAsRequested
StopsAreJoined == Repeat!NoDeadlock /\ Repeat!NeverTerminates
\* The last drive command is obeyed in the end, and a switch to autonomous mode ends the
\* repeater.
RepeaterFollows == which = "power" => Repeat!LastCommandObeyed /\ Repeat!RepeaterExits
\* CAN.cpp: the map holds the latest telemetry, a callback finds the one it is called for,
\* and one that was removed does not run.
TelemetryIsExact == Can!LatestStored /\ Can!CallbackSeesItsData /\ Can!NoCallAfterRemove
\* CAN.cpp, base_motor.cpp: the map of pull events and the scheduler agree, and there is one
\* velocity event, which the next command unschedules, once.
EventsAreTracked == Pulls!MapMatchesEvents /\ Motor!OneVelocityEvent /\ Motor!RemovesScheduled
\* simulator_interface.cpp: the registry holds the callbacks that were added and not removed.
RegistryIsExact == Sim!RegistryIsExact
\* Waits that end: to remove a callback (CAN.cpp), for the limit switches (LimitCalib.cpp),
\* for the simulator (simulator_interface.cpp), for the GPS and its detection
\* (gps_common_interface.cpp, read_usb_gps.cpp), and for a camera's thread (Camera.cpp).
WaitsEnd ==
  /\ Can!RemoveReturns
  /\ which = "calib" => Calib!CalibrationEnds
  /\ Sim!StartsOnceConnected
  /\ which = "usb" => Usb!DetectionEnds
  /\ which = "gps" => Gps!ReadReturns
  /\ Camera!DestructionEnds
\* MissionControlProtocol.cpp: the last frame of a stream that stays open is sent, and the
\* destructor joins the task.
StreamsAreServed == Video!LatestFrameSent /\ Video!DestructorReturns
\* Camera.cpp, calibration.cpp: a frame comes with its own number and time, and a camera that
\* is calibrated with the parameters that were saved.
FramesAreWhole == Camera!FramesAreWhole /\ Tool!CalibratedIsSaved
\* calibration.cpp: what is saved comes from one capture.
SavesOneCapture == Tool!SavesOneCapture
\* read_landmarks.cpp: a good sight is kept while it is fresh, and no reader loses one
\* between the flag and the lock; world_interface.h: joints are reported as they are now;
\* MissionControlProtocol.cpp, Camera.cpp: only new frames are sent, of streams that have an
\* encoder, and a reader of a camera gets newer frames only.
DataIsCurrent ==
  /\ Tags!NoSightLost /\ Tags!KeepsFreshSights /\ JointPos!ReportsAreCurrent
  /\ Video!SendsNewFrames /\ Camera!NoDuplicates
\* ArduPilotProtocol.cpp, world_interface.h: the time sent with a position, of the rover or
\* of a joint, is that of its oldest part.
TimesAreHonest == Position!RecencyIsHonest /\ JointPos!TimeIsOldest
\* gps_common_interface.cpp: positions are points of one map.
OneMap == Gps!OneMap
\* real_world_interface.cpp, can_motor.cpp: a board is configured before it is used, and
\* gets the power that was asked, in the mode for it.
BoardsAreConfigured ==
  IF which = "wheels" THEN Other!BoardsAreConfigured /\ Other!DutyIsAsked
  ELSE Arm!BoardsAreConfigured /\ Arm!DutyIsAsked
=============================================================================
