# Resurgence: TLA+ models, checks and proofs

TLA+ modules for the rover software in `src/`: the threads that move motors, the
server they are commanded through, the scheduler and watchdog both rely on, the
CAN side of the real rover, cameras, sensors and their reports, start-up and shutdown, navigation,
estimation and the tools. Paths below are relative to `src/src/` unless they begin with `src/`; line
numbers are those of the modelled commit. `PROJECT.json` maps every definition
to its source lines and lists runs, mutants, findings, hazards and theorems.

    tlc -workers 2 -config PowerRepeat_watchdog.cfg PowerRepeat   # one run
    tlapm PowerRepeatProofs.tla                                   # one proof module

## 1. Inventory

| Part | Source | State | Operations | Talks to |
|---|---|---|---|---|
| Mission control protocol | `network/MissionControlProtocol.cpp`, `Globals.cpp` | `E_STOP`, `AUTONOMOUS`, `armIKEnabled`, the repeater's flag, thread handle and mutexes, last joint powers, last velocity, open streams | one handler per message, connect, disconnect, heartbeat timeout; repeater, arm IK, report and video threads | motors through the world interface; called by the server and by the watchdog |
| Kinematic interface | `world_interface/kinematic_common_interface.cpp` | commanded velocity, last odometry, powers of the wrist's pair | `setCmdVel`, `readOdom`, `setJointPower`, `getJointPos` | motors; reads the globals |
| Watchdog, scheduler | `utils/scheduler.h` | `fed`, `quitting`; the queue, ids to remove, next id | feed; schedule, remove, clear; threads, destructors | call back their owners |
| Server and protocols | `network/websocket/*` | per endpoint: client, heartbeat, mutex; handlers and validators of a protocol | `validate`, `onOpen`, `onClose`, `onPong`, `onMessage`, send, start, `stop` | scheduler, watchdog, handlers |
| Motors and CAN | `world_interface/motor/*`, `CAN/*`, `real_world_interface.cpp` | cached mode, velocity event; sockets, telemetry, callbacks, pulls | set power, position, velocity; emergency stop; receive, read, schedule pulls | the bus, the scheduler |
| Simulator interface | `world_interface/simulator_interface.cpp` | last readings, frames, limit switch callbacks, connection flag | one handler per report; wait for the connection | server |
| Arm controller | `control/PlanarArmController.h` | set point, velocity, time stamp | set, velocities, `getCommand` | arm IK thread, handlers |
| Cameras and video | `camera/`, `video/` | last frame, its number and time | capture, readers, encoder; calibration tool | video thread |
| Limit calibration | `LimitCalib.cpp`, `utils/threading.*` | a latch | callbacks, main loop | motors, CAN callbacks |
| Sensors | `gps/`, `ardupilot/`, `ar/` | last reading | one producer, readers | world interface, reports |
| Driving and planning | `commands/`, `planning/`, `worldmap/` | pose and time of arrival; A* queue; quad tree, point clouds | drive; plan; add, remove, search, register | their caller |
| Numerics | `control/`, `kinematics/`, `filters/` | targets, estimates, factors | control laws, kinematics, filters, pose graph | their callers |
| Process and tools | `Rover.cpp`, `rospub.cpp`, `CAN/FakeCANBoard.cpp`, `CAN/CANTest.cpp`, `TunePID.cpp`, `camera/calibration.cpp` | | start, SIGINT; packets on the bus | all of the above |

What is hard here is concurrency: six kinds of threads reach the motors (server,
watchdog, repeater, arm IK, scheduler, signal handler), locks are taken in several
modules at once, and much of the state has no lock at all. After that come values
that are kept and used later: cached modes, time stamps, indices, counts. The
tests of the repository are single-threaded, except for those of the scheduler,
which replace its clock.

What makes each part correct:

- **Mission control**: nothing moves under the emergency stop; the repeater is
  on exactly in teleoperation with a client, obeys the last command, and never
  resends what a stop has zeroed; two threads that start and stop it
  neither deadlock nor terminate the process; a request does what it says or nothing.
- **Watchdog, scheduler**: a call comes when, and only when, it is due; a removal
  hits its event only; destructors return.
- **Server, process**: one client per endpoint (two when handshakes overlap: a finding), whose heartbeat lives as long as it
  does; SIGINT ends the program from wherever it is.
- **Motors, CAN**: a board is configured before it is used and gets a packet in the mode for
  it; one velocity event; the map holds the latest telemetry; removed callbacks do not run.
- **Cameras, sensors**: a value comes with its own number and time; the newest arrives; the
  age that is reported is that of the oldest part.
- **Driving, planning, map**: done only after a stay; a plan leads to the goal; the tree
  answers as a bag of points would.
- **Numerics**: odometry is where commands lead (on a line or a circle only: a finding); ramps meet; an estimate takes the short way
  round; a solution has the least error.

## 2. Modules

| Module | Models | Builds on |
|---|---|---|
| `PowerRepeat` | mission control's handlers, repeater, arm IK thread, stop and start | |
| `Requests` | from a message to its handler: registration, validation, conversion | |
| `Starvation` / `Watchdog` | what a watchdog promises / its thread, `feed`, destructor | `Watchdog` implements `Starvation` |
| `EventSet` / `PeriodicScheduler` | what a scheduler promises / its queue, thread, clock | `PeriodicScheduler` implements `EventSet` |
| `WebSocketServer` | one endpoint: server, ping, watchdog, sender and main threads | |
| `RoverProcess` | start-up, servers and endpoints, connections, `closeRover` on SIGINT, viewers of `rospub.cpp` | |
| `MotorControl` | one motor of the rover, its board, its velocity event | |
| `MotorBoards` | sockets, `initMotors` packet by packet with writes that fail, the motor objects | |
| `CANTelemetry` | receive thread, telemetry map, callbacks | |
| `TelemetryPulls` | scheduled pulls and their map of ids | an instance of `EventSet` |
| `LimitCalibration` | latch, alerts, main loop | |
| `SimulatorLink` | waiting for the simulator, opening cameras and motors, limit switch callbacks | |
| `CameraFeed` | opening a camera, its capture thread, its readers, its destruction | |
| `VideoStreams` | frames, open streams, the video task | |
| `CameraCalibration` | the calibration tool: keys, views, modes, what it saves | |
| `Landmarks` | the detector's store and its readers | |
| `GPS` | `readGPS` and `gpsHasFix` over two sources; the USB device's thread | |
| `RoverPosition` | stores of GPS and IMU, the report of the position | |
| `JointReports` | motor positions, `getJointPos`, the reports | |
| `BoardTools` | `FakeCANBoard`, `CANTest`, `TunePID` | |
| `ArmSetpoint` | the arm's set point over time, requests, the thread that follows it | |
| `MotionControllers` | trapezoidal profile, Jacobian position and velocity controllers | |
| `Kinematics` | the wrist's gears, the swerve drive | `Fractions` |
| `Odometry` | a drive request, `setCmdVel`, `readOdom` | |
| `Waypoint` | `DriveToWaypointCommand` in its loop | |
| `Planner` | A* of `plan.cpp` and the loop that writes the plan | |
| `PointStore` / `QuadTree` | a bag of points and its queries / quad tree and `GlobalMap` | `QuadTree` implements `PointStore` |
| `PointMatching` | `TrICP` and `MinHeap` | `Fractions` |
| `PoseGraph` | window of poses, factors, indices | |
| `GraphSolver` | factors, their Jacobians, Newton's method | `Fractions` |
| `PoseEstimation` | the three Kalman filters of the pose | `Fractions` |
| `PowerRepeatProofs`, `WebSocketServerProofs`, `PeriodicSchedulerProofs`, `CANTelemetryProofs`, `MotorBoardsProofs` | theorems | the module of that name |
| `Devices` / `DevicesProofs` | watchdog, scheduler, repeater, CAN, motors, cameras, sensors and reports side by side / theorems about them | see section 3 |
| `Mission` / `MissionProofs`, `NumericsProofs` | server, process, requests, tools, profiles, planner, arm, odometry, drive, pose graph, pose filters and kinematics side by side / theorems about them, in `NumericsProofs` those on fractions | see section 3 |
| `MCMission` | `Mission` with the modules that are only model-checked beside it (recursive operators, folds, liveness), and the constants of all of them for TLC | `Mission` |

Conventions. A program counter per thread; a step runs up to the next point
at which another thread can see a difference (a lock, an unlock with a wait,
an unlocked read or write of shared data). A mutex is a variable that holds its
owner, unless all its critical sections are single steps. An exception that
nothing catches, `std::terminate` and a read of an empty `std::optional`
end all threads. Doubles whose rounding no property tells apart are integers or exact
`Fractions`, on inputs for which what the code computes is exact (quarter turns,
ramps that end at whole times). A definition `X_Something` under a comment
"Mistake:" is not part of a specification: it is the mutant of `X` that shows
that a property can fail.

What a reader needs to know of the larger modules beyond their headers:

- **PowerRepeat**. Variables carry the names of the code without underscores: `running` is
  `_joint_repeat_running`, `mutex` holds `_joint_repeat_running_mutex`,
  `_joint_repeat_thread_mutex` and `_joint_power_mutex`, `lastPower` and
  `lastVel` what the repeater resends, `wheel` and `joint` what each motor was
  last told, `rep` and `ik` where the two threads are. A request picks a handler
  (`Request`), and the steps `start.*`, `stop.*`, `drive.*`, `ik.*` are
  its parts up to the next lock. The stop is eight steps because the repeater and
  the second controller can run between them. `Halt` is `robot::emergencyStop` of
  the simulator; the CAN broadcast of the real rover is `EmergencyStop` of `MotorControl`.
- **Watchdog**. `left` is the time to the wake-up, so no absolute clock is needed. All code
  between two waits holds the mutex, hence one step per pass. `hungry` and `called` are history
  variables on which the refinement to `Starvation` is the identity.
- **WebSocketServer**. `client`, `heartbeat`, `wd` and `pd` are one endpoint's
  `ProtocolData`. The asio loop runs one handler at a time; `validate` and `onOpen` of one
  connection are different turns of it, and a second client may ask in between. The history
  variable `overlap` says whether one ever did: what the code keeps until then is
  `OnlyOverlapLetsTwoIn` and `HeartbeatFollowsClient`. `RoverProcess` has all endpoints at once, without the heartbeat.
- **PeriodicScheduler**. The queue's order is only by time, so `Tops` is a set. The thread may
  be late; `prompt` says whether it has been, which `NeverOverdue` is about. For `EventSet` the
  live events are those scheduled and not marked for removal. The order of members (`thread` is
  declared before the queue and the mutex, lines 170-176) lets the thread run before
  they are constructed: undefined behaviour at start-up, not modelled.
- **MotorControl**. `motor_mode` is what the object believes, `board` what the board is in.
  The velocity event walks through `setMotorPos` on the scheduler's thread with
  `sched` held, and waits for itself when its own id is still set (`motor_block`).
- **CANTelemetry**. A packet's value is its number, so "latest" means something. The two locks of
  `handleTelemetryPacket` are two steps, and `Invoke` to `Finish` hold the callback mutex.
- **RoverProcess**. `main` is where the main thread is, `commanded` whether a request reached a
  motor, `late` the connections that `stop` did not find. `Interrupt` ends
  the process before the handler is installed; from then on SIGINT runs `closeRover` on the main thread.
- **GPS**. `stack` is what the calls of one thread have still to do, because `gpsHasFix` and
  `readGPSCoords` call one another.
- **Odometry**. Poses and transforms are those of the code with the headings counted in quarter turns:
  `lastOdom.data` is a transform from the starting frame to the rover's, `ToPose` the pose it stands for.
  `driven` is a history variable: when the velocities last led where, the way and the turn in their own
  times, the pose to which `getNextPose` leads step by step, and the lines and circles on
  which it led. Lengths are doubled and velocities such that half of their difference turns by
  that many quarters in a millisecond, so all of it is exact. `Read` is a call of `readOdom` from anywhere;
  in this commit only `setCmdVel` calls it.
- **QuadTree**. A node is the path of indices to it. The run has `Asserts = TRUE`, that is a build with
  assertions. The default build is not one: `src/src/CMakeLists.txt:18` makes it `RelWithDebInfo`, which
  defines NDEBUG, and then `GlobalMap` (`worldmap/GlobalMap.cpp:47`) adds nothing at all,
  since it adds inside an `assert`; `Asserts = FALSE` is that build, with an empty tree.
- **PoseGraph** keeps at each index the thing whose value it is, so that an index
  that was not shifted speaks of another pose; **GraphSolver** has the numbers.
- **PoseEstimation** is in one dimension, the heading while the rover turns on the spot, where
  the wrap at the half turn is. Predictions are exact: the rover turns as its wheels are told, and
  what the properties are about is what measurements do. `NoiseCovMatX` takes the standard
  deviation for the variance, and `DARE` stops at the first error above its tolerance; both are as in the
  code. The property does not take over the first one: `WeightsAddUp` squares the deviation, as the headers
  say, holds of `PoseEstimator` and is violated by `FullPoseEstimator`.

## 3. Runs

`Devices`, `Mission` and `MCMission` instantiate many modules side by side. The variable `which` is
chosen in the first state and never changes: a behaviour is one of that component while the others
stand still, so that their states add up and do not multiply. Invariants of one subject are one
conjunction there; the costly ones are evaluated for the chosen component only, which is
sound since no other one moves. A conjunction has as many mutants as it needs to break different
ones of its parts.

Passing runs:

| Run | Bounds | Shows |
|---|---|---|
| `power_watchdog` | 1 velocity, 1 power, 2 joints (1 under IK), the watchdog may time out at any time | types; the repeater obeys its flag, is silent in autonomous mode; joints are as requested |
| `devices` | `Devices`, below | watchdog, scheduler, repeater, CAN, motors, limit switches, simulator link, cameras, sensors, reports |
| `mission` | `MCMission`, below | server, process, requests, tools, arm, driving, planning, map, numerics |

Properties of `devices`:

| Property | Instance | Shows |
|---|---|---|
| `RemovalsHitTheirEvent`, `NeverOverdue`, `ImplementsEventSet` | periods 1 and 3, 2 events between two `clear`, up to 2 ticks late | `PeriodicScheduler` implements `EventSet`; removals hit their event; nothing is overdue unless the thread was late |
| `EventsRun` | the same, fair | events keep running, the destructor returns |
| `WheelsStoppedInEstop`, `WheelsAsRequested`, `StopsAreJoined` | `PowerRepeat` with 1 velocity, no joints, watchdog silent | no motion in E_STOP, wheels follow requests, no deadlock, no `std::terminate` |
| `RepeaterFollows` | the same, fair | the last command is obeyed, the repeater exits |
| `KeepsPromise`, `WatchdogAnswers` | duration 3, both values of `keepCallingOnDeath` | `Watchdog` implements `Starvation`; barks, keeps barking, can be destroyed |
| `TelemetryIsExact` | 1 device, 2 types, 2 clients, 3 packets, 2 callbacks | the latest value; a callback finds its data; none runs after its removal |
| `EventsAreTracked` | 2 keys, 3 pulls; 3 velocity events | the maps of ids and the schedulers agree; one velocity event, removed once |
| `RegistryIsExact` | 2 motors, 3 callbacks | the simulator's callbacks are those added and not removed |
| `BoardsAreConfigured` | arm motors; a hand and a wheel; 1 lost packet | configured before use, with the power asked, in the mode for it |
| `FramesAreWhole`, `SavesOneCapture` | 2 readers, 2 frames; up to 6 views, 3 or 4 wanted | a frame has its own number and time; what is saved comes from one capture and is what is shown |
| `StreamsAreServed` | 2 cameras, 2 frames, fair | the last frame of a stream that stays open is sent, the task is joined |
| `DataIsCurrent`, `TimesAreHonest` | 1 tag, 2 readers, 3 ticks; 2 cameras, 2 frames, 2 readers; 3 messages; 2 reports | no sight is lost between flag and lock; only new frames are sent, of streams that have an encoder, and a reader gets newer frames only; reported times are those of the oldest part |
| `OneMap` | both sources, 3 readings | positions are points of one map |
| `WaitsEnd` | all of these, fair | removing a callback, calibration, the wait for the simulator, reading GPS and detecting it, destroying a camera end |

Properties of `mission`:

| Property | Instance | Shows |
|---|---|---|
| `OnlyOverlapLetsTwoIn`, `HeartbeatFollowsClient` | 3 connections | one client, and heartbeat and ping event follow it, until handshakes have overlapped |
| `RequestsAreMeant` | every type of a JSON value, in range or not | what is validated is converted, and what is handed over is what was meant; no command finds a motor missing |
| `ToolsEndSafely` | 2 serials, 1 lost packet | tools leave no motor running; a board's target is the last asked |
| `TreeStoresPoints` | width 32, depth 2, 3 points, 2 scans | `QuadTree` implements `PointStore`; counts are exact |
| `PlanOrNoPath` | 2 by 3 cells, every set of free ones | a plan leads over free cells to the goal at the cost the search had for it (which need not be the least: a node that was visited is not reached again at a lower one); where there is none there is no path |
| `MotionFollowsCommands` | 6 ticks; radius 2, 2 ticks; 6 sticks, 3 reads | the ramps of a profile meet; the target follows the velocity, however often it is asked for; the arm's commands stay in reach, also through the two critical sections of `getCommand`; odometry turns as commands turn the rover, and is where they lead as long as that is one line or one circle; no wheel is given more than full power |
| `DoneAfterStay` | 6 ticks | done only after an uninterrupted stay |
| `GraphFollowsWindow` | windows of 2 poses, ids up to 4 | factors, guess and landmarks follow the window; the trajectory is in order |
| `EstimatesFollowRover` | 4 powers; 5 steps of the drive; 4 of a filter | no gear above full power, and the joint goes the way that was asked; the drive's velocity explains its wheels best, and equal turns close; the estimated heading is as close as the measurements are, and `PoseEstimator`'s variance has an inverse that is the sum of their weights |
| `NumericsAgree` | 3 factors; scans of up to 5 points | the pose graph's solutions are least and its Jacobians exact; a scan is matched by its best points |
| `CallsReturn` | 3 connections on 2 endpoints, SIGINT at any time once it is handled; the planner's grids; the arm's requests; fair | `closeRover` ends, unless `stop` missed a connection; a search ends; a request to switch the arm's IK returns |

Runs that are violated show where the code departs from its own comments; the
text of each is under `findings`:

| Run | Property | What happens |
|---|---|---|
| `power_deadlock` | `NoDeadlock` | a heartbeat timeout joins the repeater while the server thread starts one |
| `power_estop` | `WheelsStoppedInEstop` | a drive request passes the test of `E_STOP` just before the timeout raises it |
| `server_lockorder` | `NoDeadlock` | the ping event and `onClose`/`onOpen` take two mutexes in opposite orders |
| `server_overlap` | `SingleClient` | `validate` accepts a second client before the `onOpen` of the first |
| `motor_estop` | `SendsInMode` | the cached mode survives a reset of the boards |
| `motor_block` | `EventDoesNotBlock` | the velocity event removes itself under the scheduler's mutex |
| `arm_drift` | `FollowsVelocity` | `getCommand` adds the time since the last request at each call |
| `odometry_frame` | `OdometryFollowsPath` | `readOdom` multiplies an update on the wrong side: a turn and a drive lead elsewhere |
| `filter_weights` | `FullEstimatorWeighs` | `NoiseCovMatX` puts standard deviations where variances belong |

The constants of the modules reach further departures, which have no run of their own.
With `Source = "usb"`, `ReadReturns` of `GPS` fails at the first reading: `readGPSCoords` locks `gps_mutex`
and calls `gpsHasFix` (`gps/usb_gps/read_usb_gps.cpp:28`), which calls `readGPS` while there is no converter
(`world_interface/gps_common_interface.cpp:42`) and so `readGPSCoords` again, whose thread waits for a
`std::mutex` it holds. In a build with the USB GPS no reading ever returns, be it through `readGPS` or
through `gps::readGPSCoords`, which the report of the rover's position calls
(`network/MissionControlProtocol.cpp:191`).
With `HeartbeatMayFail = TRUE`, `NeverTerminates` fails in the window of `power_deadlock`
(a start assigns to a repeater that is not joined yet). With a second caller in `MotorControl` (`PowerCallers = {"repeater"}`,
`PosCallers = {"ik"}`), `SendsInMode` fails without any emergency stop:
`ensureMotorMode` and the packet after it are not atomic.

Why the bounds are enough. The threads of `PowerRepeat` compare values with zero,
nothing and themselves only, so one nonzero velocity and power
suffice for the runs; the theorems hold for any set. Two joints are one that
IK moves and one it does not. In `Watchdog` three ticks separate "at once",
"in time" and "late". Two events of periods 1 and 3 give a scheduler that
sleeps far ahead when a short event comes, events of equal time, and one that is
removed while it is not at the top (the theorems have any number of them); `MaxEvents` bounds ids between two calls of
`clear`, which starts them over, so runs of any length are covered. `MaxLate`
bounds how far the clock runs ahead of a thread. Three connections give a
client, one that is refused and one that comes after both. Three velocity events allow remove,
replace and remove again. Three packets give two types of one device or a second value of a key;
after the last one the receiver is idle, so what carries the wait for a removal over to an endless
stream is the strong fairness below, not the bound. Two frames of two cameras and two readers
give a newer frame between test and read. Two poses in the window of `PoseGraph` and ids up to
4 trim the oldest pose twice. The grid of `Planner` has every set of free cells of 2 by 3,
so that there are detours, dead ends and a node that is reached twice. In `QuadTree` capacity 1
and depth 2 split a node twice and reach the leaves that do not split. The sticks of `Odometry` go
ahead, back, turn on the spot and on circles, one of them beyond full power; three readings are a turn, a drive
and what they lead to. Turns by 120 and
-60 degrees carry the heading of `PoseEstimation` across the half turn in both directions.

`CHECK_DEADLOCK FALSE` is set where the system stops for good: a terminated or
deadlocked process (the subject of other properties), a destroyed scheduler or camera,
a stopped server, a tool that has ended, no packets, frames, messages or time left.

## 4. Fairness

- `PowerRepeat`: every thread is scheduled. Strong fairness where a thread waits
  for a mutex: the repeater holds `_joint_repeat_running_mutex` for a few
  packets out of every 333 ms and waits on the condition variable in between, so
  a thread blocked on the mutex is not overtaken for ever. Nothing is assumed of requests.
- `Watchdog`, `PeriodicScheduler`: weak fairness of the thread and of the clock.
  Callbacks return, as the documentation demands ("This should not block").
- `CANTelemetry`: the receiver, once it has a packet, goes on; strong fairness of
  `Remove`, since the mutex is free between packets, which are milliseconds apart.
- `LimitCalibration`: `main` and the callback thread run; strong fairness of the alerts, since
  a motor that is powered into its switch reports it in every one of its telemetry packets.
- `SimulatorLink`: `main` runs; a simulator does not have to connect, and the property is
  about one that has.
- `RoverProcess`: the threads run, and websocketpp completes a handshake and closes a
  connection that is being closed, or times out. A client does not have to leave.
- `GPS`: the reader, and the device's thread, whose wait for the device ends after 5 seconds.
- `CameraFeed`: the capture thread and the destructor; reading from a device returns.
- `VideoStreams`: the video task and the join; `ArmSetpoint`: the clock, the IK thread and the
  server's handler; `Planner`: the search is one thread that runs.

In `Devices` and `MCMission` each of these is conditioned on `which`, which is constant.

## 5. Proofs

For all values of the constants, under the named assumptions of each module. Every
invariant that a run checks is proved, except for `NumericsAgree` (below).

`PowerRepeatProofs` is about any sets of velocities, powers and joints.

- `TypeCorrect`, `FlagObeyed`, `SilentInAutonomous` and `JointsFollowMap` need no further
  hypothesis. Their invariant is `IInv`: types; who owns which mutex from where
  each thread is (`LockOwners`); the velocity the repeater is sending exists
  (`SendsVelocity`, without which the type of `wheel` cannot be kept);
  the flag is up wherever a thread relies on a test of it (`FlagTested`); starts
  happen in teleoperation only (`StartsInTeleoperation`).
- `EstopStopsWheels`, `HandleIsFree`, `NoCircularWait` and `WheelsAgree` have the hypothesis
  `~HeartbeatMayFail`: the watchdog is silent, so that the server thread alone starts and stops the
  repeater. Without it they are false, as `power_estop` and `power_deadlock` show. In `DevicesProofs` they are
  `WheelsStoppedInEstopAlways`, `StopsAreJoinedAlways` and `WheelsAsRequestedAlways`, about the repeater
  that the run checks.
  `NoCircularWait` says that no set of threads waits for one another: a thread that waits for a
  mutex waits for an owner that is on its way to release it (`OwnersHold`), and the server thread joins a repeater
  that has no mutex to wait for. `WheelsAgree` says that the wheels have what was asked: while nobody is
  sending, both sides stand still or have the velocity the repeater resends (`WheelsInStep`).

`WebSocketServerProofs`, for any number of connections and without a hypothesis: the invariant is
`~overlap => IInv`, and an overlap stays (`OverlapStays`). `OneClientAtATime` says that two connections
are accepted or up only after handshakes have overlapped, since until then at most one is under
way and the endpoint's client is that one until `stop`; that the exception happens is `server_overlap`.
`HeartbeatIsTheClients` has the invariant `Beats`, which says which of client,
watchdog and ping event exist at each step of opening and closing a connection.

`PeriodicSchedulerProofs`, for any positive periods and any number of events (`Bounds`):
`RemovalsHitTheirEventAlways`, `SchedulerImplementsEventSet` and `NeverOverdueAlways`; `DevicesProofs`
has them, under the same names, of the scheduler that the run checks, whose constants meet
`Bounds` by `PeriodsAssumption`. An event whose callback runs is
scheduled and not marked (`RunsScheduled`), and ids in use are below the next one (`IdsInUse`), so
that a new event is none that is there; it is why a mark that outlived `clear` would be
wrong. The times are in `TimeInv`: while the thread has not been late, it sleeps no longer than to
the earliest live event, and wakes before the clock moves past it.

`CANTelemetryProofs`, for any devices, types, clients and packets: `RemovedIsNotCalled` for any
number of receive threads; `LatestIsStored` and `CallbacksSeeTheirData` for one
(`OneReceiver`), which is what `initCAN` starts. The invariant says what the map holds of the
packet in hand at each of the receiver's steps (`MapFollows`), and that the callback
mutex is held from the choice of a callback to its return.

`MotorBoardsProofs`, for any of the rover's motors (`RoversMotors`), any powers up to full power
(`UpToFullPower`) and any packets lost: `ConfiguredAlways` and `DutyIsAskedAlways`. The
invariant `BoardsInv` has six parts. `Typed` and `InOrder`: in the list of calls that
`initMotors` has still to make for a motor, a pull or a sensor comes after the packets that tell the board how to
measure. `Configured`: what has been done is in that order too, where a packet counts as told
when it arrived or is among those lost. `Progress`: what each loop has done for the motors it
has passed. `Commanded`: duty cycle and mode are those of the last command, or a call is pending that
makes them so. `Serving`: nothing is pending of `initMotors` once commands are taken. The
duty cycle is within half a unit by arithmetic on the scales of `PwmScale`.

`DevicesProofs` carries what is proved of a module to the instances that the run `devices`
checks, and proves the rest of that run's invariants:

| Theorem | Argument |
|---|---|
| `TelemetryIsExactAlways` | `CANTelemetryProofs` at one receive thread |
| `EventsAreTrackedAlways` | `MotorInv`: the id a motor keeps is that of the one event that is scheduled, wherever its steps are; `PullsInv`: keys of the map are ids of live events, each once |
| `RegistryIsExactAlways` | `RegistryInv`: both maps of the simulator hold the same ids, all below the next one |
| `FramesAreWholeAlways` | `FrameInv`: the frame, its number and time change together while the lock is held; `ToolInv`: what the tool's camera has is what was saved, once it is calibrated |
| `TimesAreHonestAlways` | `PositionInv`, `JointInv`: at each step of a report its time is that of the oldest part read so far |
| `BoardsAreConfiguredAlways` | `MotorBoardsProofs` at arm motors, and at hand and wheels |
| `WatchdogImplementsStarvation`, `KeepsPromiseAlways` | `Watchdog` implements `Starvation`, also as the run has it. `WaitIsHunger`: while the thread waits unfed, the time left and the time hungry add up to the duration at least |
| `OneMapAlways` | `GpsInv`: a position is placed only right after the reading that it is of was returned, over either source |
| `SavesOneCaptureAlways` | `CaptureInv`: every view that is kept was taken since the capture was started |
| `DataIsCurrentAlways` | `TagsInv`: what is kept of a tag is its last sight, or nothing once that is not fresh, and the flag is up while the last copy differs from it; `ReportInv`: what a pass has read of a joint's motors is as new as what there was at its start, and as the report before; `VideoInv`: streams are opened and closed between the task's passes only, so that each stream of a pass has an encoder and has been sent nothing that its camera has not given; `Newer`: a reader that has seen a new number is behind the frame that it is about to copy |

`MissionProofs` does the same for the run `mission`, for the part of it that is `Mission`:

| Theorem | Argument |
|---|---|
| `RequestsAreMeantAlways` | `RequestsInv`, by type of message: a handler reads only fields that its own validator has tested, since a type gets its validator with its handler; `ProcessInv`: the protocol is added once the motors are there, and a client is accepted only where there is a protocol |
| `MotionFollowsCommandsAlways` | a profile is a ramp of `k` ticks, a coast of `c` and a ramp down at acceleration `2h` (`IsProfile`), whose three formulas agree where they meet (`ProfileSmooth`); `FollowsVelocity`: what has been added to a target is what its velocity and the time since its base give. The odometry's heading lags behind the wheels' by less than a millisecond of motion for each reading (`Lags`), and so does its way on a line. Its place: `DrivenInv` has what transform and pose are after a way on one line (`OnLine`) and after quarter turns on one circle (`OnCircle`), and `LineGoesOn`, `CircleGoesOn` that the product keeps both, from either side; the scaled powers are bounded by a root that exists because the natural numbers are well ordered (`SqrtIsRoot`). `ArmInv`: what `getCommand` is about to store was brought back into reach before, whatever the set point became since |
| `PlanOrNoPathAlways` | `Rooted`: a node is one valid action away from its parent, at the cost and the number of steps that this makes, and the start has none. `Written`: the rows written so far lead from the node that the loop has reached to one near the goal, and their cost with that node's is that one's; when all rows are written the node is the start. `Closed`: what has left the queue is too far from the goal and its neighbours are visited. With an empty queue the visited cells are therefore closed under steps to free cells, since both turns and so all eight headings of a visited cell are visited; a path cannot leave them, by the least index at which it would. That there is one cost function of a plan is the same argument by least counterexample, in place of induction |
| `DoneAfterStayAlways` | `StayInv`: while a stay is being timed, the last record outside is older than its start, and the record that ends it drops it before the next test |
| `GraphFollowsWindowAlways` | `GuessInv`: which pose an index holds is told by the first pose of the window alone; the last solution has the window's first poses, a window that is too long has one pose more than that. `FactorsInv`: every factor acts on the values it was added for, trimming moves both by one (`ShiftedActs`, `TrimmedIsGuess`), and no sight of a landmark has a later number than the one kept for it |
| `ToolsEndSafelyAlways` | `ToolsInv`: which packets are still to be sent, by program and step. TunePID has sent no power but zero, so that mode and power of the board are read off what is left of its last list; CANTest's three modes send the same list; in the PID test a mode is only ever first, before any target |

`NumericsProofs` proves the part of `Mission` that computes with fractions, `EstimatesFollowRoverAlways`. The invariants
speak of numerators over a denominator that the parts have in common, since reducing loses it:
`Is(a, n, d)` says that the fraction `a`, in lowest terms, is `n / d`. Euclid's algorithm returns the
greatest common divisor (`GcdIsGcd`, by the least second argument for which it would not), fractions in
lowest terms are equal when their values are (`IsUnique`), and each operator of
`Fractions` has one lemma that says what it is over any denominators (`PlusIs`, `TimesIs`, `LessIs`, `CeilingIs`, ...).

- `WristInv`: pitch and roll over one denominator, the gears' sum and difference over another, none more
  than one; scaling by the larger one keeps the ratio (`ScaledIs`).
- `DriveInv`: the way since the wheels last changed is the sum of the velocities, each rotated by the
  heading of its step. `FourTurnsClose`, `TwoQuarterTurns` and `StraightAhead` add up at most four of
  them, or any number in one direction. The velocity explains the wheels best since what is left over of them is
  orthogonal to each column of the matrix (`ResidualsAreLeast`).
- `FilterInv`: the estimate is within `Error` of the heading (`CloseTo`), and the variance, that of
  the last prediction, the measurement's and the number of corrections are in the relation that their
  inverses add up (`WeightsAre`). `closestHeading` brings what is measured to within a half turn of an estimate
  that is less than a quarter turn off, so to within `Error` of the heading counted through (`ClosestIs`,
  `MeasuredIs`), and a gain between 0 and 1 keeps the estimate between the two (`GainKeepsClose`). The gain of the
  linear filter is 3/5: `DARE` stops after its first step, with the error of 1/3 that is above its tolerance.

Assumptions on constants are what the code gives. For `Devices`: the sensors that lock are the GPS or the IMU
(`LockedAssumption`), a reader is not called as the capture thread is
(`CamReadersAssumption`), numbers of frames are integers (`NFramesAssumption`), a sight stays fresh for a
natural number of ticks (`FreshPeriodAssumption`), motors are
those of `motorSerialIDMap` and powers those up to full power (`BoardsAssumption`). For `Mission`: the ramps of a
profile end at whole times (`RampsAssumption`; rational ramps become whole by a choice of units); stick, speeds,
a millisecond and the radii on which sticks lead are whole (`OdometryAssumption`); the time of a stay is an integer
(`StayAssumption`); the planner's cells are those of a grid and costs are lengths (`GridAssumption`); the arm's
positions are on a line and its radius is a length (`ArmAssumption`); the window has two poses or more (`WindowAssumption`: the prior of the next pose takes its
covariance from the last solution, and a window of one pose has none); board 10 exists, and nobody types the
number that stands for no target (`ToolsAssumption`); the rover turns by less than a half turn between two
measurements, which are off by less than a quarter turn (`TurnsAssumption`: beyond these the closest heading
is another one); gears and joint are given full power at most, the base has a middle and velocities are whole (`GearsAssumption`).

Only model-checked:

- all liveness, since it is out of the prover's reach: `WatchdogAnswers`, `WaitsEnd`, `StreamsAreServed`,
  `CallsReturn`, `EventsRun`, `DestructorReturns`, `LastCommandObeyed` and `RepeaterExits`;
- `NumericsAgree`: the least squares of `GraphSolver` and the mean and errors of `PointMatching` are folds over
  any number of factors or points, and the heap of `PointMatching` is recursive. What those compute for every
  input is induction over data;
- `TreeStoresPoints`: `QuadTree` has recursive operators, with which there is no SMT backend. That is
  why `Mission` is apart from `MCMission`.

## 6. Not modelled

- Formulas over doubles without control: `PIDControl`, FABRIK, the forward kinematics and the Jacobian of
  the planar arm, conversions of GPS coordinates. TLC has no reals, and what
  these do for every input is analysis. Where a numeric module decides something (a wrap, a
  branch, an index, a stopping test) it is modelled, on a line or on quarter turns.
- Computations of OpenCV and codecs: detection of tags and corners, the camera's parameters,
  H.264, base64. What the code keeps of their results is modelled.
- I/O and layout: packets of HindsightCAN, JSON of messages (types and ranges of the values are in
  `Requests`), configuration, logging, sockets. What the code does when a write fails is in `MotorBoards`.
- `MarkerSet` and `MarkerPattern`, tables filled once; `ARTester` and the other test programs; wording of prompts.
- Undefined behaviour at construction (the scheduler's member order) and inside a library that
  SIGINT interrupts. So it is not shown that TunePID ends when SIGINT comes inside
  `sendCANPacket`: its handler (`TunePID.cpp:53`) sends a packet itself and locks `socketMutex`
  (`CAN/CAN.cpp:270`), which the interrupted thread may hold. `ToolsEndSafely` is about the signal
  between packets.

Observed while modelling, outside what the properties say:

- `network/`: the emergency stop lowers `armIKEnabled` after it has stopped the joints, while
  `handleSetArmIKEnabled` may raise it; joints under IK are refused by the stop's
  `setJointPower` while it is up. `sendRawString` tests `client` without the mutex. The protocol's
  destructor does not join the report thread. A `jointPositionRequest`
  with a position that is not negative is refused, since its validator asks for `number_integer`
  and the parser marks such numbers `number_unsigned`; the handler does nothing in any case.
- Motors and CAN: the velocity event reads a position that may be empty, which throws. A limit alert is handed to callbacks and
  not stored. Packets that cannot be sent are reported and forgotten. `FakeCANBoard`
  hangs in its `PIDVel` test (which its prompt does not offer) by `motor_block`; the power typed into it is cut to 16 bits.
- `world_interface/`: `setCmdVelToIntegrate` writes without a lock; odometry integrates the velocity
  before powers are scaled down, so that it runs ahead of a rover whose powers were. `ardupilot/` writes orientation and heading without the readers' mutex.
- `camera/`: `isOpen` is true after a constructor whose device failed; the flag of the
  camera's thread is read while it is freed; the `q` of the help does not end a live calibration; a
  second capture cut short overwrites the file with fewer views.
- `worldmap/`: `GlobalMap` adds points inside an `assert`, which the default build leaves out; `TrICP` with no points to keep divides by zero.
- `filters/`: the stopping test of `DARE` is inverted (`StateSpaceUtil.h:228`);
  `PoseEstimator`'s functions capture `this`; poses tied by odometry alone give a singular
  system in `Graph::solve`. None of the estimators has a caller in the rover.
- `control/`: comments of two branches of `TrapezoidalVelocityProfile` are swapped. `ar/`:
  `MarkerSet::getMarkerByID` is off by one, and mapping a marker again leaves its old id.
- `Rover.cpp`: commands may still arrive between the emergency stop of `closeRover` and the end of the server.
  `rospub.cpp`: a viewer port that is taken ends the program.

## 7. What remains

1. A composition of server, watchdog and repeater in which the watchdog's timeout comes from
   missing pongs instead of a constant; an abstract repeater ("moves only when told, stops when
   told") that `PowerRepeat` implements.
2. The map of pulls against `EventSet`; the solver for a fixed small number of factors, without folds.
3. Two callers of `MotorControl` at once, once the code decides which lock protects the mode.
