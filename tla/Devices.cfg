CONSTANTS
  Duration = 3
  Periods = {1, 3}
  MaxEvents = 2
  MaxLate = 2
  DriveVels = {"forward"}
  JointPowers = {"up"}
  PowerJoints = {}
  IKJoints = {}
  CanDevices = {"elbow"}
  CanTypes = {"angle", "limit_switch"}
  CanClients = {"a", "b"}
  MaxPackets = 3
  MaxCallbacks = 2
  PullKeys = {"a", "b"}
  MaxPulls = 3
  MaxVelEvents = 3
  SimMotors = {"elbow", "hand"}
  Cams = {"front", "rear"}
  SimUsers = {"a", "b"}
  MaxSimCallbacks = 3
  Locked = {"gps"}
  MaxReports = 2
  TagIDs = {1}
  TagReaders = {"a", "b"}
  FreshPeriod = 1
  MaxTagTime = 3
  MaxReadings = 3
  MaxTime = 2
  CamReaders = {"a", "b"}
  MaxFrames = 2
  MaxViews = 6
  NFrames = {3, 4}
  Joints = {"shoulder", "ikUp", "ikForward"}
  MaxMessages = 3
  ArmMotors = {"forearm", "elbow"}
  OtherMotors = {"hand", "rearLeftWheel"}
  PowersAhead = {100}
  PowersBack = {33}
  MaxLost = 1
SPECIFICATION AllSpec
INVARIANTS RemovalsHitTheirEvent NeverOverdue WheelsStoppedInEstop WheelsAsRequested StopsAreJoined
           TelemetryIsExact EventsAreTracked RegistryIsExact TimesAreHonest FramesAreWhole
           BoardsAreConfigured
PROPERTIES ImplementsEventSet EventsRun RepeaterFollows KeepsPromise WatchdogAnswers WaitsEnd
           StreamsAreServed DataIsCurrent OneMap SavesOneCapture
CHECK_DEADLOCK FALSE
