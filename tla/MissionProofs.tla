---------------------------- MODULE MissionProofs ----------------------------
(***************************************************************************)
(* Proofs of what the run of MCMission checks of the components of module  *)
(* Mission, for all values of its constants.                               *)
(***************************************************************************)
EXTENDS Mission, WellFoundedInduction, TLAPS

(***************************************************************************)
(* Requests: what a type's validator lets through, its handler converts.   *)
(***************************************************************************)
\* A type that has a handler has the handler and the validator of one registration, its own.
TypesKeepTheirOwn ==
  /\ DOMAIN validatorMap = DOMAIN handlerMap
  /\ \A t \in DOMAIN handlerMap :
       validatorMap[t] = handlerMap[t] /\ Req!Registrations[handlerMap[t]] = t
RequestsInv == TypesKeepTheirOwn /\ Req!ValidatedIsConverted /\ Req!HandedIsMeant

\* The conversions of a handler succeed on what its validator lets through, but for the fps.
LEMMA ValidConverts ==
  ASSUME NEW type \in DOMAIN Req!Fields, NEW f \in [Req!Fields[type] -> Values],
         Req!Valid(type, f), NEW x \in Req!Read(type, f),
         f[x].type \notin Req!Convertible(x)
  PROVE  type = "cameraStreamOpenRequest" /\ f.fps.type \notin Req!Convertible("fps")
  BY DEF Req!Fields, Req!Valid, Req!Read, Req!Convertible, Req!Numbers,
         Req!ValidateEmergencyStopRequest, Req!ValidateOperationModeRequest,
         Req!ValidateDriveRequest, Req!ValidateArmIKEnable, Req!ValidateJoint,
         Req!ValidateJointPowerRequest, Req!ValidateJointPositionRequest,
         Req!ValidateCameraStreamOpenRequest, Req!ValidateCameraStreamCloseRequest,
         Req!ValidateGPSRequest, Req!ValidateIMURequest, Req!ValidateHeadingRequest,
         Req!ValidateKey, Req!HasKey, Req!ValidateOneOf, Req!ValidateRange

\* What a validator lets through is in its range where wheels, joints and modes depend on it.
LEMMA ValidIsMeant ==
  ASSUME NEW type \in DOMAIN Req!Fields, NEW f \in [Req!Fields[type] -> Values],
         Req!Valid(type, f),
         NEW x \in DOMAIN f \cap {"straight", "steer", "power", "mode", "joint"}
  PROVE  f[x].ok
  BY DEF Req!Fields, Req!Valid,
         Req!ValidateEmergencyStopRequest, Req!ValidateOperationModeRequest,
         Req!ValidateDriveRequest, Req!ValidateArmIKEnable, Req!ValidateJoint,
         Req!ValidateJointPowerRequest, Req!ValidateJointPositionRequest,
         Req!ValidateCameraStreamOpenRequest, Req!ValidateCameraStreamCloseRequest,
         Req!ValidateGPSRequest, Req!ValidateIMURequest, Req!ValidateHeadingRequest,
         Req!ValidateKey, Req!HasKey, Req!ValidateOneOf, Req!ValidateRange

\* A text that no message was parsed from is not mistaken for a message.
LEMMA LenOfText == \A text : Len(<<>>) # 2 /\ Len(<<text>>) # 2
  OBVIOUS

LEMMA RequestsInit == Req!Init => RequestsInv
  BY DEF Req!Init, RequestsInv, TypesKeepTheirOwn, Req!ValidatedIsConverted, Req!HandedIsMeant,
         Req!Nothing

LEMMA RequestsStep == RequestsInv /\ [Req!Next]_requestVars => RequestsInv'
<1> SUFFICES ASSUME RequestsInv, [Req!Next]_requestVars PROVE RequestsInv'
  OBVIOUS
<1> USE DEF RequestsInv
<1>1. CASE UNCHANGED requestVars
  BY <1>1 DEF requestVars, TypesKeepTheirOwn, Req!ValidatedIsConverted, Req!HandedIsMeant
<1>2. CASE Req!AddMessageHandler
  <2>1. TypesKeepTheirOwn'
    <3> DEFINE type == Req!Registrations[registered']
    <3>1. CASE type \in DOMAIN handlerMap
      BY <1>2, <3>1 DEF Req!AddMessageHandler, TypesKeepTheirOwn
    <3>2. CASE type \notin DOMAIN handlerMap
      <4>1. /\ handlerMap' = Req!With(handlerMap, type, registered')
            /\ validatorMap' = Req!With(validatorMap, type, registered')
        BY <1>2, <3>2 DEF Req!AddMessageHandler
      <4> HIDE DEF type
      <4>2. /\ DOMAIN validatorMap' = DOMAIN handlerMap'
            /\ \A t \in DOMAIN handlerMap' :
                 /\ handlerMap'[t] = IF t = type THEN registered' ELSE handlerMap[t]
                 /\ validatorMap'[t] = IF t = type THEN registered' ELSE validatorMap[t]
                 /\ t = type \/ t \in DOMAIN handlerMap
        BY <4>1 DEF Req!With, TypesKeepTheirOwn
      <4>3. Req!Registrations[registered'] = type
        BY DEF type
      <4> QED
        BY <4>2, <4>3 DEF TypesKeepTheirOwn
    <3> QED
      BY <3>1, <3>2
  <2>2. UNCHANGED <<handed, thrown>>
    BY <1>2 DEF Req!AddMessageHandler
  <2> QED
    BY <2>1, <2>2 DEF Req!ValidatedIsConverted, Req!HandedIsMeant
<1>3. ASSUME NEW type \in DOMAIN Req!Fields, NEW f \in [Req!Fields[type] -> Values],
             Req!ProcessMessage(type, f)
      PROVE  RequestsInv'
  <2>1. TypesKeepTheirOwn'
    BY <1>3 DEF Req!ProcessMessage, TypesKeepTheirOwn
  <2>2. CASE UNCHANGED <<handed, thrown>>
    BY <2>1, <2>2 DEF Req!ValidatedIsConverted, Req!HandedIsMeant
  <2>3. CASE /\ type \in DOMAIN validatorMap
             /\ Req!Valid(Req!Registrations[validatorMap[type]], f)
    <3>1. Req!Valid(type, f) /\ Req!Handle(type, f)
      BY <1>3, <2>3 DEF Req!ProcessMessage, TypesKeepTheirOwn
    <3>2. CASE handed' = <<type, f>> /\ UNCHANGED thrown
      <4>1. Req!HandedIsMeant'
        BY <3>1, <3>2, ValidIsMeant DEF Req!HandedIsMeant
      <4> QED
        BY <2>1, <3>2, <4>1 DEF Req!ValidatedIsConverted
    <3>3. CASE /\ \E x \in Req!Read(type, f) : f[x].type \notin Req!Convertible(x)
               /\ thrown' = <<type, f>> /\ UNCHANGED handed
      <4>1. type = "cameraStreamOpenRequest" /\ f.fps.type \notin Req!Convertible("fps")
        BY <3>1, <3>3, ValidConverts
      <4>2. Req!ValidatedIsConverted'
        BY <3>3, <4>1 DEF Req!ValidatedIsConverted, Req!Convertible
      <4> QED
        BY <2>1, <3>3, <4>2 DEF Req!HandedIsMeant
    <3> QED
      BY <3>1, <3>2, <3>3 DEF Req!Handle
  <2> QED
    BY <1>3, <2>2, <2>3 DEF Req!ProcessMessage
<1>4. ASSUME NEW text \in {"no JSON", "type is no string", "no type", "unknown type",
                           "unknown path"},
             Req!OnMessage(text)
      PROVE  RequestsInv'
  <2>1. UNCHANGED <<registered, handlerMap, validatorMap, handed>> /\ Len(thrown') # 2
    BY <1>4, LenOfText DEF Req!OnMessage, Req!Nothing
  <2> QED
    BY <2>1 DEF TypesKeepTheirOwn, Req!ValidatedIsConverted, Req!HandedIsMeant
<1> QED
  <2>1. CASE \E type \in DOMAIN Req!Fields : \E f \in [Req!Fields[type] -> Values] :
               Req!ProcessMessage(type, f)
    BY <2>1, <1>3, Zenon
  <2> QED
    BY <1>1, <1>2, <1>4, <2>1 DEF Req!Next

(***************************************************************************)
(* Process: the protocol is added once the motors are there, and a client  *)
(* is only accepted where there is a protocol.                             *)
(***************************************************************************)
ProcessInv ==
  /\ DOMAIN connOf = Process!Clients
  /\ main \in {"protocol", "rospub", "signal", "loop", "shutdown", "stop", "close"} => motors
  /\ Process!MC \in protocols => motors
  /\ \A c \in Process!Clients :
       Endpoints[c] = Process!MC /\ connOf[c] \in {"accepted", "open"} => motors
  /\ Process!CommandsFindMotors

LEMMA ProcessInit == Process!Init => ProcessInv
  BY DEF Process!Init, ProcessInv, Process!CommandsFindMotors, Process!MC

LEMMA ProcessStep == ProcessInv /\ [Process!Next]_processVars => ProcessInv'
<1> SUFFICES ASSUME ProcessInv, [Process!Next]_processVars PROVE ProcessInv'
  OBVIOUS
<1> USE DEF ProcessInv, Process!CommandsFindMotors
<1>1. CASE UNCHANGED processVars
  BY <1>1 DEF processVars
<1>2. CASE Process!Main
  BY <1>2 DEF Process!Main, Process!ParseCommandLine, Process!Start, Process!InitArduPilot,
     Process!InitMotors, Process!AddProtocol, Process!InitRospub, Process!InstallHandler,
     Process!Goto, Process!End, Process!net, Process!MC, Process!AP
<1>3. CASE Process!Interrupt \/ Process!CloseRover \/ Process!Return \/ Process!View
  BY <1>3 DEF Process!Interrupt, Process!CloseRover, Process!Return, Process!View,
     Process!Goto, Process!End, Process!net
<1>4. CASE Process!ShutdownRospub \/ Process!Stop \/ Process!Join
  BY <1>4 DEF Process!ShutdownRospub, Process!Stop, Process!Join, Process!Goto, Process!End,
     Process!net
<1>5. ASSUME NEW p \in Process!Paths, Process!CloseClient(p) PROVE ProcessInv'
  BY <1>5 DEF Process!CloseClient
<1>6. ASSUME NEW c \in Process!Clients,
             Process!Validate(c) \/ Process!OnOpen(c) \/ Process!OnMessage(c) \/ Process!OnClose(c)
      PROVE  ProcessInv'
  <2>1. CASE Process!Validate(c)
    BY <2>1 DEF Process!Validate
  <2>2. CASE Process!OnOpen(c)
    BY <2>2 DEF Process!OnOpen
  <2>3. CASE Process!OnMessage(c)
    BY <2>3 DEF Process!OnMessage, Process!net
  <2>4. CASE Process!OnClose(c)
    BY <2>4 DEF Process!OnClose
  <2> QED
    BY <1>6, <2>1, <2>2, <2>3, <2>4
<1> QED
  BY <1>1, <1>2, <1>3, <1>4, <1>5, <1>6 DEF Process!Next, Process!Closing

\* What is handed over has been validated, what is validated is converted but for the fps of
\* a camera's stream, and no command of mission control finds a motor missing
\* (WebSocketProtocol.cpp, MissionControlProtocol.cpp, Rover.cpp).
THEOREM RequestsAreMeantAlways == MissionSpec => []RequestsAreMeant
<1>1. MissionInit => RequestsInv /\ ProcessInv
  BY RequestsInit, ProcessInit DEF MissionInit
<1>2. RequestsInv /\ ProcessInv /\ [MissionNext]_missionVars => (RequestsInv /\ ProcessInv)'
  <2>1. [MissionNext]_missionVars => [Req!Next]_requestVars /\ [Process!Next]_processVars
    BY DEF MissionNext, missionVars, processVars, requestVars
  <2> QED
    BY <2>1, RequestsStep, ProcessStep
<1>3. RequestsInv /\ ProcessInv => RequestsAreMeant
  BY DEF RequestsInv, ProcessInv, RequestsAreMeant
<1> QED
  BY <1>1, <1>2, <1>3, PTL DEF MissionSpec

(***************************************************************************)
(* Motion: a profile that ramps up for k ticks, coasts for c and ramps     *)
(* down, at the acceleration 2h.                                           *)
(***************************************************************************)
\* The way after t ticks.
Way(h, k, c, t) ==
  IF t < 0 THEN 0
  ELSE IF t < k THEN h * (t * t)
  ELSE IF t < k + c THEN h * k * (2 * t - k)
  ELSE IF t < 2 * k + c THEN 2 * h * k * (k + c) - h * ((2 * k + c - t) * (2 * k + c - t))
  ELSE 2 * h * k * (k + c)
\* The way of the tick after t.
Speed(h, k, c, t) ==
  IF t < 0 THEN 0
  ELSE IF t < k THEN 2 * (h * t) + h
  ELSE IF t < k + c THEN 2 * (h * k)
  ELSE IF t < 2 * k + c THEN 2 * (h * (2 * k + c - t)) - h
  ELSE 0

LEMMA DivMod == \A a, b \in Int : b > 0 /\ a % b = 0 => a = b * (a \div b)
  OBVIOUS
LEMMA DivMul == \A b, q \in Int : b > 0 => (b * q) \div b = q
  OBVIOUS

\* The formulas of neighbouring branches agree where they meet.
LEMMA WayStep ==
  ASSUME NEW h \in Nat, NEW k \in Nat, NEW c \in Nat, k = 0 => c = 0, NEW t \in Int
  PROVE Way(h, k, c, t + 1) - Way(h, k, c, t) = Speed(h, k, c, t)
<1>1. CASE t < 0
  BY <1>1 DEF Way, Speed
<1>2. CASE 0 <= t /\ t < k
  <2>1. h * ((t + 1) * (t + 1)) - h * (t * t) = 2 * (h * t) + h
    OBVIOUS
  <2>2. t + 1 = k => h * k * (2 * (t + 1) - k) = h * ((t + 1) * (t + 1))
    OBVIOUS
  <2>3. t + 1 = k /\ c = 0 =>
          2 * h * k * (k + c) - h * ((2 * k + c - (t + 1)) * (2 * k + c - (t + 1)))
            = h * ((t + 1) * (t + 1))
    OBVIOUS
  <2> QED
    BY <1>2, <2>1, <2>2, <2>3 DEF Way, Speed
<1>3. CASE k <= t /\ t < k + c
  <2>1. h * k * (2 * (t + 1) - k) - h * k * (2 * t - k) = 2 * (h * k)
    OBVIOUS
  <2>2. t + 1 = k + c =>
          2 * h * k * (k + c) - h * ((2 * k + c - (t + 1)) * (2 * k + c - (t + 1)))
            = h * k * (2 * (t + 1) - k)
    OBVIOUS
  <2> QED
    BY <1>3, <2>1, <2>2 DEF Way, Speed
<1>4. CASE k + c <= t /\ t < 2 * k + c
  <2>1. h * ((2 * k + c - t) * (2 * k + c - t))
           - h * ((2 * k + c - (t + 1)) * (2 * k + c - (t + 1)))
          = 2 * (h * (2 * k + c - t)) - h
    OBVIOUS
  <2>2. t + 1 = 2 * k + c => h * ((2 * k + c - (t + 1)) * (2 * k + c - (t + 1))) = 0
    OBVIOUS
  <2> QED
    BY <1>4, <2>1, <2>2 DEF Way, Speed
<1>5. CASE t >= 2 * k + c
  BY <1>5 DEF Way, Speed
<1> QED
  BY <1>1, <1>2, <1>3, <1>4, <1>5

\* No tick's way is longer than one at top speed, nor by more than 2h than the next one's.
LEMMA SpeedSmooth ==
  ASSUME NEW h \in Nat, NEW k \in Nat, NEW c \in Nat, k = 0 => c = 0, NEW t \in Int
  PROVE /\ Speed(h, k, c, t) \in Int /\ 0 <= Speed(h, k, c, t) /\ Speed(h, k, c, t) <= 2 * (h * k)
        /\ -2 * h <= Speed(h, k, c, t + 1) - Speed(h, k, c, t)
        /\ Speed(h, k, c, t + 1) - Speed(h, k, c, t) <= 2 * h
<1> DEFINE Mul(x) == h * x
<1>1. \A x \in Int : Mul(x) \in Int /\ Mul(x + 1) = Mul(x) + h
  OBVIOUS
<1>2. \A x, y \in Int : x <= y => Mul(x) <= Mul(y)
  OBVIOUS
<1>3. Mul(0) = 0
  OBVIOUS
<1>4. \A x \in Int : Speed(h, k, c, x) =
  IF x < 0 THEN 0
  ELSE IF x < k THEN 2 * Mul(x) + h
  ELSE IF x < k + c THEN 2 * Mul(k)
  ELSE IF x < 2 * k + c THEN 2 * Mul(2 * k + c - x) - h
  ELSE 0
  BY DEF Speed
<1> HIDE DEF Mul
<1>5. \A x \in 0..(k - 1) : 0 <= 2 * Mul(x) + h /\ 2 * Mul(x) + h <= 2 * Mul(k) - h
  <2> TAKE x \in 0..(k - 1)
  <2>1. Mul(x + 1) = Mul(x) + h /\ Mul(x) \in Int /\ Mul(k) \in Int
    BY <1>1
  <2>2. 0 <= x /\ x + 1 <= k /\ x + 1 \in Int /\ x \in Int
    OBVIOUS
  <2>3. Mul(0) <= Mul(x) /\ Mul(x + 1) <= Mul(k)
    BY <2>2, <1>2
  <2> QED
    BY <2>1, <2>3, <1>3
<1>6. Mul(k) >= 0 /\ Mul(k) \in Int
  <2>1. Mul(0) <= Mul(k)
    BY <1>2
  <2> QED
    BY <2>1, <1>1, <1>3
<1>7. /\ Speed(h, k, c, t) \in Int /\ 0 <= Speed(h, k, c, t)
      /\ Speed(h, k, c, t) <= 2 * Mul(k)
  <2>1. CASE 0 <= t /\ t < k
    <3>1. Mul(t) \in Int /\ 0 <= 2 * Mul(t) + h /\ 2 * Mul(t) + h <= 2 * Mul(k) - h
      BY <2>1, <1>1, <1>5
    <3> QED
      BY <2>1, <3>1, <1>4, <1>6
  <2>2. CASE k + c <= t /\ t < 2 * k + c
    <3> DEFINE r == 2 * k + c - t
    <3>1. r - 1 \in 0..(k - 1)
      BY <2>2
    <3>2. Mul(r) = Mul(r - 1) + h /\ Mul(r - 1) \in Int
      BY <3>1, <1>1
    <3>3. 0 <= 2 * Mul(r - 1) + h /\ 2 * Mul(r - 1) + h <= 2 * Mul(k) - h
      BY <3>1, <1>5
    <3>4. Speed(h, k, c, t) = 2 * Mul(r) - h
      BY <2>2, <1>4
    <3> QED
      BY <3>2, <3>3, <3>4, <1>6
  <2> QED
    BY <2>1, <2>2, <1>4, <1>6
<1>8. /\ -2 * h <= Speed(h, k, c, t + 1) - Speed(h, k, c, t)
      /\ Speed(h, k, c, t + 1) - Speed(h, k, c, t) <= 2 * h
  <2>1. CASE t < -1 \/ 2 * k + c <= t \/ (k <= t /\ t + 1 < k + c)
    BY <2>1, <1>4, <1>6
  <2>2. CASE t = -1
    BY <2>2, <1>1, <1>3, <1>4
  <2>3. CASE 0 <= t /\ t + 1 < k
    BY <2>3, <1>1, <1>4
  <2>4. CASE t + 1 = k /\ 0 <= t
    <3>1. Mul(k) = Mul(t) + h /\ Mul(t) \in Int
      BY <2>4, <1>1
    <3>2. Speed(h, k, c, t) = 2 * Mul(t) + h
      BY <2>4, <1>4
    <3>3. Speed(h, k, c, t + 1) = IF c = 0 THEN 2 * Mul(k) - h ELSE 2 * Mul(k)
      <4>1. c = 0 => 2 * k + c - (t + 1) = k
        BY <2>4
      <4> QED
        BY <2>4, <4>1, <1>4
    <3> QED
      BY <3>1, <3>2, <3>3
  <2>5. CASE k <= t /\ t + 1 = k + c
    <3>1. Speed(h, k, c, t) = 2 * Mul(k)
      BY <2>5, <1>4
    <3>2. 2 * k + c - (t + 1) = k /\ k > 0
      BY <2>5
    <3>3. Speed(h, k, c, t + 1) = 2 * Mul(k) - h
      BY <2>5, <3>2, <1>4
    <3> QED
      BY <3>1, <3>3, <1>6
  <2>6. CASE k + c <= t /\ t + 1 < 2 * k + c
    <3> DEFINE r == 2 * k + c - (t + 1)
    <3>1. Mul(r + 1) = Mul(r) + h /\ Mul(r) \in Int /\ r + 1 = 2 * k + c - t
      BY <2>6, <1>1
    <3>2. Speed(h, k, c, t) = 2 * Mul(r + 1) - h /\ Speed(h, k, c, t + 1) = 2 * Mul(r) - h
      BY <2>6, <3>1, <1>4
    <3> QED
      BY <3>1, <3>2
  <2>7. CASE k + c <= t /\ t + 1 = 2 * k + c
    <3>1. Mul(1) = h /\ 2 * k + c - t = 1
      BY <2>7, <1>1, <1>3
    <3>2. Speed(h, k, c, t) = 2 * Mul(1) - h /\ Speed(h, k, c, t + 1) = 0
      BY <2>7, <3>1, <1>4
    <3> QED
      BY <3>1, <3>2
  <2> QED
    BY <2>1, <2>2, <2>3, <2>4, <2>5, <2>6, <2>7
<1> QED
  BY <1>7, <1>8 DEF Mul

\* The direction of a move, and its profile.
Dir(s, e) == IF e < s THEN -1 ELSE 1
Ramped(t, s, e, k, c) ==
  [startTime |-> t, startPos |-> s, endPos |-> e,
   stopAccel |-> k, startDecel |-> k + c, total |-> c + 2 * k]

\* A profile has that form, whichever branch of setTarget made it.
LEMMA ProfileShape ==
  ASSUME NEW t \in Int, NEW s \in Int, NEW e \in Int, Motion!Abs(e - s) \in Dists
  PROVE  \E h, k, c, m \in Nat :
           /\ MaxAccel = 2 * h /\ MaxVel = 2 * (h * m)
           /\ k <= m /\ (k = 0 => c = 0) /\ (c # 0 => k = m)
           /\ Motion!Abs(e - s) = 2 * h * k * (k + c)
           /\ Motion!ProfileFor(t, s, e) = Ramped(t, s, e, k, c)
<1> DEFINE d == Motion!Abs(e - s)
           h == MaxAccel \div 2
           m == MaxVel \div MaxAccel
<1>1. MaxAccel \in Nat /\ MaxAccel > 0 /\ MaxVel \in Nat /\ MaxVel > 0 /\ d \in Nat
  <2>1. MaxAccel \in Nat \ {0} /\ MaxVel \in Nat \ {0} /\ Dists \subseteq Nat
    BY RampsAssumption
  <2>2. d \in Dists
    OBVIOUS
  <2> HIDE DEF d
  <2> QED
    BY <2>1, <2>2
<1>2. MaxAccel = 2 * h /\ h \in Nat /\ h > 0
  <2>1. MaxAccel % 2 = 0
    BY RampsAssumption
  <2> QED
    BY <1>1, <2>1
<1>3. MaxVel = MaxAccel * m /\ m \in Int
  BY <1>1, DivMod, RampsAssumption
<1>4. m > 0
  BY <1>1, <1>3
<1>5. MaxVel = 2 * (h * m)
  BY <1>2, <1>3
<1> HIDE DEF d, h, m
<1>6. Motion!RampUpTime = m
  BY DEF Motion!RampUpTime, m
<1>7. Motion!RampUpDist = h * (m * m)
  <2>1. MaxVel * MaxVel = (2 * MaxAccel) * (h * (m * m))
    BY <1>1, <1>2, <1>3, <1>4
  <2>2. h * (m * m) \in Int /\ 2 * MaxAccel \in Int /\ 2 * MaxAccel > 0
    BY <1>1, <1>2, <1>3
  <2>3. ((2 * MaxAccel) * (h * (m * m))) \div (2 * MaxAccel) = h * (m * m)
    BY <2>2, DivMul
  <2> QED
    BY <2>1, <2>3 DEF Motion!RampUpDist
<1>8. CASE 2 * Motion!RampUpDist < d
  <2> DEFINE c == (d - 2 * Motion!RampUpDist) \div MaxVel
  <2>1. d - 2 * Motion!RampUpDist \in Int /\ d - 2 * Motion!RampUpDist > 0
    BY <1>1, <1>2, <1>3, <1>7, <1>8
  <2>2. (d - 2 * Motion!RampUpDist) % MaxVel = 0
    BY <1>8, RampsAssumption DEF d
  <2>3. d - 2 * Motion!RampUpDist = MaxVel * c /\ c \in Int
    BY <1>1, <2>1, <2>2, DivMod
  <2>4. c > 0
    BY <1>1, <2>1, <2>3
  <2>5. Motion!ProfileFor(t, s, e) = Ramped(t, s, e, m, c)
    BY <1>6, <1>8 DEF Motion!ProfileFor, Ramped, d
  <2> HIDE DEF c
  <2>6. d = 2 * h * m * (m + c)
    <3>1. d = 2 * (h * (m * m)) + 2 * (h * m) * c
      BY <1>1, <1>2, <1>3, <1>5, <1>7, <2>3
    <3>2. \A x, y, z \in Int : 2 * (x * (y * y)) + 2 * (x * y) * z = 2 * x * y * (y + z)
      OBVIOUS
    <3> QED
      BY <1>2, <1>3, <2>3, <3>1, <3>2
  <2>7. h \in Nat /\ m \in Nat /\ c \in Nat
    BY <1>2, <1>3, <1>4, <2>3, <2>4
  <2>8. (m = 0 => c = 0) /\ m <= m
    BY <1>4, <2>7
  <2> USE <2>7
  <2> WITNESS h \in Nat, m \in Nat, c \in Nat, m \in Nat
  <2> QED
    BY <1>2, <1>5, <2>5, <2>6, <2>8 DEF d
<1>9. CASE ~(2 * Motion!RampUpDist < d)
  <2>1. PICK r \in 0..m : d = MaxAccel * r * r
    BY <1>1, <1>2, <1>3, <1>4, <1>6, <1>7, <1>9, RampsAssumption DEF d
  <2>2. d \div MaxAccel = r * r
    <3>1. d = MaxAccel * (r * r) /\ r * r \in Int
      BY <1>1, <2>1
    <3> QED
      BY <1>1, <3>1, DivMul
  <2>3. Motion!Sqrt(r * r) = r
    <3>1. r \in 0..(r * r) /\ r * r <= r * r /\ r * r < (r + 1) * (r + 1)
      BY <2>1
    <3>2. \A q \in 0..(r * r) : q * q <= r * r /\ r * r < (q + 1) * (q + 1) => q = r
      <4> TAKE q \in 0..(r * r)
      <4>1. q < r => (q + 1) * (q + 1) <= r * r
        BY <2>1
      <4>2. q > r => q * q > r * r
        BY <2>1
      <4> QED
        BY <2>1, <4>1, <4>2
    <3> QED
      BY <3>1, <3>2 DEF Motion!Sqrt
  <2>4. Motion!ProfileFor(t, s, e) = Ramped(t, s, e, r, 0)
    BY <1>9, <2>2, <2>3 DEF Motion!ProfileFor, Ramped, d
  <2>5. d = 2 * h * r * (r + 0)
    BY <1>2, <2>1
  <2>6. h \in Nat /\ m \in Nat /\ r \in Nat /\ 0 \in Nat /\ r <= m
    BY <1>2, <1>3, <1>4, <2>1
  <2> USE <2>6
  <2> WITNESS h \in Nat, r \in Nat, 0 \in Nat, m \in Nat
  <2> QED
    BY <1>2, <1>5, <2>4, <2>5, <2>6 DEF d
<1> QED
  BY <1>8, <1>9

\* The position that is commanded x ticks after the start of a profile of that form.
LEMMA ProfileIsWay ==
  ASSUME NEW t \in Int, NEW s \in Int, NEW e \in Int, NEW x \in Int,
         NEW h \in Nat, NEW k \in Nat, NEW c \in Nat,
         MaxAccel = 2 * h, c # 0 => MaxVel = 2 * (h * k), k = 0 => c = 0,
         Motion!Abs(e - s) = 2 * h * k * (k + c)
  PROVE  Motion!ProfileAt(Ramped(t, s, e, k, c), t + x) = s + Dir(s, e) * Way(h, k, c, x)
<1> DEFINE p == Ramped(t, s, e, k, c)
           dir == Dir(s, e)
           dist == 2 * h * k * (k + c)
           rest == 2 * k + c - x
<1>0. dir \in {-1, 1} /\ MaxVel \in Int /\ MaxAccel \in Int
  <2>1. MaxAccel \in Nat \ {0} /\ MaxVel \in Nat \ {0}
    BY RampsAssumption
  <2> QED
    BY <2>1 DEF Dir
<1>1. dist \in Nat /\ e = s + dir * dist
  BY DEF Motion!Abs, Dir
<1>2. Motion!Sign(e - s) = IF e = s THEN 0 ELSE dir
  BY DEF Motion!Sign, Dir
<1>3. Motion!ProfileAt(p, t + x) =
        IF x < 0 THEN s
        ELSE IF x < k THEN s + Motion!Sign(e - s) * ((MaxAccel * x * x) \div 2)
        ELSE IF x < k + c THEN s + Motion!Sign(e - s) * (((2 * x - k) * MaxVel) \div 2)
        ELSE IF x < 2 * k + c THEN e - Motion!Sign(e - s) * ((MaxAccel * rest * rest) \div 2)
        ELSE e
  <2>1. /\ p.startTime = t /\ p.startPos = s /\ p.endPos = e
        /\ p.stopAccel = k /\ p.startDecel = k + c /\ p.total = c + 2 * k
    BY DEF Ramped
  <2>2. (t + x) - t = x /\ c + 2 * k - x = rest /\ c + 2 * k = 2 * k + c
    OBVIOUS
  <2> HIDE DEF p, rest
  <2> QED
    BY <1>0, <2>1, <2>2 DEF Motion!ProfileAt, Motion!Coasted
<1>4. \A y \in Int : (MaxAccel * y * y) \div 2 = h * (y * y)
  <2> TAKE y \in Int
  <2>1. MaxAccel * y * y = 2 * (h * (y * y)) /\ h * (y * y) \in Int
    OBVIOUS
  <2> QED
    BY <2>1, DivMul
<1>5. c # 0 => ((2 * x - k) * MaxVel) \div 2 = h * k * (2 * x - k)
  <2> SUFFICES ASSUME c # 0 PROVE ((2 * x - k) * MaxVel) \div 2 = h * k * (2 * x - k)
    OBVIOUS
  <2>1. MaxVel = 2 * (h * k) /\ MaxVel \in Int
    BY <1>0
  <2>2. \A y \in Int : y * (2 * (h * k)) = 2 * (h * k * y) /\ h * k * y \in Int
    OBVIOUS
  <2>3. 2 * x - k \in Int
    OBVIOUS
  <2>4. (2 * x - k) * MaxVel = 2 * (h * k * (2 * x - k)) /\ h * k * (2 * x - k) \in Int
    BY <2>1, <2>2, <2>3
  <2> QED
    BY <2>4, DivMul
<1>6. e = s => k = 0 /\ c = 0
  <2>1. MaxAccel \in Nat \ {0}
    BY RampsAssumption
  <2>2. h > 0
    BY <2>1
  <2>3. k > 0 => dist > 0
    BY <2>2
  <2> QED
    BY <1>0, <1>1, <2>3
<1>7. dir \in {-1, 1} /\ rest \in Int /\ h * (x * x) \in Int /\ h * k * (2 * x - k) \in Int
      /\ h * (rest * rest) \in Int
  BY <1>0
<1> DEFINE commanded_at == Motion!ProfileAt(p, t + x)
           sign == Motion!Sign(e - s)
<1>8. commanded_at =
        IF x < 0 THEN s
        ELSE IF x < k THEN s + sign * (h * (x * x))
        ELSE IF x < k + c THEN s + sign * (h * k * (2 * x - k))
        ELSE IF x < 2 * k + c THEN e - sign * (h * (rest * rest))
        ELSE e
  <2>1. k <= x /\ x < k + c => c # 0
    OBVIOUS
  <2>2. /\ (MaxAccel * x * x) \div 2 = h * (x * x)
        /\ (MaxAccel * rest * rest) \div 2 = h * (rest * rest)
    BY <1>4, <1>7
  <2> HIDE DEF p, rest, sign
  <2> QED
    BY <2>1, <2>2, <1>3, <1>5 DEF sign
<1>9. Way(h, k, c, x) =
        IF x < 0 THEN 0
        ELSE IF x < k THEN h * (x * x)
        ELSE IF x < k + c THEN h * k * (2 * x - k)
        ELSE IF x < 2 * k + c THEN dist - h * (rest * rest)
        ELSE dist
  BY DEF Way
<1>10. commanded_at = s + dir * Way(h, k, c, x)
  <2> DEFINE ramp == h * (x * x)
             coast == h * k * (2 * x - k)
             slow == h * (rest * rest)
             way == Way(h, k, c, x)
  <2>1. ramp \in Int /\ coast \in Int /\ slow \in Int
    BY <1>7
  <2> HIDE DEF ramp, coast, slow
  <2>2. commanded_at =
          IF x < 0 THEN s
          ELSE IF x < k THEN s + sign * ramp
          ELSE IF x < k + c THEN s + sign * coast
          ELSE IF x < 2 * k + c THEN e - sign * slow
          ELSE e
    BY <1>8 DEF ramp, coast, slow
  <2>3. way = IF x < 0 THEN 0
              ELSE IF x < k THEN ramp
              ELSE IF x < k + c THEN coast
              ELSE IF x < 2 * k + c THEN dist - slow
              ELSE dist
    BY <1>9 DEF ramp, coast, slow
  <2> HIDE DEF way, commanded_at, sign, dist, dir
  <2>4. commanded_at = s + dir * way
    <3>1. CASE e = s
      BY <1>1, <1>6, <1>7, <2>1, <2>2, <2>3, <3>1
    <3>2. CASE e # s /\ dir = 1
      <4>1. sign = dir
        BY <1>2, <3>2 DEF sign
      <4> QED
        BY <1>1, <2>1, <2>2, <2>3, <3>2, <4>1
    <3>3. CASE e # s /\ dir = -1
      <4>1. sign = dir
        BY <1>2, <3>3 DEF sign
      <4> QED
        BY <1>1, <2>1, <2>2, <2>3, <3>3, <4>1
    <3> QED
      BY <1>7, <3>1, <3>2, <3>3
  <2> QED
    BY <2>4 DEF way
<1> QED
  BY <1>10

\* A profile is one that setTarget made, for a move of a length in Dists.
IsProfile(p) == \E t, s, e \in Int : Motion!Abs(e - s) \in Dists /\ p = Motion!ProfileFor(t, s, e)

LEMMA ProfileSmooth ==
  ASSUME profile = Motion!None \/ IsProfile(profile)
  PROVE  Motion!ProfileIsSmooth
<1> SUFFICES ASSUME profile # Motion!None PROVE Motion!ProfileIsSmooth
  BY DEF Motion!ProfileIsSmooth
<1>1. PICK t \in Int, s \in Int, e \in Int :
        Motion!Abs(e - s) \in Dists /\ profile = Motion!ProfileFor(t, s, e)
  BY DEF IsProfile
<1>2. PICK h \in Nat, k \in Nat, c \in Nat, m \in Nat :
           /\ MaxAccel = 2 * h /\ MaxVel = 2 * (h * m)
           /\ k <= m /\ (k = 0 => c = 0) /\ (c # 0 => k = m)
           /\ Motion!Abs(e - s) = 2 * h * k * (k + c)
           /\ Motion!ProfileFor(t, s, e) = Ramped(t, s, e, k, c)
  <2>1. Motion!Abs(e - s) \in Dists
    BY <1>1
  <2> QED
    BY <2>1, ProfileShape, Zenon
<1> DEFINE dir == Dir(s, e)
           PosAt(x) == Motion!ProfileAt(profile, t + x)
           Vel(x) == dir * (PosAt(x + 1) - PosAt(x))
<1>0. dir \in {-1, 1}
  BY DEF Dir
<1>3. \A x \in Int : PosAt(x) = s + dir * Way(h, k, c, x)
  <2> TAKE x \in Int
  <2>1. profile = Ramped(t, s, e, k, c)
    BY <1>1, <1>2, Zenon
  <2>2. /\ MaxAccel = 2 * h /\ (c # 0 => MaxVel = 2 * (h * k)) /\ (k = 0 => c = 0)
        /\ Motion!Abs(e - s) = 2 * h * k * (k + c)
    BY <1>2, Zenon
  <2>3. Motion!ProfileAt(Ramped(t, s, e, k, c), t + x) = s + dir * Way(h, k, c, x)
    BY <2>2, ProfileIsWay
  <2> QED
    BY <2>1, <2>3, Zenon
<1>4. \A x \in Int : Way(h, k, c, x) \in Int
  BY DEF Way
<1>5. \A x \in Int : Vel(x) = Speed(h, k, c, x)
  <2> TAKE x \in Int
  <2>1. Way(h, k, c, x + 1) - Way(h, k, c, x) = Speed(h, k, c, x)
    BY <1>2, WayStep
  <2>2. PosAt(x) = s + dir * Way(h, k, c, x) /\ PosAt(x + 1) = s + dir * Way(h, k, c, x + 1)
    BY <1>3
  <2>3. \A a, b \in Int : dir * ((s + dir * b) - (s + dir * a)) = b - a
    BY DEF Dir
  <2>4. Way(h, k, c, x) \in Int /\ Way(h, k, c, x + 1) \in Int
    BY <1>4
  <2>5. dir * ((s + dir * Way(h, k, c, x + 1)) - (s + dir * Way(h, k, c, x)))
          = Way(h, k, c, x + 1) - Way(h, k, c, x)
    BY <2>3, <2>4, Zenon
  <2> HIDE DEF PosAt, dir
  <2> QED
    BY <2>1, <2>2, <2>5, Zenon
<1>6. PosAt(0) = s /\ PosAt(c + 2 * k) = e
  <2>1. Way(h, k, c, 0) = 0 /\ Way(h, k, c, c + 2 * k) = Motion!Abs(e - s)
    BY <1>2 DEF Way
  <2>2. e = s + dir * Motion!Abs(e - s)
    BY DEF Motion!Abs, Dir
  <2>3. PosAt(0) = s + dir * Way(h, k, c, 0)
        /\ PosAt(c + 2 * k) = s + dir * Way(h, k, c, c + 2 * k)
    BY <1>3
  <2> HIDE DEF PosAt
  <2> QED
    BY <1>0, <2>1, <2>2, <2>3
<1>7. \A x \in Int : /\ Vel(x) \in 0..MaxVel
                     /\ Motion!Abs(Vel(x + 1) - Vel(x)) <= MaxAccel
  <2> TAKE x \in Int
  <2>1. /\ Speed(h, k, c, x) \in Int /\ Speed(h, k, c, x + 1) \in Int
        /\ 0 <= Speed(h, k, c, x) /\ Speed(h, k, c, x) <= 2 * (h * k)
        /\ -2 * h <= Speed(h, k, c, x + 1) - Speed(h, k, c, x)
        /\ Speed(h, k, c, x + 1) - Speed(h, k, c, x) <= 2 * h
    <3>1. (k = 0 => c = 0) /\ x + 1 \in Int
      BY <1>2
    <3>2. /\ Speed(h, k, c, x) \in Int /\ Speed(h, k, c, x + 1) \in Int
          /\ 0 <= Speed(h, k, c, x) /\ Speed(h, k, c, x) <= 2 * (h * k)
      BY <3>1, SpeedSmooth, Zenon
    <3>3. /\ -2 * h <= Speed(h, k, c, x + 1) - Speed(h, k, c, x)
          /\ Speed(h, k, c, x + 1) - Speed(h, k, c, x) <= 2 * h
      BY <3>1, SpeedSmooth, Zenon
    <3> QED
      BY <3>2, <3>3
  <2>2. Vel(x) = Speed(h, k, c, x) /\ Vel(x + 1) = Speed(h, k, c, x + 1)
    BY <1>5
  <2> HIDE DEF Vel
  <2>3. Motion!Abs(Vel(x + 1) - Vel(x)) <= MaxAccel
    BY <1>2, <2>1, <2>2 DEF Motion!Abs
  <2>4. 2 * (h * k) <= MaxVel
    BY <1>2
  <2> QED
    BY <1>2, <2>1, <2>2, <2>3, <2>4
<1>8. /\ profile.startTime = t /\ profile.startPos = s /\ profile.endPos = e
      /\ profile.total = c + 2 * k
  BY <1>1, <1>2 DEF Ramped
<1>9. (IF profile.endPos < profile.startPos THEN -1 ELSE 1) = dir
  BY <1>8 DEF Dir
<1>10. /\ PosAt(0) = profile.startPos /\ PosAt(profile.total) = profile.endPos
       /\ \A x \in 0..profile.total : Vel(x) \in 0..MaxVel
       /\ \A x \in -1..profile.total : Motion!Abs(Vel(x + 1) - Vel(x)) <= MaxAccel
  <2> HIDE DEF PosAt, Vel
  <2> QED
    BY <1>6, <1>7, <1>8
<1> HIDE DEF dir
<1> QED
  BY <1>8, <1>9, <1>10, Zenon DEF Motion!ProfileIsSmooth

\* What the velocity controller keeps: a target from the first command on, which has moved at
\* the velocity since.
FollowsVelocity ==
  \/ velState = Motion!None /\ base = Motion!None
  \/ /\ base = Motion!None
     /\ \E ts, v \in Int :
          velState = [timestamp |-> ts, targetVel |-> v, lastTarget |-> Motion!None]
  \/ \E ts, v, x, y, since \in Int :
       /\ velState = [timestamp |-> ts, targetVel |-> v, lastTarget |-> <<x>>]
       /\ base = <<y, since>> /\ x = y + v * (ts - since)
MotionInv ==
  /\ mNow \in Int /\ pos \in Int
  /\ profile = Motion!None \/ IsProfile(profile)
  /\ FollowsVelocity

LEMMA MotionInit == Motion!Init => MotionInv
  BY DEF Motion!Init, MotionInv, FollowsVelocity, Motion!None

\* A command is a whole number, and so is where the mechanism goes.
LEMMA CommandIsWhole ==
  ASSUME NEW p, IsProfile(p), NEW now \in Int PROVE Motion!ProfileAt(p, now) \in Int
<1>1. PICK t \in Int, s \in Int, e \in Int :
        Motion!Abs(e - s) \in Dists /\ p = Motion!ProfileFor(t, s, e)
  BY DEF IsProfile
<1>2. Motion!Abs(e - s) \in Dists
  BY <1>1
<1>3. PICK h \in Nat, k \in Nat, c \in Nat, m \in Nat :
           /\ MaxAccel = 2 * h /\ MaxVel = 2 * (h * m)
           /\ k <= m /\ (k = 0 => c = 0) /\ (c # 0 => k = m)
           /\ Motion!Abs(e - s) = 2 * h * k * (k + c)
           /\ Motion!ProfileFor(t, s, e) = Ramped(t, s, e, k, c)
  BY <1>2, ProfileShape, Zenon
<1>4. /\ MaxAccel = 2 * h /\ (c # 0 => MaxVel = 2 * (h * k)) /\ (k = 0 => c = 0)
      /\ Motion!Abs(e - s) = 2 * h * k * (k + c)
  BY <1>3, Zenon
<1> DEFINE x == now - t
<1>5. x \in Int /\ t + x = now
  OBVIOUS
<1> HIDE DEF x
<1>6. Motion!ProfileAt(Ramped(t, s, e, k, c), t + x) = s + Dir(s, e) * Way(h, k, c, x)
  BY <1>4, <1>5, ProfileIsWay
<1>7. Way(h, k, c, x) \in Int /\ Dir(s, e) \in Int
  BY <1>5 DEF Way, Dir
<1> QED
  BY <1>1, <1>3, <1>5, <1>6, <1>7

LEMMA MotionStep == MotionInv /\ [Motion!Next]_motionVars => MotionInv'
<1> SUFFICES ASSUME MotionInv, [Motion!Next]_motionVars PROVE MotionInv'
  OBVIOUS
<1> USE DEF MotionInv
<1>1. CASE UNCHANGED motionVars
  BY <1>1 DEF motionVars, FollowsVelocity
<1>2. CASE Motion!Tick
  BY <1>2 DEF Motion!Tick, FollowsVelocity
<1>3. CASE Motion!PosReset
  BY <1>3 DEF Motion!PosReset, FollowsVelocity
<1>4. CASE Motion!VelReset
  BY <1>4 DEF Motion!VelReset, FollowsVelocity
<1>5. CASE Motion!PosGetCommand
  <2>1. profile # Motion!None => Motion!ProfileAt(profile, mNow) \in Int
    BY CommandIsWhole
  <2>2. pos' \in Int
    BY <1>5, <2>1 DEF Motion!PosGetCommand, Motion!Command
  <2> QED
    BY <1>5, <2>2 DEF Motion!PosGetCommand, FollowsVelocity
<1>6. ASSUME NEW d \in Dists, NEW dir \in {-1, 1}, Motion!PosSetTarget(pos + dir * d)
      PROVE  MotionInv'
  <2>1. d \in Nat
    BY RampsAssumption
  <2> DEFINE target == pos + dir * d
  <2>2. target \in Int /\ Motion!Abs(target - pos) = d
    BY <2>1 DEF Motion!Abs
  <2>3. profile' = Motion!ProfileFor(mNow, pos, target)
    BY <1>6 DEF Motion!PosSetTarget
  <2> HIDE DEF target
  <2>4. IsProfile(profile)'
    BY <2>2, <2>3 DEF IsProfile
  <2> QED
    BY <1>6, <2>4 DEF Motion!PosSetTarget, FollowsVelocity
<1>7. ASSUME NEW v \in Vels, Motion!VelSetTarget(v) PROVE MotionInv'
  <2>1. v \in Int
    BY RampsAssumption
  <2>2. FollowsVelocity'
    BY <1>7, <2>1 DEF Motion!VelSetTarget, FollowsVelocity
  <2> QED
    BY <1>7, <2>2 DEF Motion!VelSetTarget
<1>8. CASE Motion!VelGetCommand
  <2>1. CASE velState = Motion!None
    BY <1>8, <2>1 DEF Motion!VelGetCommand, Motion!Command, FollowsVelocity
  <2>2. ASSUME NEW ts \in Int, NEW v \in Int, base = Motion!None,
               velState = [timestamp |-> ts, targetVel |-> v, lastTarget |-> Motion!None]
        PROVE  MotionInv'
    <3> DEFINE target == pos + (mNow - ts) * v
    <3>1. target \in Int
      OBVIOUS
    <3>2. velState # Motion!None /\ velState.lastTarget = Motion!None
          /\ velState.timestamp = ts /\ velState.targetVel = v
      BY <2>2 DEF Motion!None
    <3>3. /\ Motion!Command(pos + (target - pos)) /\ velState' = Motion!NewState(target)
          /\ base' = <<target, mNow>> /\ UNCHANGED <<mNow, profile>>
      BY <1>8, <2>2, <3>2 DEF Motion!VelGetCommand
    <3> HIDE DEF target
    <3>4. velState' = [timestamp |-> mNow, targetVel |-> v, lastTarget |-> <<target>>]
      BY <2>2, <3>3 DEF Motion!NewState
    <3>5. target = target + v * (mNow - mNow)
      BY <3>1
    <3>6. FollowsVelocity'
      BY <3>1, <3>3, <3>4, <3>5 DEF FollowsVelocity
    <3> QED
      BY <3>1, <3>3, <3>6 DEF Motion!Command
  <2>3. ASSUME NEW ts \in Int, NEW v \in Int, NEW x \in Int, NEW y \in Int, NEW since \in Int,
               velState = [timestamp |-> ts, targetVel |-> v, lastTarget |-> <<x>>],
               base = <<y, since>>, x = y + v * (ts - since)
        PROVE  MotionInv'
    <3> DEFINE target == x + (mNow - ts) * v
    <3>1. target \in Int
      OBVIOUS
    <3>2. /\ velState # Motion!None /\ velState.lastTarget = <<x>> /\ <<x>>[1] = x
          /\ velState.timestamp = ts /\ velState.targetVel = v
          /\ <<x>> # Motion!None /\ base # Motion!None
      BY <2>3 DEF Motion!None
    <3>3. /\ Motion!Command(pos + (target - pos)) /\ velState' = Motion!NewState(target)
          /\ base' = base /\ UNCHANGED <<mNow, profile>>
      BY <1>8, <3>2 DEF Motion!VelGetCommand
    <3>4. target = y + v * (mNow - since)
      BY <2>3
    <3> HIDE DEF target
    <3>5. velState' = [timestamp |-> mNow, targetVel |-> v, lastTarget |-> <<target>>]
      BY <2>3, <3>3 DEF Motion!NewState
    <3>6. FollowsVelocity'
      <4>1. mNow \in Int /\ base' = <<y, since>>
        BY <2>3, <3>3
      <4>2. \E t1, v1, x1, y1, s1 \in Int :
              /\ velState' = [timestamp |-> t1, targetVel |-> v1, lastTarget |-> <<x1>>]
              /\ base' = <<y1, s1>> /\ x1 = y1 + v1 * (t1 - s1)
        <5> USE <3>1, <4>1
        <5> WITNESS mNow \in Int, v \in Int, target \in Int, y \in Int, since \in Int
        <5> QED
          BY <3>4, <3>5
      <4> QED
        BY <4>2, Zenon DEF FollowsVelocity
    <3> QED
      BY <3>1, <3>3, <3>6 DEF Motion!Command
  <2> QED
    BY <2>1, <2>2, <2>3 DEF FollowsVelocity
<1> QED
  BY <1>1, <1>2, <1>3, <1>4, <1>5, <1>6, <1>7, <1>8 DEF Motion!Next

LEMMA MotionHolds == MotionInv => Motion!ProfileIsSmooth /\ Motion!TargetFollowsVelocity
<1> SUFFICES ASSUME MotionInv PROVE Motion!TargetFollowsVelocity
  BY ProfileSmooth DEF MotionInv
<1> QED
  BY DEF MotionInv, FollowsVelocity, Motion!TargetFollowsVelocity

(***************************************************************************)
(* Odometry.                                                               *)
(***************************************************************************)
\* Natural numbers are well ordered, as the library states it of relations.
LEMMA LeastExists ==
  ASSUME NEW T \in SUBSET Nat, T # {}
  PROVE  \E n \in T : \A q \in T : n <= q
<1> DEFINE R == {p \in Nat \X Nat : p[1] < p[2]}
<1>1. IsWellFoundedOn(R, Nat)
  BY NatLessThanWellFounded DEF OpToRel
<1>2. PICK n \in T : \A q \in T : <<q, n>> \notin R
  BY <1>1, WFMin
<1>3. \A q \in T : ~(q < n)
  BY <1>2
<1> QED
  BY <1>3

\* The root of a whole number, rounded down, exists: one less than the least number whose
\* square is greater.
LEMMA SqrtIsRoot ==
  ASSUME NEW v \in Nat
  PROVE  LET r == Odom!Sqrt(v) IN r \in Nat /\ r * r <= v /\ v < (r + 1) * (r + 1)
<1> DEFINE Above == {n \in Nat : v < n * n}
<1>1. v + 1 \in Above
  <2>1. v < (v + 1) * (v + 1)
    OBVIOUS
  <2> QED
    BY <2>1
<1>2. PICK n \in Above : \A q \in Above : n <= q
  <2>1. Above \in SUBSET Nat /\ Above # {}
    BY <1>1
  <2> HIDE DEF Above
  <2> QED
    BY <2>1, LeastExists
<1>3. n \in Nat /\ v < n * n /\ n > 0
  BY <1>2
<1>4. n - 1 \in Nat /\ (n - 1) * (n - 1) <= v
  <2>1. n - 1 \in Nat /\ n - 1 \notin Above
    BY <1>2, <1>3
  <2> QED
    BY <2>1
<1>5. n - 1 \in 0..v
  <2>1. \A q \in Nat : q <= q * q
    OBVIOUS
  <2>2. n - 1 <= (n - 1) * (n - 1)
    BY <1>4, <2>1
  <2>3. (n - 1) * (n - 1) \in Int
    BY <1>4
  <2> QED
    BY <1>3, <1>4, <2>2, <2>3
<1>6. \E r \in 0..v : r * r <= v /\ v < (r + 1) * (r + 1)
  <2>1. (n - 1) + 1 = n
    BY <1>3
  <2>2. v < ((n - 1) + 1) * ((n - 1) + 1)
    BY <1>3, <2>1
  <2> QED
    BY <1>4, <1>5, <2>2
<1>7. Odom!Sqrt(v) \in 0..v /\ Odom!Sqrt(v) * Odom!Sqrt(v) <= v
      /\ v < (Odom!Sqrt(v) + 1) * (Odom!Sqrt(v) + 1)
  BY <1>6, Zenon DEF Odom!Sqrt
<1> QED
  BY <1>7

\* The share of b that a of n is.
LEMMA ShareIsBounded ==
  ASSUME NEW b \in Nat, NEW a \in Int, NEW n \in Nat \ {0}, -n <= a, a <= n
  PROVE  (b * a) \div n \in -b..b
<1>1. -(b * n) <= b * a /\ b * a <= b * n /\ b * a \in Int
  OBVIOUS
<1> DEFINE q == (b * a) \div n
<1>2. q \in Int /\ n * q <= b * a /\ b * a < n * q + n
  BY <1>1
<1> HIDE DEF q
<1>3. q <= b
  <2> SUFFICES ASSUME q > b PROVE FALSE
    BY <1>2
  <2>1. n * q >= n * (b + 1)
    BY <1>2
  <2> QED
    BY <1>1, <1>2, <2>1
<1>4. q >= -b
  <2> SUFFICES ASSUME q < -b PROVE FALSE
    BY <1>2
  <2>1. n * q <= n * (-b - 1)
    BY <1>2
  <2> QED
    BY <1>1, <1>2, <2>1
<1> QED
  BY <1>2, <1>3, <1>4 DEF q

Reach == MaxWheelVel + MaxTurnVel
LEMMA WheelVelIsBounded ==
  ASSUME NEW stick \in Sticks
  PROVE  /\ Odom!WheelVel(stick) \in [l : Int, r : Int]
         /\ Odom!WheelVel(stick).l \in -Reach..Reach
         /\ Odom!WheelVel(stick).r \in -Reach..Reach
         /\ \E h \in Int : Odom!WheelVel(stick).r - Odom!WheelVel(stick).l = 2 * h
<1>1. PICK x \in Int, y \in Int : stick = <<x, y>>
  BY OdometryAssumption
<1>2. Unit \in Nat /\ Unit > 0 /\ MaxWheelVel \in Nat /\ MaxTurnVel \in Nat
  BY OdometryAssumption
<1> DEFINE norm == Odom!Sqrt(x * x + y * y)
           scale == Odom!Larger(Unit, norm)
           dx == (MaxWheelVel * x) \div scale
           turn == -(MaxTurnVel * y) \div scale
<1>3. /\ norm \in Nat /\ x * x + y * y < (norm + 1) * (norm + 1)
  <2>1. x * x + y * y \in Nat
    <3>1. \A q \in Int : q * q \in Nat
      OBVIOUS
    <3> QED
      BY <3>1
  <2> QED
    BY <2>1, SqrtIsRoot
<1> HIDE DEF norm
<1>4. scale \in Nat \ {0} /\ norm <= scale
  BY <1>2, <1>3 DEF Odom!Larger
<1>5. \A q \in {x, y} : -norm <= q /\ q <= norm
  <2> SUFFICES ASSUME NEW q \in {x, y}, q < -norm \/ norm < q PROVE FALSE
    BY <1>3
  <2>1. q * q >= (norm + 1) * (norm + 1)
    BY <1>3
  <2>2. \A i \in Int : i * i >= 0
    OBVIOUS
  <2> QED
    BY <1>3, <2>1, <2>2
<1> HIDE DEF scale
<1>6. dx \in -MaxWheelVel..MaxWheelVel
  <2>1. -scale <= x /\ x <= scale
    BY <1>3, <1>4, <1>5
  <2> QED
    BY <1>2, <1>4, <2>1, ShareIsBounded
<1>7. turn \in -MaxTurnVel..MaxTurnVel
  <2>1. -scale <= y /\ y <= scale
    BY <1>3, <1>4, <1>5
  <2>2. (MaxTurnVel * y) \div scale \in -MaxTurnVel..MaxTurnVel
    BY <1>2, <1>4, <2>1, ShareIsBounded
  <2> QED
    BY <1>2, <2>2
<1>8. Odom!WheelVel(stick) = [l |-> dx - turn, r |-> dx + turn]
  BY <1>1 DEF Odom!WheelVel, scale, norm
<1> HIDE DEF dx, turn
<1>9. turn \in Int /\ (dx + turn) - (dx - turn) = 2 * turn
  BY <1>2, <1>6, <1>7
<1>10. \E h \in Int : Odom!WheelVel(stick).r - Odom!WheelVel(stick).l = 2 * h
  BY <1>8, <1>9
<1> QED
  BY <1>2, <1>6, <1>7, <1>8, <1>10 DEF Reach

\* What is read lags behind what was driven by less than a millisecond of motion a reading.
Lags(a, b, n) == Odom!Abs(a - b) <= n * (Millisecond - 1) * 2 * Reach
\* A transform and the pose of the rover after a way of x on a line, and after n quarter turns
\* on a circle.
OnLine(trf, p, x) ==
  /\ trf = [turn |-> 0, shift |-> <<-x, 0>>]
  /\ p = [at |-> <<x, 0>>, turn |-> 0]
OnCircle(trf, p, radius, n) ==
  /\ trf = [turn |-> n, shift |-> <<-(radius * Odom!Sin(n)), radius * (1 - Odom!Cos(n))>>]
  /\ p = [at |-> <<radius * Odom!Sin(n), radius * (1 - Odom!Cos(n))>>, turn |-> n]
Plane == Int \X Int
Updates == [at : Plane, turn : Int]
Transforms == [turn : Int, shift : Plane]
DrivenInv ==
  /\ driven.time \in Int /\ driven.time <= oNow /\ driven.way \in Int /\ driven.turn \in Int
  /\ driven.pose \in Updates
  /\ \A p \in driven.paths : p = Odom!Straight \/ \E i \in Int : p = <<i>>
  /\ lastOdom = Odom!None =>
       /\ commandedWheelVel = Odom!Zero /\ driven.way = 0 /\ driven.turn = 0
       /\ driven.pose = Odom!Origin /\ driven.paths = {}
  /\ lastOdom # Odom!None =>
       /\ lastOdom.time = driven.time /\ lastOdom.data \in Transforms
       /\ Lags(2 * Millisecond * lastOdom.data.turn, driven.turn, reads)
       /\ driven.paths \subseteq {Odom!Straight} =>
            \E x \in Int : OnLine(lastOdom.data, driven.pose, x) /\ Lags(x, driven.way, reads)
       /\ \A radius \in Int : driven.paths \subseteq {<<radius>>} =>
            \E n \in Int : OnCircle(lastOdom.data, driven.pose, radius, n)
OdomInv ==
  /\ oNow \in Int /\ reads \in Nat /\ DrivenInv
  /\ commandedWheelVel \in [l : -Reach..Reach, r : -Reach..Reach]
  /\ \E h \in Int : commandedWheelVel.r - commandedWheelVel.l = 2 * h
  /\ power = [l |-> commandedWheelVel.l, r |-> commandedWheelVel.r, unit |-> power.unit]
  /\ power.unit \in Int
  /\ Odom!Abs(commandedWheelVel.l) <= power.unit /\ Odom!Abs(commandedWheelVel.r) <= power.unit

LEMMA OdomInit == Odom!Init => OdomInv
<1> SUFFICES ASSUME Odom!Init PROVE OdomInv
  OBVIOUS
<1>1. Reach \in Nat
  BY OdometryAssumption DEF Reach
<1>2. commandedWheelVel.r - commandedWheelVel.l = 2 * 0
  BY DEF Odom!Init, Odom!Zero
<1> QED
  BY <1>1, <1>2 DEF Odom!Init, OdomInv, DrivenInv, Odom!Zero, Odom!Origin, Odom!Abs, Odom!None,
                    Plane, Updates

\* Quarter turns.
LEMMA SinCosAre ==
  ASSUME NEW n \in Int
  PROVE  /\ Odom!Sin(n) \in {-1, 0, 1} /\ Odom!Cos(n) \in {-1, 0, 1}
         /\ Odom!Sin(n) * Odom!Sin(n) + Odom!Cos(n) * Odom!Cos(n) = 1
         /\ -n \in Int /\ Odom!Sin(-n) = -Odom!Sin(n) /\ Odom!Cos(-n) = Odom!Cos(n)
<1>1. n % 4 \in 0..3 /\ n % 2 = (n % 4) % 2
  OBVIOUS
<1>2. /\ n % 4 = 0 => (-n) % 4 = 0 /\ (-n) % 2 = 0
      /\ n % 4 = 1 => (-n) % 4 = 3 /\ (-n) % 2 = 1
      /\ n % 4 = 2 => (-n) % 4 = 2 /\ (-n) % 2 = 0
      /\ n % 4 = 3 => (-n) % 4 = 1 /\ (-n) % 2 = 1
  OBVIOUS
<1>3. n % 4 \in {0, 1, 2, 3}
  BY <1>1
<1> QED
  BY <1>1, <1>2, <1>3 DEF Odom!Sin, Odom!Cos

LEMMA SinCosAdd ==
  ASSUME NEW n \in Int, NEW k \in Int
  PROVE  /\ Odom!Sin(n + k) = Odom!Sin(n) * Odom!Cos(k) + Odom!Cos(n) * Odom!Sin(k)
         /\ Odom!Cos(n + k) = Odom!Cos(n) * Odom!Cos(k) - Odom!Sin(n) * Odom!Sin(k)
<1>1. /\ n % 4 \in {0, 1, 2, 3} /\ k % 4 \in {0, 1, 2, 3}
      /\ n % 2 = (n % 4) % 2 /\ k % 2 = (k % 4) % 2
      /\ (n + k) % 4 = ((n % 4) + (k % 4)) % 4 /\ (n + k) % 2 = ((n % 4) + (k % 4)) % 2
  OBVIOUS
<1> QED
  BY <1>1 DEF Odom!Sin, Odom!Cos

\* One reading: the remainder of a millisecond at a speed of at most twice Reach.
LEMMA RestIsBounded ==
  ASSUME NEW v \in -(2 * Reach)..(2 * Reach), NEW dt \in Nat
  PROVE  /\ dt % Millisecond \in Nat
         /\ v * (dt % Millisecond) \in Int
         /\ Odom!Abs(v * (dt % Millisecond)) <= (Millisecond - 1) * 2 * Reach
<1>1. Reach \in Nat /\ Millisecond \in Nat /\ Millisecond > 0
  BY OdometryAssumption DEF Reach
<1> DEFINE rest == dt % Millisecond
           most == Millisecond - 1
<1>2. rest \in Nat /\ most \in Nat /\ rest <= most
  BY <1>1
<1> HIDE DEF rest, most
<1>3. \A a, b, c, d \in Nat : a <= c /\ b <= d => a * b <= c * d
  <2> TAKE a, b, c, d \in Nat
  <2> HAVE a <= c /\ b <= d
  <2>1. a * b <= c * b
    OBVIOUS
  <2>2. c * b <= c * d
    OBVIOUS
  <2> QED
    BY <2>1, <2>2
<1>4. CASE v >= 0
  <2>1. v \in Nat /\ v <= 2 * Reach /\ 2 * Reach \in Nat
    BY <1>1, <1>4
  <2>2. v * rest <= (2 * Reach) * most /\ v * rest \in Nat
    BY <1>2, <1>3, <2>1
  <2>3. (2 * Reach) * most = most * 2 * Reach
    BY <1>1, <1>2
  <2> QED
    BY <1>2, <2>2, <2>3 DEF rest, most, Odom!Abs
<1>5. CASE v < 0
  <2>1. -v \in Nat /\ -v <= 2 * Reach /\ 2 * Reach \in Nat
    BY <1>1, <1>5
  <2>2. (-v) * rest <= (2 * Reach) * most /\ (-v) * rest \in Nat
    BY <1>2, <1>3, <2>1
  <2>3. (2 * Reach) * most = most * 2 * Reach /\ (-v) * rest = -(v * rest) /\ v * rest \in Int
    BY <1>1, <1>2
  <2> QED
    BY <1>2, <2>2, <2>3 DEF rest, most, Odom!Abs
<1> QED
  BY <1>4, <1>5

\* What a sum grows by in a reading, and what is lost of it.
LEMMA MovedLags ==
  ASSUME NEW a \in Int, NEW b \in Int, NEW v \in -(2 * Reach)..(2 * Reach), NEW dt \in Nat,
         NEW n \in Nat, Odom!Abs(a - b) <= n * (Millisecond - 1) * 2 * Reach
  PROVE  /\ a + v * (dt - (dt % Millisecond)) \in Int /\ b + v * dt \in Int
         /\ Odom!Abs((a + v * (dt - (dt % Millisecond))) - (b + v * dt))
              <= (n + 1) * (Millisecond - 1) * 2 * Reach
<1>1. Reach \in Nat /\ Millisecond \in Nat /\ Millisecond > 0
  BY OdometryAssumption DEF Reach
<1>2. v \in Int
  BY <1>1
<1> DEFINE rest == dt % Millisecond
<1>3. rest \in Nat /\ v * rest \in Int /\ Odom!Abs(v * rest) <= (Millisecond - 1) * 2 * Reach
  BY RestIsBounded
<1> HIDE DEF rest
<1>4. v * (dt - rest) = v * dt - v * rest /\ v * dt \in Int
  BY <1>2, <1>3
<1> DEFINE once == (Millisecond - 1) * 2 * Reach
           before == n * (Millisecond - 1) * 2 * Reach
           after == (n + 1) * (Millisecond - 1) * 2 * Reach
<1>5. after = before + once /\ after \in Int /\ before \in Int /\ once \in Int
  BY <1>1
<1> DEFINE x == v * dt
           y == v * rest
           z == v * (dt - rest)
<1>6. /\ x \in Int /\ y \in Int /\ z = x - y
      /\ Odom!Abs(a - b) <= before /\ Odom!Abs(y) <= once
  BY <1>3, <1>4
<1> SUFFICES a + z \in Int /\ b + x \in Int /\ Odom!Abs((a + z) - (b + x)) <= after
  BY DEF rest
<1> HIDE DEF once, before, after, x, y, z
<1> QED
  BY <1>5, <1>6 DEF Odom!Abs

\* A millisecond is counted when it is whole.
LEMMA WholeIs ==
  ASSUME NEW dt \in Nat
  PROVE  Odom!Whole(dt) \in Nat /\ Millisecond * Odom!Whole(dt) = dt - (dt % Millisecond)
<1>1. Millisecond \in Nat /\ Millisecond > 0
  BY OdometryAssumption
<1> QED
  BY <1>1 DEF Odom!Whole

\* What the wheels move the rover by, with half the difference of their velocities.
LEMMA UpdateIs ==
  ASSUME NEW vel, vel.l \in Int, vel.r \in Int, NEW h \in Int, vel.r - vel.l = 2 * h,
         NEW dt \in Nat
  PROVE  LET u == Odom!GetLocalPoseUpdate(vel, dt)
             n == h * Odom!Whole(dt)
             radius == Odom!TurnRadius(vel)
         IN /\ n \in Int
            /\ vel.l = vel.r =>
                 u = [at |-> <<(vel.l + vel.r) * (dt - (dt % Millisecond)), 0>>, turn |-> 0]
            /\ vel.l # vel.r =>
                 /\ radius \in Int
                 /\ u = [at |-> <<radius * Odom!Sin(n), radius * (1 - Odom!Cos(n))>>,
                         turn |-> n]
<1> DEFINE w == Odom!Whole(dt)
<1>1. w \in Nat /\ Millisecond * w = dt - (dt % Millisecond)
  BY WholeIs
<1> HIDE DEF w
<1>2. (vel.r - vel.l) \div 2 = h /\ h * w \in Int
  BY <1>1
<1>3. CASE vel.l = vel.r
  <2>1. h = 0 /\ h * w = 0
    BY <1>1, <1>3
  <2> QED
    BY <1>1, <1>2, <1>3, <2>1 DEF Odom!GetLocalPoseUpdate, w
<1>4. CASE vel.l # vel.r
  <2>1. PICK ahead \in Int, turn \in Int :
          ahead = OdomBase * (vel.l + vel.r) /\ turn = vel.r - vel.l /\ turn # 0
    <3>1. OdomBase \in Nat
      BY OdometryAssumption
    <3>2. OdomBase * (vel.l + vel.r) \in Int /\ vel.r - vel.l \in Int /\ vel.r - vel.l # 0
      BY <1>4, <3>1
    <3> QED
      BY <3>2
  <2>2. (turn > 0 => ahead \div turn \in Int)
        /\ (~(turn > 0) => (-ahead) \div (-turn) \in Int)
    BY <2>1
  <2>3. Odom!TurnRadius(vel) \in Int
    BY <2>1, <2>2 DEF Odom!TurnRadius
  <2> QED
    BY <1>2, <1>4, <2>3 DEF Odom!GetLocalPoseUpdate, w
<1> QED
  BY <1>3, <1>4 DEF w

LEMMA MinusZero == -0 = 0
<1>1. \A i \in Int : -i = 0 - i
  OBVIOUS
<1>2. 0 \in Int /\ 0 - 0 = 0
  OBVIOUS
<1>3. -0 = 0 - 0
  BY <1>1, <1>2, Zenon
<1> QED
  BY <1>2, <1>3, Zenon

\* How readOdom and getNextPose apply an update.
Applied(trf, u) == Odom!Product(trf, Odom!ToTransform(u))
Next2(p, u) == [at |-> Odom!Sum(p.at, Odom!Rotated(p.turn, u.at)), turn |-> p.turn + u.turn]

LEMMA UpdateIsTyped ==
  ASSUME NEW trf \in Transforms, NEW p \in Updates, NEW u \in Updates
  PROVE  /\ Applied(trf, u) \in Transforms /\ Next2(p, u) \in Updates
         /\ Applied(trf, u).turn = trf.turn + u.turn
<1> DEFINE t == Odom!ToTransform(u)
<1>1. \A n \in Int : Odom!Sin(n) \in Int /\ Odom!Cos(n) \in Int
  BY SinCosAre
<1>2. \A n \in Int, q \in Plane : Odom!Rotated(n, q) \in Plane
  <2> TAKE n \in Int, q \in Plane
  <2>1. PICK s \in Int, c \in Int : s = Odom!Sin(n) /\ c = Odom!Cos(n)
    BY <1>1
  <2>2. c * q[1] - s * q[2] \in Int /\ s * q[1] + c * q[2] \in Int
    BY DEF Plane
  <2> QED
    BY <2>1, <2>2 DEF Odom!Rotated, Plane
<1>3. \A q, o \in Plane : Odom!Sum(q, o) \in Plane /\ Odom!Negative(q) \in Plane
  BY DEF Odom!Sum, Odom!Negative, Plane
<1>4. -u.turn \in Int /\ u.at \in Plane /\ <<0, 0>> \in Plane /\ u.turn + 0 = u.turn
  BY DEF Updates, Plane
<1>5. t \in Transforms /\ t.turn = u.turn
  <2>1. t = [turn |-> u.turn + 0,
             shift |-> Odom!Sum(Odom!Rotated(-u.turn, Odom!Negative(u.at)),
                                Odom!Negative(<<0, 0>>))]
    BY DEF Odom!ToTransform, Odom!Product, Odom!ToTransformRotateFirst
  <2>2. t.shift \in Plane
    <3>1. Odom!Rotated(-u.turn, Odom!Negative(u.at)) \in Plane /\ Odom!Negative(<<0, 0>>) \in Plane
      BY <1>2, <1>3, <1>4
    <3>2. Odom!Sum(Odom!Rotated(-u.turn, Odom!Negative(u.at)), Odom!Negative(<<0, 0>>)) \in Plane
      BY <1>3, <3>1
    <3> QED
      BY <2>1, <3>2
  <2> QED
    BY <1>4, <2>1, <2>2 DEF Transforms, Updates
<1> HIDE DEF t
<1>6. -trf.turn \in Int /\ trf.turn + t.turn \in Int /\ p.turn + u.turn \in Int
  BY <1>5 DEF Transforms, Updates
<1>7. Odom!Sum(Odom!Rotated(-trf.turn, t.shift), trf.shift) \in Plane
  BY <1>2, <1>3, <1>5, <1>6 DEF Transforms
<1>8. Odom!Sum(p.at, Odom!Rotated(p.turn, u.at)) \in Plane
  BY <1>2, <1>3 DEF Updates
<1> QED
  BY <1>5, <1>6, <1>7, <1>8 DEF Applied, Next2, Odom!Product, Transforms, Updates, t

\* Without a move, transform and pose stay.
LEMMA OriginStays ==
  ASSUME NEW trf \in Transforms, NEW p \in Updates
  PROVE  Applied(trf, Odom!Origin) = trf /\ Next2(p, Odom!Origin) = p
<1>1. \A n \in Int : Odom!Sin(n) * 0 = 0 /\ Odom!Cos(n) * 0 = 0
  BY SinCosAre
<1>2. \A n \in Int : Odom!Rotated(n, <<0, 0>>) = <<0, 0>>
  BY <1>1 DEF Odom!Rotated
<1>3. Odom!ToTransform(Odom!Origin) = [turn |-> 0, shift |-> <<0, 0>>]
  BY <1>2 DEF Odom!ToTransform, Odom!Product, Odom!ToTransformRotateFirst, Odom!Origin,
              Odom!Negative, Odom!Sum
<1>4. \A q \in Plane : Odom!Sum(<<0, 0>>, q) = q /\ Odom!Sum(q, <<0, 0>>) = q
  BY DEF Odom!Sum, Plane
<1>5. trf = [turn |-> trf.turn, shift |-> trf.shift] /\ trf.turn \in Int /\ trf.shift \in Plane
      /\ p = [at |-> p.at, turn |-> p.turn] /\ p.turn \in Int /\ p.at \in Plane
      /\ -trf.turn \in Int /\ trf.turn + 0 = trf.turn /\ p.turn + 0 = p.turn
  BY DEF Transforms, Updates
<1>6. Applied(trf, Odom!Origin) = trf
  BY <1>2, <1>3, <1>4, <1>5 DEF Applied, Odom!Product
<1>7. Next2(p, Odom!Origin) = p
  BY <1>2, <1>4, <1>5 DEF Next2, Odom!Origin
<1> QED
  BY <1>6, <1>7

LEMMA LineGoesOn ==
  ASSUME NEW trf, NEW p, NEW x \in Int, OnLine(trf, p, x), NEW y \in Int,
         NEW u, u = [at |-> <<y, 0>>, turn |-> 0]
  PROVE  OnLine(Applied(trf, u), Next2(p, u), x + y)
<1>1. Odom!Sin(0) = 0 /\ Odom!Cos(0) = 1 /\ -0 = 0
  <2>1. 0 % 2 = 0 /\ 0 % 4 = 0
    OBVIOUS
  <2> QED
    BY <2>1, MinusZero DEF Odom!Sin, Odom!Cos
<1>2. Odom!ToTransform(u) = [turn |-> 0, shift |-> <<-y, 0>>]
  BY <1>1 DEF Odom!ToTransform, Odom!Product, Odom!ToTransformRotateFirst, Odom!Negative,
              Odom!Sum, Odom!Rotated
<1>3. Applied(trf, u) = [turn |-> 0, shift |-> <<-(x + y), 0>>]
  BY <1>1, <1>2 DEF OnLine, Applied, Odom!Product, Odom!Sum, Odom!Rotated
<1>4. Next2(p, u) = [at |-> <<x + y, 0>>, turn |-> 0]
  BY <1>1 DEF OnLine, Next2, Odom!Sum, Odom!Rotated
<1> QED
  BY <1>3, <1>4 DEF OnLine

\* Two moves on a circle make one, on either side.
LEMMA CircleGoesOn ==
  ASSUME NEW trf, NEW p, NEW radius \in Int, NEW n \in Int, OnCircle(trf, p, radius, n),
         NEW k \in Int, NEW u,
         u = [at |-> <<radius * Odom!Sin(k), radius * (1 - Odom!Cos(k))>>, turn |-> k]
  PROVE  OnCircle(Applied(trf, u), Next2(p, u), radius, n + k)
<1>1. PICK s \in Int, c \in Int, t \in Int, d \in Int :
        /\ s = Odom!Sin(n) /\ c = Odom!Cos(n) /\ t = Odom!Sin(k) /\ d = Odom!Cos(k)
        /\ t * t + d * d = 1
        /\ Odom!Sin(-n) = -s /\ Odom!Cos(-n) = c /\ Odom!Sin(-k) = -t /\ Odom!Cos(-k) = d
        /\ Odom!Sin(n + k) = s * d + c * t /\ Odom!Cos(n + k) = c * d - s * t
  <2>1. /\ Odom!Sin(n) \in Int /\ Odom!Cos(n) \in Int
        /\ Odom!Sin(-n) = -Odom!Sin(n) /\ Odom!Cos(-n) = Odom!Cos(n)
    BY SinCosAre
  <2>2. /\ Odom!Sin(k) \in Int /\ Odom!Cos(k) \in Int
        /\ Odom!Sin(k) * Odom!Sin(k) + Odom!Cos(k) * Odom!Cos(k) = 1
        /\ Odom!Sin(-k) = -Odom!Sin(k) /\ Odom!Cos(-k) = Odom!Cos(k)
    BY SinCosAre
  <2>3. /\ Odom!Sin(n + k) = Odom!Sin(n) * Odom!Cos(k) + Odom!Cos(n) * Odom!Sin(k)
        /\ Odom!Cos(n + k) = Odom!Cos(n) * Odom!Cos(k) - Odom!Sin(n) * Odom!Sin(k)
    BY SinCosAdd
  <2> USE <2>1, <2>2
  <2> WITNESS Odom!Sin(n) \in Int, Odom!Cos(n) \in Int, Odom!Sin(k) \in Int,
              Odom!Cos(k) \in Int
  <2> QED
    BY <2>1, <2>2, <2>3
<1>2. PICK a \in Int, b \in Int : a = radius * t /\ b = radius * (1 - d)
  OBVIOUS
<1>3. u = [at |-> <<a, b>>, turn |-> k]
  BY <1>1, <1>2
<1>4. Odom!ToTransform(u) = [turn |-> k, shift |-> <<-a, b>>]
  <2>1. Odom!ToTransform(u) =
          [turn |-> k + 0,
           shift |-> <<(d * (-a) - (-t) * (-b)) + (-0), ((-t) * (-a) + d * (-b)) + (-0)>>]
    <3>1. Odom!Rotated(-k, <<-a, -b>>) = <<d * (-a) - (-t) * (-b), (-t) * (-a) + d * (-b)>>
      BY <1>1 DEF Odom!Rotated
    <3>2. Odom!ToTransform(u) =
            [turn |-> k + 0,
             shift |-> Odom!Sum(Odom!Rotated(-k, <<-a, -b>>), <<-0, -0>>)]
      BY <1>3 DEF Odom!ToTransform, Odom!Product, Odom!ToTransformRotateFirst, Odom!Negative
    <3> QED
      BY <3>1, <3>2 DEF Odom!Sum
  <2>2. d * (-a) - (-t) * (-b) = -a
    <3>1. d * (-a) - (-t) * (-b) = -(radius * (d * t + t * (1 - d)))
      BY <1>2
    <3>2. d * t + t * (1 - d) = t
      OBVIOUS
    <3> QED
      BY <1>2, <3>1, <3>2
  <2>3. (-t) * (-a) + d * (-b) = b
    <3>1. (-t) * (-a) + d * (-b) = radius * ((t * t + d * d) - d)
      BY <1>2
    <3> QED
      BY <1>1, <1>2, <3>1
  <2>4. k + 0 = k /\ -a + (-0) = -a /\ b + (-0) = b
    BY MinusZero
  <2> QED
    BY <2>1, <2>2, <2>3, <2>4
<1>5. PICK v \in Int, w \in Int : v = radius * s /\ w = radius * (1 - c)
  OBVIOUS
<1>6. trf = [turn |-> n, shift |-> <<-v, w>>] /\ p = [at |-> <<v, w>>, turn |-> n]
  BY <1>1, <1>5 DEF OnCircle
<1> DEFINE x == radius * (s * d + c * t)
           y == radius * (1 - (c * d - s * t))
<1>7. Applied(trf, u) = [turn |-> n + k, shift |-> <<-x, y>>]
  <2>1. Applied(trf, u) =
          [turn |-> n + k,
           shift |-> <<(c * (-a) - (-s) * b) + (-v), ((-s) * (-a) + c * b) + w>>]
    BY <1>1, <1>4, <1>6 DEF Applied, Odom!Product, Odom!Sum, Odom!Rotated
  <2>2. (c * (-a) - (-s) * b) + (-v) = -x
    BY <1>2, <1>5
  <2>3. ((-s) * (-a) + c * b) + w = y
    BY <1>2, <1>5
  <2> QED
    BY <2>1, <2>2, <2>3
<1>8. Next2(p, u) = [at |-> <<x, y>>, turn |-> n + k]
  <2>1. Next2(p, u) =
          [at |-> <<v + (c * a - s * b), w + (s * a + c * b)>>, turn |-> n + k]
    <3>1. Odom!Rotated(n, <<a, b>>) = <<c * a - s * b, s * a + c * b>>
      BY <1>1 DEF Odom!Rotated
    <3>2. Next2(p, u) = [at |-> Odom!Sum(<<v, w>>, Odom!Rotated(n, <<a, b>>)), turn |-> n + k]
      BY <1>3, <1>6 DEF Next2
    <3> QED
      BY <3>1, <3>2 DEF Odom!Sum
  <2>2. v + (c * a - s * b) = x
    BY <1>2, <1>5
  <2>3. w + (s * a + c * b) = y
    BY <1>2, <1>5
  <2> QED
    BY <2>1, <2>2, <2>3
<1> QED
  BY <1>1, <1>7, <1>8 DEF OnCircle

LEMMA OriginIs ==
  /\ Odom!ToTransform(Odom!Origin) = [turn |-> 0, shift |-> <<0, 0>>]
  /\ OnLine(Odom!ToTransform(Odom!Origin), Odom!Origin, 0)
  /\ \A radius \in Int : OnCircle(Odom!ToTransform(Odom!Origin), Odom!Origin, radius, 0)
<1>1. Odom!Sin(0) = 0 /\ Odom!Cos(0) = 1 /\ -0 = 0
  <2>1. 0 % 2 = 0 /\ 0 % 4 = 0
    OBVIOUS
  <2> QED
    BY <2>1, MinusZero DEF Odom!Sin, Odom!Cos
<1>2. Odom!Rotated(0, <<0, 0>>) = <<0, 0>>
  BY <1>1 DEF Odom!Rotated
<1>3. Odom!ToTransform(Odom!Origin) = [turn |-> 0, shift |-> <<0, 0>>]
  BY <1>1, <1>2 DEF Odom!ToTransform, Odom!Product, Odom!ToTransformRotateFirst, Odom!Origin,
                    Odom!Negative, Odom!Sum
<1>4. \A radius \in Int : radius * 0 = 0 /\ radius * (1 - 1) = 0
  OBVIOUS
<1> QED
  BY <1>1, <1>3, <1>4 DEF OnLine, OnCircle, Odom!Origin

\* A reading keeps the transform close to what was driven.
LEMMA ReadingKeeps ==
  ASSUME OdomInv, Odom!Count, lastOdom' = Odom!ReadOdom(commandedWheelVel), oNow' = oNow
  PROVE  reads' \in Nat /\ lastOdom' # Odom!None /\ DrivenInv'
<1> DEFINE vel == commandedWheelVel
           l == vel.l
           r == vel.r
           dt == oNow - driven.time
           w == Odom!Whole(dt)
           counted == dt - (dt % Millisecond)
           u == Odom!GetLocalPoseUpdate(vel, dt)
           still == vel = Odom!Zero \/ w = 0
           radius == Odom!TurnRadius(vel)
<1>1. Reach \in Nat /\ Millisecond \in Nat /\ Millisecond > 0
  BY OdometryAssumption DEF Reach
<1>2. /\ oNow \in Int /\ reads \in Nat /\ l \in -Reach..Reach /\ r \in -Reach..Reach
      /\ vel = [l |-> l, r |-> r]
      /\ driven.time \in Int /\ dt \in Nat /\ reads' = reads + 1
      /\ driven.way \in Int /\ driven.turn \in Int /\ driven.pose \in Updates
  BY DEF OdomInv, DrivenInv, Odom!Count
<1>3. PICK h \in Int : r - l = 2 * h
  BY DEF OdomInv
<1>4. /\ driven' = [time |-> oNow, way |-> driven.way + (l + r) * dt,
                    turn |-> driven.turn + (r - l) * dt, pose |-> Next2(driven.pose, u),
                    paths |-> driven.paths \cup IF still THEN {} ELSE {Odom!Path(vel)}]
  BY DEF Odom!Count, Odom!GetNextPose, Next2
<1> HIDE DEF vel
<1>5. /\ l \in Int /\ r \in Int /\ w \in Nat /\ Millisecond * w = counted /\ counted \in Int
      /\ l + r \in -(2 * Reach)..(2 * Reach) /\ r - l \in -(2 * Reach)..(2 * Reach)
  <2> HIDE DEF l, r, dt
  <2> QED
    BY <1>1, <1>2, WholeIs
<1>6. /\ h * w \in Int
      /\ l = r => u = [at |-> <<(l + r) * counted, 0>>, turn |-> 0] /\ h * w = 0
      /\ l # r => /\ radius \in Int
                  /\ u = [at |-> <<radius * Odom!Sin(h * w), radius * (1 - Odom!Cos(h * w))>>,
                          turn |-> h * w]
  <2>1. l = r => h * w = 0
    <3> HIDE DEF l, r, w
    <3> QED
      BY <1>3, <1>5
  <2> HIDE DEF dt
  <2> QED
    BY <1>2, <1>3, <1>5, <2>1, UpdateIs
<1>7. still => u = Odom!Origin /\ (l + r) * counted = 0
  <2>1. CASE w = 0
    <3>1. h * w = 0 /\ counted = 0 /\ (l + r) * counted = 0
      <4> HIDE DEF l, r, w, counted
      <4> QED
        BY <1>1, <1>5, <2>1
    <3>2. Odom!Sin(0) = 0 /\ Odom!Cos(0) = 1
      <4>1. 0 % 2 = 0 /\ 0 % 4 = 0
        OBVIOUS
      <4> QED
        BY <4>1 DEF Odom!Sin, Odom!Cos
    <3>3. \A i \in Int : i * 0 = 0 /\ i * (1 - 1) = 0
      OBVIOUS
    <3> QED
      BY <1>6, <3>1, <3>2, <3>3 DEF Odom!Origin
  <2>2. CASE vel = Odom!Zero
    <3>1. l = 0 /\ r = 0 /\ (l + r) * counted = 0
      <4>1. l = 0 /\ r = 0
        BY <2>2 DEF Odom!Zero
      <4> HIDE DEF l, r, counted
      <4> QED
        BY <1>5, <4>1
    <3> QED
      BY <1>6, <3>1 DEF Odom!Origin
  <2> QED
    BY <2>1, <2>2
<1>8. u \in Updates /\ u.turn = h * w
  <2>1. \A n \in Int : Odom!Sin(n) \in Int /\ Odom!Cos(n) \in Int
    BY SinCosAre
  <2>2. (l + r) * counted \in Int /\ 0 \in Int
    <3> HIDE DEF l, r, counted
    <3> QED
      BY <1>5
  <2>3. \A i, s, c \in Int : i * s \in Int /\ i * (1 - c) \in Int
    OBVIOUS
  <2>4. CASE l = r
    BY <1>6, <2>2, <2>4 DEF Updates, Plane
  <2>5. CASE l # r
    <3>1. radius * Odom!Sin(h * w) \in Int /\ radius * (1 - Odom!Cos(h * w)) \in Int
      BY <1>6, <2>1, <2>3, <2>5
    <3> QED
      BY <1>6, <2>5, <3>1 DEF Updates, Plane
  <2> QED
    BY <2>4, <2>5
<1>9. /\ driven'.time \in Int /\ driven'.time <= oNow'
      /\ driven'.way \in Int /\ driven'.turn \in Int /\ driven'.pose \in Updates
  <2>1. driven.way + (l + r) * dt \in Int /\ driven.turn + (r - l) * dt \in Int
    <3> HIDE DEF l, r, dt
    <3> QED
      BY <1>2, <1>5
  <2>2. Next2(driven.pose, u) \in Updates
    <3>1. [turn |-> 0, shift |-> <<0, 0>>] \in Transforms
      BY DEF Transforms, Plane
    <3> QED
      BY <1>2, <1>8, <3>1, UpdateIsTyped
  <2> QED
    BY <1>2, <1>4, <2>1, <2>2
<1>10. \A p \in driven'.paths : p = Odom!Straight \/ \E i \in Int : p = <<i>>
  <2>1. Odom!Path(vel) = Odom!Straight \/ \E i \in Int : Odom!Path(vel) = <<i>>
    BY <1>6 DEF Odom!Path
  <2>2. \A p \in driven.paths : p = Odom!Straight \/ \E i \in Int : p = <<i>>
    BY DEF OdomInv, DrivenInv
  <2>3. \A p \in driven'.paths : p \in driven.paths \/ p = Odom!Path(vel)
    BY <1>4
  <2> QED
    BY <2>1, <2>2, <2>3
<1>11. CASE lastOdom = Odom!None
  <2>1. still /\ driven.way = 0 /\ driven.turn = 0 /\ driven.pose = Odom!Origin
        /\ driven.paths = {} /\ l = 0 /\ r = 0
    <3>1. vel = Odom!Zero /\ driven.way = 0 /\ driven.turn = 0 /\ driven.pose = Odom!Origin
          /\ driven.paths = {}
      BY <1>11 DEF OdomInv, DrivenInv, vel
    <3>2. l = 0 /\ r = 0
      BY <3>1 DEF Odom!Zero
    <3> QED
      BY <3>1, <3>2
  <2>2. /\ driven'.way = 0 /\ driven'.turn = 0 /\ driven'.paths = {}
    <3>1. driven.way + (l + r) * dt = 0 /\ driven.turn + (r - l) * dt = 0
      <4> HIDE DEF l, r, dt
      <4> QED
        BY <1>2, <2>1
    <3> QED
      BY <1>4, <2>1, <3>1
  <2>3. driven'.pose = Odom!Origin
    <3>1. [turn |-> 0, shift |-> <<0, 0>>] \in Transforms
      BY DEF Transforms, Plane
    <3> QED
      BY <1>2, <1>4, <1>7, <2>1, <3>1, OriginStays
  <2>4. lastOdom' = [time |-> oNow, data |-> Odom!ToTransform(Odom!Origin)]
    BY <1>11 DEF Odom!ReadOdom
  <2>5. /\ lastOdom'.data \in Transforms /\ lastOdom'.data.turn = 0
        /\ OnLine(lastOdom'.data, driven'.pose, 0)
        /\ \A i \in Int : OnCircle(lastOdom'.data, driven'.pose, i, 0)
    BY <2>3, <2>4, OriginIs DEF Plane, Transforms
  <2>6. Lags(0, 0, reads') /\ 2 * Millisecond * 0 = 0
    <3>1. reads' * (Millisecond - 1) * 2 * Reach >= 0
      <4>1. reads' \in Nat /\ Millisecond - 1 \in Nat
        BY <1>1, <1>2
      <4>2. \A i, j \in Nat : i * j * 2 * Reach >= 0
        BY <1>1
      <4> QED
        BY <4>1, <4>2
    <3> QED
      BY <1>1, <3>1 DEF Lags, Odom!Abs
  <2>7. lastOdom' # Odom!None
    BY <2>4 DEF Odom!None
  <2>8. lastOdom'.time = driven'.time
    BY <1>4, <2>4
  <2> QED
    BY <1>2, <1>9, <1>10, <2>2, <2>5, <2>6, <2>7, <2>8 DEF DrivenInv
<1>12. CASE lastOdom # Odom!None
  <2>1. /\ lastOdom.time = driven.time /\ lastOdom.data \in Transforms
        /\ lastOdom.data.turn \in Int
        /\ Lags(2 * Millisecond * lastOdom.data.turn, driven.turn, reads)
    BY <1>12 DEF OdomInv, DrivenInv, Transforms
  <2>2. lastOdom' = [time |-> oNow, data |-> Applied(lastOdom.data, u)]
    BY <1>12, <2>1 DEF Odom!ReadOdom, Applied, vel
  <2>3. lastOdom' # Odom!None /\ lastOdom'.time = driven'.time
    BY <1>4, <2>2 DEF Odom!None
  <2>4. lastOdom'.data \in Transforms /\ lastOdom'.data.turn = lastOdom.data.turn + h * w
    BY <1>2, <1>8, <2>1, <2>2, UpdateIsTyped
  <2>5. Lags(2 * Millisecond * lastOdom'.data.turn, driven'.turn, reads')
    <3>1. PICK n \in Int : n = lastOdom.data.turn
      BY <2>1
    <3>2. PICK a \in Int : a = 2 * Millisecond * n
      BY <1>1
    <3>3. 2 * Millisecond * lastOdom'.data.turn = a + (r - l) * counted
      <4>1. 2 * Millisecond * (n + h * w) = a + (2 * h) * (Millisecond * w)
        <5> HIDE DEF w
        <5> QED
          BY <1>1, <1>5, <3>2
      <4> QED
        BY <1>3, <1>5, <2>4, <3>1, <4>1
    <3>4. Odom!Abs(a - driven.turn) <= reads * (Millisecond - 1) * 2 * Reach
      BY <2>1, <3>1, <3>2 DEF Lags
    <3> HIDE DEF l, r, dt
    <3>5. Odom!Abs((a + (r - l) * counted) - (driven.turn + (r - l) * dt))
            <= (reads + 1) * (Millisecond - 1) * 2 * Reach
      BY <1>2, <1>5, <3>4, MovedLags
    <3> HIDE DEF counted
    <3> QED
      BY <1>2, <1>4, <3>3, <3>5 DEF Lags
  <2>6. ASSUME driven'.paths \subseteq {Odom!Straight}
        PROVE  \E x \in Int : OnLine(lastOdom'.data, driven'.pose, x)
                             /\ Lags(x, driven'.way, reads')
    <3>1. PICK x \in Int : OnLine(lastOdom.data, driven.pose, x) /\ Lags(x, driven.way, reads)
      BY <1>4, <1>12, <2>6 DEF OdomInv, DrivenInv
    <3>2. PICK y \in Int : y = (l + r) * counted
      <4> HIDE DEF l, r, counted
      <4> QED
        BY <1>5
    <3>3. u = [at |-> <<y, 0>>, turn |-> 0]
      <4>1. CASE still
        BY <1>7, <3>2, <4>1 DEF Odom!Origin
      <4>2. CASE ~still
        <5>1. Odom!Path(vel) = Odom!Straight
          BY <1>4, <2>6, <4>2
        <5>2. l = r
          BY <5>1 DEF Odom!Path, Odom!Straight
        <5> QED
          BY <1>6, <3>2, <5>2
      <4> QED
        BY <4>1, <4>2
    <3>4. OnLine(lastOdom'.data, driven'.pose, x + y)
      BY <1>4, <2>2, <3>1, <3>3, LineGoesOn
    <3>5. Lags(x + y, driven'.way, reads')
      <4>1. Odom!Abs(x - driven.way) <= reads * (Millisecond - 1) * 2 * Reach
        BY <3>1 DEF Lags
      <4> HIDE DEF l, r, dt
      <4>2. Odom!Abs((x + (l + r) * counted) - (driven.way + (l + r) * dt))
              <= (reads + 1) * (Millisecond - 1) * 2 * Reach
        BY <1>2, <1>5, <4>1, MovedLags
      <4> HIDE DEF counted
      <4> QED
        BY <1>2, <1>4, <3>2, <4>2 DEF Lags
    <3>6. x + y \in Int
      OBVIOUS
    <3> QED
      BY <3>4, <3>5, <3>6
  <2>7. ASSUME NEW i \in Int, driven'.paths \subseteq {<<i>>}
        PROVE  \E n \in Int : OnCircle(lastOdom'.data, driven'.pose, i, n)
    <3>1. PICK n \in Int : OnCircle(lastOdom.data, driven.pose, i, n)
      BY <1>4, <1>12, <2>7 DEF OdomInv, DrivenInv
    <3>2. CASE still
      BY <1>2, <1>4, <1>7, <2>1, <2>2, <3>1, <3>2, OriginStays
    <3>3. CASE ~still
      <4>1. Odom!Path(vel) = <<i>>
        BY <1>4, <2>7, <3>3
      <4>2. l # r /\ radius = i
        BY <4>1 DEF Odom!Path, Odom!Straight
      <4>3. u = [at |-> <<i * Odom!Sin(h * w), i * (1 - Odom!Cos(h * w))>>, turn |-> h * w]
        BY <1>6, <4>2
      <4>4. OnCircle(lastOdom'.data, driven'.pose, i, n + h * w)
        BY <1>4, <1>6, <2>2, <3>1, <4>3, CircleGoesOn
      <4>5. n + h * w \in Int
        BY <1>6
      <4> QED
        BY <4>4, <4>5
    <3> QED
      BY <3>2, <3>3
  <2> QED
    BY <1>2, <1>9, <1>10, <2>3, <2>4, <2>5, <2>6, <2>7 DEF DrivenInv
<1> QED
  BY <1>11, <1>12

\* No wheel is given more than the unit.
LEMMA PowerIsBounded ==
  ASSUME NEW vel, vel.l \in Int, vel.r \in Int
  PROVE  /\ Odom!MaxPWM(vel) \in Int
         /\ Odom!Abs(vel.l) <= Odom!MaxPWM(vel) /\ Odom!Abs(vel.r) <= Odom!MaxPWM(vel)
  BY OdometryAssumption DEF Odom!MaxPWM, Odom!Larger, Odom!Abs

LEMMA OdomStep == OdomInv /\ [Odom!Next]_odomVars => OdomInv'
<1> SUFFICES ASSUME OdomInv, [Odom!Next]_odomVars PROVE OdomInv'
  OBVIOUS
<1>1. CASE UNCHANGED odomVars
  BY <1>1 DEF odomVars, OdomInv, DrivenInv
<1>2. CASE Odom!Tick
  <2>1. oNow' \in Int /\ driven.time <= oNow'
    BY <1>2 DEF Odom!Tick, OdomInv, DrivenInv
  <2> QED
    BY <1>2, <2>1 DEF Odom!Tick, OdomInv, DrivenInv
<1>3. CASE Odom!EmergencyStop
  BY <1>3 DEF Odom!EmergencyStop, OdomInv, DrivenInv
<1>4. CASE Odom!Read
  <2>1. /\ lastOdom' = Odom!ReadOdom(commandedWheelVel) /\ Odom!Count
        /\ UNCHANGED <<oNow, commandedWheelVel, power>>
    BY <1>4 DEF Odom!Read
  <2> QED
    BY <2>1, ReadingKeeps DEF OdomInv
<1>5. ASSUME NEW stick \in Sticks, Odom!SetCmdVel(Odom!WheelVel(stick)) PROVE OdomInv'
  <2> DEFINE vel == Odom!WheelVel(stick)
  <2>1. /\ vel \in [l : Int, r : Int] /\ vel.l \in -Reach..Reach /\ vel.r \in -Reach..Reach
        /\ \E h \in Int : vel.r - vel.l = 2 * h
    BY WheelVelIsBounded
  <2>2. /\ lastOdom' = Odom!ReadOdom(commandedWheelVel) /\ Odom!Count
        /\ commandedWheelVel' = vel /\ oNow' = oNow
        /\ power' = [l |-> vel.l, r |-> vel.r, unit |-> Odom!MaxPWM(vel)]
    BY <1>5 DEF Odom!SetCmdVel
  <2> HIDE DEF vel
  <2>3. vel.l \in Int /\ vel.r \in Int /\ vel \in [l : -Reach..Reach, r : -Reach..Reach]
    BY <2>1
  <2>4. /\ Odom!MaxPWM(vel) \in Int
        /\ Odom!Abs(vel.l) <= Odom!MaxPWM(vel) /\ Odom!Abs(vel.r) <= Odom!MaxPWM(vel)
    BY <2>3, PowerIsBounded
  <2> QED
    BY <2>1, <2>2, <2>3, <2>4, ReadingKeeps DEF OdomInv
<1> QED
  BY <1>1, <1>2, <1>3, <1>4, <1>5 DEF Odom!Next

\* What the transforms on a line and on a circle say.
LEMMA PoseOnLine ==
  ASSUME NEW trf, NEW p, NEW x \in Int, OnLine(trf, p, x)
  PROVE  Odom!ToPose(trf) = p /\ p = [at |-> <<x, 0>>, turn |-> 0]
<1>1. Odom!Sin(0) = 0 /\ Odom!Cos(0) = 1
  <2>1. 0 % 2 = 0 /\ 0 % 4 = 0
    OBVIOUS
  <2> QED
    BY <2>1 DEF Odom!Sin, Odom!Cos
<1>2. Odom!Rotated(0, <<-(-x), -0>>) = <<x, 0>>
  <2>1. 1 * (-(-x)) - 0 * 0 = x /\ 0 * (-(-x)) + 1 * 0 = 0
    OBVIOUS
  <2> QED
    BY <1>1, <2>1, MinusZero DEF Odom!Rotated
<1> QED
  BY <1>2 DEF OnLine, Odom!ToPose, Odom!Negative

LEMMA PoseOnCircle ==
  ASSUME NEW trf, NEW p, NEW radius \in Int, NEW n \in Int, OnCircle(trf, p, radius, n)
  PROVE  Odom!ToPose(trf) = p
<1>1. PICK s \in Int, c \in Int :
        s = Odom!Sin(n) /\ c = Odom!Cos(n) /\ s * s + c * c = 1
  <2>1. /\ Odom!Sin(n) \in Int /\ Odom!Cos(n) \in Int
        /\ Odom!Sin(n) * Odom!Sin(n) + Odom!Cos(n) * Odom!Cos(n) = 1
    BY SinCosAre
  <2> QED
    BY <2>1
<1>2. c * (-(-(radius * s))) - s * (-(radius * (1 - c))) = radius * s
  <2>1. c * (-(-(radius * s))) - s * (-(radius * (1 - c))) = radius * (c * s + s * (1 - c))
    OBVIOUS
  <2>2. c * s + s * (1 - c) = s
    OBVIOUS
  <2> QED
    BY <2>1, <2>2
<1>3. s * (-(-(radius * s))) + c * (-(radius * (1 - c))) = radius * (1 - c)
  <2>1. s * (-(-(radius * s))) + c * (-(radius * (1 - c))) = radius * ((s * s + c * c) - c)
    OBVIOUS
  <2> QED
    BY <1>1, <2>1
<1>4. Odom!Rotated(n, <<-(-(radius * s)), -(radius * (1 - c))>>)
        = <<radius * s, radius * (1 - c)>>
  BY <1>1, <1>2, <1>3 DEF Odom!Rotated
<1> QED
  BY <1>1, <1>4 DEF OnCircle, Odom!ToPose, Odom!Negative

LEMMA OdomHolds == OdomInv => Odom!OdomFollowsWheels /\ Odom!PowersAreScaled
<1> SUFFICES ASSUME OdomInv PROVE Odom!OdomFollowsWheels /\ Odom!PowersAreScaled
  OBVIOUS
<1>1. ASSUME lastOdom # Odom!None, driven.paths \subseteq {Odom!Straight}
      PROVE  LET there == Odom!ToPose(lastOdom.data)
             IN there = driven.pose /\ there.at[2] = 0 /\ Lags(there.at[1], driven.way, reads)
  <2>1. PICK x \in Int : OnLine(lastOdom.data, driven.pose, x) /\ Lags(x, driven.way, reads)
    BY <1>1 DEF OdomInv, DrivenInv
  <2>2. Odom!ToPose(lastOdom.data) = [at |-> <<x, 0>>, turn |-> 0]
    BY <2>1, PoseOnLine
  <2> QED
    BY <2>1, <2>2 DEF OnLine
<1>2. ASSUME lastOdom # Odom!None, \A p, q \in driven.paths : p = q
      PROVE  Odom!ToPose(lastOdom.data) = driven.pose
  <2>1. CASE driven.paths \subseteq {Odom!Straight}
    BY <1>1, <1>2, <2>1
  <2>2. CASE ~(driven.paths \subseteq {Odom!Straight})
    <3>1. PICK i \in Int : driven.paths \subseteq {<<i>>}
      BY <1>2, <2>2 DEF OdomInv, DrivenInv
    <3>2. PICK n \in Int : OnCircle(lastOdom.data, driven.pose, i, n)
      BY <1>2, <3>1 DEF OdomInv, DrivenInv
    <3> QED
      BY <3>2, PoseOnCircle
  <2> QED
    BY <2>1, <2>2
<1>3. lastOdom # Odom!None =>
        /\ lastOdom.time = driven.time
        /\ Lags(2 * Millisecond * Odom!ToPose(lastOdom.data).turn, driven.turn, reads)
  BY DEF OdomInv, DrivenInv, Odom!ToPose
<1>4. Odom!OdomFollowsWheels
  BY <1>1, <1>2, <1>3 DEF Lags, Reach, Odom!OdomFollowsWheels, Odom!OdomFollowsPath
<1>5. Odom!PowersAreScaled
  <2> DEFINE l == commandedWheelVel.l
             r == commandedWheelVel.r
  <2>1. power.l = l /\ power.r = r
    BY DEF OdomInv
  <2>2. l \in Int /\ r \in Int
    <3>1. Reach \in Nat
      BY OdometryAssumption DEF Reach
    <3> QED
      BY <3>1 DEF OdomInv
  <2>3. l * r = r * l
    <3> HIDE DEF l, r
    <3> QED
      BY <2>2
  <2> QED
    BY <2>1, <2>3 DEF OdomInv, Odom!PowersAreScaled
<1> QED
  BY <1>4, <1>5

(***************************************************************************)
(* The arm's set point. What getCommand is about to store was brought back *)
(* into reach, whatever the set point became since.                        *)
(***************************************************************************)
InReach(p) == p \in Int /\ Arm!Abs(p) <= Radius
ArmInv ==
  /\ aNow \in Int /\ time \in Int /\ setpoint \in Int /\ velocity \in Int
  /\ velTimestamp # Arm!None => velTimestamp[1] \in Int
  /\ thread = "store" => InReach(newPos)
  /\ command # Arm!None => InReach(command[1])

LEMMA ClampReaches == ASSUME NEW p \in Int PROVE InReach(Arm!Clamp(p))
  BY ArmAssumption DEF InReach, Arm!Clamp, Arm!Abs

LEMMA ArmInit == Arm!Init => ArmInv
  BY DEF Arm!Init, ArmInv, Arm!None

LEMMA ArmStep == ArmInv /\ [Arm!Next]_armVars => ArmInv'
<1> SUFFICES ASSUME ArmInv, [Arm!Next]_armVars PROVE ArmInv'
  OBVIOUS
<1> USE DEF ArmInv
<1> USE DEF Arm!None
<1>1. ASSUME NEW t \in Int PROVE Arm!Extrapolated(t) \in Int
  <2>1. CASE velTimestamp = Arm!None
    BY <2>1 DEF Arm!Extrapolated
  <2>2. CASE velTimestamp # Arm!None
    BY <2>2 DEF Arm!Extrapolated
  <2> QED
    BY <2>1, <2>2
<1>2. CASE UNCHANGED armVars \/ Arm!Lower \/ (\E b \in BOOLEAN : Arm!Request(b))
           \/ Arm!SwitchOff \/ Arm!NoPosition
  BY <1>2 DEF armVars, Arm!Lower, Arm!Request, Arm!SwitchOff, Arm!NoPosition, Arm!controller,
              Arm!task, InReach
<1>3. CASE Arm!Tick
  BY <1>3 DEF Arm!Tick, Arm!controller, Arm!task, InReach
<1>4. ASSUME NEW v \in ArmVels, Arm!SetXVel(v) PROVE ArmInv'
  <2>1. /\ setpoint' = Arm!Extrapolated(aNow) /\ velocity' = v /\ velTimestamp' = <<aNow>>
        /\ UNCHANGED <<aNow, thread, time, newPos, command>> /\ v \in Int
    BY <1>4, ArmAssumption DEF Arm!SetXVel, Arm!task
  <2> QED
    BY <1>1, <2>1 DEF InReach
<1>5. ASSUME NEW arm \in Arms, Arm!SwitchOn(arm) PROVE ArmInv'
  <2>1. /\ setpoint' = Arm!Clamp(arm) /\ thread' = "test" /\ command' = <<>> /\ arm \in Int
        /\ UNCHANGED <<aNow, velocity, velTimestamp, time, newPos>>
    BY <1>5, ArmAssumption DEF Arm!SwitchOn
  <2> QED
    BY <2>1, ClampReaches DEF InReach
<1>6. CASE Arm!TestFlag \/ Arm!Wake
  BY <1>6 DEF Arm!TestFlag, Arm!Wake, Arm!controller, InReach
<1>7. CASE Arm!GetSetpoint
  <2>1. /\ newPos' = Arm!Clamp(Arm!Extrapolated(time))
        /\ UNCHANGED <<aNow, setpoint, velocity, velTimestamp, time, command>>
    BY <1>7 DEF Arm!GetSetpoint, Arm!controller
  <2>2. InReach(newPos)'
    BY <1>1, <2>1, ClampReaches DEF InReach
  <2> QED
    BY <2>1, <2>2 DEF InReach
<1>8. CASE Arm!StoreAndMove
  <2>1. /\ thread = "store" /\ thread' = "sleep" /\ setpoint' = newPos /\ command' = <<newPos>>
        /\ UNCHANGED <<aNow, velocity, velTimestamp, time, newPos>>
    BY <1>8 DEF Arm!StoreAndMove
  <2> QED
    BY <2>1 DEF InReach
<1> QED
  BY <1>2, <1>3, <1>4, <1>5, <1>6, <1>7, <1>8 DEF Arm!Next, Arm!Task, Arm!Serve

LEMMA ArmHolds == ArmInv => Arm!WithinReach
  BY DEF ArmInv, InReach, Arm!WithinReach

\* The branches of a profile meet, it starts and ends where it should and keeps to its speed
\* and its acceleration (TrapezoidalVelocityProfile.h); a velocity's target is where the
\* velocity leads, however often it was asked for (JacobianVelController.h); no command leaves
\* the arm's reach, wherever requests fall (PlanarArmController.h); the odometry turns as the
\* wheels' velocities turn the rover, but for less than a millisecond a reading, and has it at
\* the right place as long as it kept to one line or one circle; no wheel is given more than
\* full power (kinematic_common_interface.cpp).
THEOREM MotionFollowsCommandsAlways == MissionSpec => []MotionFollowsCommands
<1>1. MissionInit => MotionInv /\ ArmInv /\ OdomInv
  BY MotionInit, ArmInit, OdomInit DEF MissionInit
<1>2. MotionInv /\ ArmInv /\ OdomInv /\ [MissionNext]_missionVars =>
        (MotionInv /\ ArmInv /\ OdomInv)'
  <2>1. [MissionNext]_missionVars =>
          [Motion!Next]_motionVars /\ [Arm!Next]_armVars /\ [Odom!Next]_odomVars
    BY DEF MissionNext, missionVars, motionVars, armVars, odomVars
  <2> QED
    BY <2>1, MotionStep, ArmStep, OdomStep
<1>3. MotionInv /\ ArmInv /\ OdomInv => MotionFollowsCommands
  BY MotionHolds, ArmHolds, OdomHolds DEF MotionFollowsCommands
<1> QED
  BY <1>1, <1>2, <1>3, PTL DEF MissionSpec

(***************************************************************************)
(* The planner. The search keeps each node one valid action away from its  *)
(* parent, and closes a node only after its neighbours are visited.        *)
(***************************************************************************)
Actions == Plan!Moves \cup Plan!Turns
Nodes == Int \X Int \X (0..7)
NodeRecords == [cost : Int, steps : Nat, parent : Nodes, action : Actions \cup {"none"}]

PlanTyped ==
  /\ free \in SUBSET (Int \X Int)
  /\ DOMAIN node \in SUBSET Nodes /\ node \in [DOMAIN node -> NodeRecords]
  /\ Plan!Start \in DOMAIN node /\ fringe \in SUBSET DOMAIN node
  /\ last \in DOMAIN node /\ row \in Int /\ plan \in Seq(Actions)
  /\ result \in {"idle", "search", "failed"} => plan = <<>>
\* The node n is one valid action away from its parent, and has the cost and the number of
\* steps that this makes.
FromParent(n) ==
  LET p == node[n].parent  a == node[n].action
  IN /\ p \in DOMAIN node /\ a \in Plan!ValidActions(p) /\ Plan!IsValid(p, a)
     /\ n = Plan!NodeAfter(p, a)
     /\ node[n].cost = node[p].cost + Plan!StepCost(a) /\ node[n].steps = node[p].steps + 1
Rooted ==
  /\ node[Plan!Start].cost = 0 /\ node[Plan!Start].steps = 0
  /\ \A n \in DOMAIN node : n # Plan!Start => FromParent(n)
  /\ \A n \in DOMAIN node : Plan!Cell(n) \in free \cup {<<0, 0>>}
  /\ result = "idle" => DOMAIN node = {Plan!Start}
\* A node that has left the queue is too far from the goal, and its neighbours are visited.
Done(n) ==
  /\ Plan!Heuristic(n) >= GoalRadius
  /\ \A a \in Plan!ValidActions(n) : Plan!IsValid(n, a) => Plan!NodeAfter(n, a) \in DOMAIN node
Closed ==
  /\ result \in {"search", "failed"} => \A n \in DOMAIN node : n \notin fringe => Done(n)
  /\ result = "failed" /\ counter <= MaxIters => fringe = {}
\* What planCostFromIndex returns for a plan p, by index.
IsCost(f, p) ==
  f = [i \in 0..Len(p) |-> IF i = Len(p) THEN 0 ELSE Plan!StepCost(p[i + 1]) + f[i + 1]]
\* The nodes that the rows of p lead through from n on.
IsRoute(r, p, n) ==
  /\ r \in [0..Len(p) -> Nodes] /\ r[0] = n
  /\ \A k \in 1..Len(p) : /\ p[k] \in Plan!ValidActions(r[k - 1]) /\ Plan!IsValid(r[k - 1], p[k])
                          /\ r[k] = Plan!NodeAfter(r[k - 1], p[k])
Written ==
  result \in {"write", "found"} =>
    /\ row + 1 = node[last].steps /\ (result = "found" => row < 0)
    /\ \E r, f : /\ IsRoute(r, plan, last) /\ IsCost(f, plan) /\ f[0] \in Int
                 /\ r[Len(plan)] \in DOMAIN node /\ Plan!Heuristic(r[Len(plan)]) < GoalRadius
                 /\ f[0] + node[last].cost = node[r[Len(plan)]].cost
PlanInv == PlanTyped /\ Rooted /\ Closed /\ Written

\* What an action leads to, written as Node's constructor does and as the property does.
LEMMA ActionLeads ==
  ASSUME NEW n \in Nodes, NEW a \in Actions
  PROVE  /\ Plan!NodeAfter(n, a) \in Nodes
         /\ Plan!NodeAfter(n, a) = Plan!Executed(n, a)
         /\ a \in Plan!ValidActions(n) => Plan!Fits(n, a)
         /\ a \in Plan!Turns => Plan!Cell(Plan!NodeAfter(n, a)) = Plan!Cell(n)
<1> USE DEF Nodes
<1>1. PICK x \in Int, y \in Int, h \in 0..7 : n = <<x, y, h>>
  OBVIOUS
<1>2. \/ h = 0 \/ h = 1 \/ h = 2 \/ h = 3 \/ h = 4 \/ h = 5 \/ h = 6 \/ h = 7
  BY <1>1
<1>3. CASE a \in Plan!Turns
  <2>1. (h + 1) % 8 = (IF h = 7 THEN 0 ELSE h + 1) /\ (h + 7) % 8 = (IF h = 0 THEN 7 ELSE h - 1)
    BY <1>2
  <2>2. a \notin Plan!Moves
    BY <1>3 DEF Plan!Moves, Plan!Turns
  <2>3. Plan!NodeAfter(n, a) = <<x, y, (h + (IF a = "left" THEN 1 ELSE 7)) % 8>>
    BY <1>1, <2>2 DEF Plan!NodeAfter
  <2> QED
    BY <1>1, <1>3, <2>1, <2>2, <2>3 DEF Plan!Executed, Plan!Fits, Plan!Cell
<1>4. CASE a \in Plan!Moves
  <2>1. /\ a \notin Plan!Turns /\ a \in {"ahead", "aslant"}
    BY <1>4 DEF Plan!Moves, Plan!Turns
  <2>2. /\ Plan!Directions[h + 1][1] = Plan!Dx(h) /\ Plan!Directions[h + 1][2] = Plan!Dy(h)
        /\ Plan!Dx(h) \in Int /\ Plan!Dy(h) \in Int
    BY <1>2 DEF Plan!Directions, Plan!Dx, Plan!Dy
  <2>3. Plan!NodeAfter(n, a) = <<x + Plan!Dx(h), y + Plan!Dy(h), h>>
    BY <1>1, <1>4 DEF Plan!NodeAfter
  <2>4. Plan!Executed(n, a) = <<x + Plan!Dx(h), y + Plan!Dy(h), h>>
    BY <1>1, <1>4, <2>2 DEF Plan!Executed
  <2>5. h % 2 = 1 <=> h \in {1, 3, 5, 7}
    BY <1>2
  <2>6. a \in Plan!ValidActions(n) => Plan!Fits(n, a)
    BY <1>1, <2>1, <2>5 DEF Plan!ValidActions, Plan!Fits
  <2> QED
    BY <2>1, <2>2, <2>3, <2>4, <2>6
<1> QED
  BY <1>3, <1>4 DEF Actions

LEMMA ValidIsAction == \A n : Plan!ValidActions(n) \subseteq Actions
  BY DEF Plan!ValidActions, Actions, Plan!Moves

\* Two actions of a node lead to two nodes.
LEMMA ActionsDiffer ==
  ASSUME NEW n \in Nodes, NEW a \in Plan!ValidActions(n), NEW b \in Plan!ValidActions(n),
         Plan!NodeAfter(n, a) = Plan!NodeAfter(n, b)
  PROVE  a = b
<1> USE DEF Nodes
<1>1. PICK x \in Int, y \in Int, h \in 0..7 : n = <<x, y, h>>
  OBVIOUS
<1>2. \/ h = 0 \/ h = 1 \/ h = 2 \/ h = 3 \/ h = 4 \/ h = 5 \/ h = 6 \/ h = 7
  BY <1>1
<1>3. PICK m \in Plan!Moves : Plan!ValidActions(n) = {m, "left", "right"}
  BY DEF Plan!ValidActions, Plan!Moves, Plan!Turns
<1>4. /\ Plan!NodeAfter(n, m)[3] = h
      /\ Plan!NodeAfter(n, "left")[3] = (h + 1) % 8
      /\ Plan!NodeAfter(n, "right")[3] = (h + 7) % 8
  BY <1>1, <1>3 DEF Plan!NodeAfter, Plan!Moves
<1>5. h # (h + 1) % 8 /\ h # (h + 7) % 8 /\ (h + 1) % 8 # (h + 7) % 8
  BY <1>2
<1> QED
  BY <1>3, <1>4, <1>5

LEMMA PlanInit == Plan!Init => PlanInv
<1> SUFFICES ASSUME Plan!Init PROVE PlanInv
  OBVIOUS
<1>1. /\ DOMAIN node = {Plan!Start} /\ Plan!Start \in Nodes
      /\ node[Plan!Start] = [cost |-> 0, steps |-> 0, parent |-> Plan!Start, action |-> "none"]
      /\ free = {} /\ fringe = {} /\ result = "idle" /\ last = Plan!Start /\ row = -1
      /\ plan = <<>>
  BY DEF Plan!Init, Plan!Start, Nodes
<1>2. node \in [DOMAIN node -> NodeRecords]
  BY <1>1 DEF Plan!Init, NodeRecords
<1>3. PlanTyped
  BY <1>1, <1>2 DEF PlanTyped
<1>4. Rooted
  BY <1>1 DEF Rooted, Plan!Cell, Plan!Start
<1> QED
  BY <1>1, <1>3, <1>4 DEF PlanInv, Closed, Written

LEMMA GetPlanKeeps ==
  ASSUME PlanInv, NEW cells \in Frees, NEW g \in Goals, Plan!GetPlan(cells, g)
  PROVE  PlanInv'
<1>1. /\ result = "idle" /\ result' = "search" /\ free' = cells /\ fringe' = {Plan!Start}
      /\ UNCHANGED <<node, last, row, plan>>
      /\ DOMAIN node = {Plan!Start}
  BY DEF Plan!GetPlan, Plan!output, PlanInv, Rooted
<1>2. cells \in SUBSET (Int \X Int)
  BY GridAssumption
<1>3. PlanTyped'
  BY <1>1, <1>2 DEF PlanInv, PlanTyped
<1>4. Rooted'
  BY <1>1 DEF PlanInv, Rooted, Plan!Cell, Plan!Start
<1> QED
  BY <1>1, <1>3, <1>4 DEF PlanInv, Closed, Written

LEMMA FinishKeeps ==
  ASSUME PlanInv, NEW n \in fringe, Plan!Finish(n)
  PROVE  PlanInv'
<1>1. /\ result = "search" /\ result' = "write" /\ last' = n /\ row' = node[n].steps - 1
      /\ fringe' = fringe \ {n} /\ UNCHANGED <<free, goal, node, plan>>
      /\ plan = <<>> /\ n \in DOMAIN node /\ n \in Nodes
      /\ Plan!Heuristic(n) < GoalRadius
  BY DEF Plan!Finish, Plan!Searching, PlanInv, PlanTyped
<1>2. node[n] \in NodeRecords
  BY <1>1 DEF PlanInv, PlanTyped
<1>3. PlanTyped'
  BY <1>1, <1>2 DEF PlanInv, PlanTyped, NodeRecords
<1>4. Rooted'
  <2>1. ASSUME NEW m \in DOMAIN node, m # Plan!Start PROVE FromParent(m)'
    BY <1>1, <2>1 DEF PlanInv, Rooted, FromParent, Plan!IsValid
  <2> QED
    BY <1>1, <2>1 DEF PlanInv, Rooted
<1>5. Written'
  <2> DEFINE r == [k \in 0..0 |-> n]
             f == [i \in 0..0 |-> 0]
  <2>1. /\ plan' = <<>> /\ Len(plan') = 0 /\ r \in [0..Len(plan') -> Nodes] /\ r[0] = last'
    BY <1>1
  <2> HIDE DEF r
  <2>4. IsRoute(r, plan, last)'
    BY <2>1 DEF IsRoute
  <2>5. IsCost(f, plan')
    BY <2>1 DEF IsCost
  <2>2. r[Len(plan')] = n /\ f[0] = 0 /\ row' + 1 = node[n].steps
    BY <1>1, <1>2, <2>1 DEF NodeRecords
  <2>3. (Plan!Heuristic(n) < GoalRadius)'
    BY <1>1 DEF Plan!Heuristic
  <2> QED
    BY <1>1, <1>2, <2>2, <2>3, <2>4, <2>5 DEF Written, NodeRecords
<1> QED
  BY <1>1, <1>3, <1>4, <1>5 DEF PlanInv, Closed

LEMMA ExpandKeeps ==
  ASSUME PlanInv, NEW n \in fringe, Plan!Expand(n)
  PROVE  PlanInv'
<1> DEFINE By(m) == CHOOSE a \in Plan!ValidActions(n) : Plan!NodeAfter(n, a) = m
<1>1. /\ result = "search" /\ Plan!Heuristic(n) >= GoalRadius
      /\ fringe' = (fringe \ {n}) \cup Plan!Fresh(n)
      /\ UNCHANGED <<free, goal, result, last, row, plan>>
      /\ DOMAIN node' = DOMAIN node \cup Plan!Fresh(n)
      /\ \A m \in DOMAIN node : node'[m] = node[m]
      /\ \A m \in Plan!Fresh(n) : m \notin DOMAIN node => node'[m] = Plan!NewNode(n, By(m))
      /\ node' = [m \in DOMAIN node' |-> node'[m]]
  BY DEF Plan!Expand, Plan!Searching, Plan!output, Plan!Visited
<1>2. n \in DOMAIN node /\ n \in Nodes /\ node[n] \in NodeRecords
  BY DEF PlanInv, PlanTyped
<1>3. ASSUME NEW m \in Plan!Fresh(n)
      PROVE  /\ m \in Nodes /\ m \notin DOMAIN node /\ m # Plan!Start
             /\ By(m) \in Plan!ValidActions(n) /\ By(m) \in Actions
             /\ Plan!IsValid(n, By(m)) /\ m = Plan!NodeAfter(n, By(m))
             /\ node'[m] = Plan!NewNode(n, By(m)) /\ node'[m] \in NodeRecords
  <2>1. PICK a \in Plan!ValidActions(n) :
               Plan!IsValid(n, a) /\ m \notin DOMAIN node /\ m = Plan!NodeAfter(n, a)
    BY <1>3 DEF Plan!Fresh, Plan!Visited
  <2>2. By(m) \in Plan!ValidActions(n) /\ Plan!NodeAfter(n, By(m)) = m
    BY <2>1
  <2>3. By(m) = a
    BY <1>2, <2>1, <2>2, ActionsDiffer
  <2>4. a \in Actions /\ m \in Nodes
    BY <1>2, <2>1, ValidIsAction, ActionLeads
  <2>5. Plan!NewNode(n, a) \in NodeRecords
    <3>1. Plan!StepCost(a) \in Int
      BY GridAssumption DEF Plan!StepCost
    <3>2. node[n].cost \in Int /\ node[n].steps \in Nat
      BY <1>2 DEF NodeRecords
    <3> QED
      BY <1>2, <2>4, <3>1, <3>2 DEF Plan!NewNode, NodeRecords
  <2>6. m # Plan!Start
    BY <2>1 DEF PlanInv, PlanTyped
  <2>7. node'[m] = Plan!NewNode(n, By(m))
    BY <1>1, <1>3, <2>1
  <2> HIDE DEF By
  <2> QED
    BY <2>1, <2>3, <2>4, <2>5, <2>6, <2>7
<1> HIDE DEF By
<1>4. PlanTyped'
  <2>1. DOMAIN node' \in SUBSET Nodes /\ \A m \in DOMAIN node' : node'[m] \in NodeRecords
    BY <1>1, <1>3 DEF PlanInv, PlanTyped
  <2>2. node' \in [DOMAIN node' -> NodeRecords]
    BY <1>1, <2>1
  <2> QED
    BY <1>1, <2>1, <2>2 DEF PlanInv, PlanTyped
<1>5. Rooted'
  <2>1. ASSUME NEW m \in DOMAIN node, m # Plan!Start PROVE FromParent(m)'
    <3>1. FromParent(m) /\ node'[m] = node[m]
      BY <1>1, <2>1 DEF PlanInv, Rooted
    <3>2. node'[node[m].parent] = node[node[m].parent] /\ node[m].parent \in DOMAIN node'
      BY <1>1, <3>1 DEF FromParent
    <3> QED
      BY <1>1, <3>1, <3>2 DEF FromParent, Plan!IsValid
  <2>2. ASSUME NEW m \in Plan!Fresh(n) PROVE FromParent(m)'
    <3>1. node'[m] = Plan!NewNode(n, By(m)) /\ node'[n] = node[n] /\ n \in DOMAIN node'
      BY <1>1, <1>2, <1>3
    <3> QED
      BY <1>1, <1>3, <3>1 DEF FromParent, Plan!IsValid, Plan!NewNode
  <2>3. ASSUME NEW m \in Plan!Fresh(n) PROVE Plan!Cell(m) \in free \cup {<<0, 0>>}
    <3>1. CASE By(m) \in Plan!Moves
      BY <1>3, <3>1 DEF Plan!IsValid
    <3>2. CASE By(m) \in Plan!Turns
      <4>1. Plan!Cell(m) = Plan!Cell(n)
        BY <1>2, <1>3, <3>2, ActionLeads
      <4> QED
        BY <1>2, <4>1 DEF PlanInv, Rooted
    <3> QED
      BY <1>3, <3>1, <3>2 DEF Actions
  <2> QED
    BY <1>1, <2>1, <2>2, <2>3 DEF PlanInv, Rooted, PlanTyped
<1>6. Closed'
  <2> SUFFICES ASSUME NEW m \in DOMAIN node', m \notin fringe' PROVE Done(m)'
    BY <1>1 DEF Closed
  <2>1. m \in DOMAIN node
    BY <1>1
  <2>2. CASE m = n
    <3>1. ASSUME NEW a \in Plan!ValidActions(n), Plan!IsValid(n, a)
          PROVE  Plan!NodeAfter(n, a) \in DOMAIN node'
      BY <1>1, <3>1 DEF Plan!Fresh, Plan!Visited
    <3> QED
      BY <1>1, <2>2, <3>1 DEF Done, Plan!Heuristic, Plan!IsValid
  <2>3. CASE m # n
    <3>1. Done(m)
      BY <1>1, <2>1, <2>3 DEF PlanInv, Closed
    <3> QED
      BY <1>1, <3>1 DEF Done, Plan!Heuristic, Plan!IsValid
  <2> QED
    BY <2>2, <2>3
<1> QED
  BY <1>1, <1>4, <1>5, <1>6 DEF PlanInv, Written

\* A row before the plan: its cost is added, and the rows behind it cost what they did.
LEMMA RowCosts ==
  ASSUME NEW p \in Seq(Actions), NEW a \in Actions, NEW f, IsCost(f, p)
  PROVE  LET q == <<a>> \o p
             g == [i \in 0..Len(q) |-> IF i = 0 THEN Plan!StepCost(a) + f[0] ELSE f[i - 1]]
         IN IsCost(g, q)
<1> DEFINE q == <<a>> \o p
           g == [i \in 0..Len(q) |-> IF i = 0 THEN Plan!StepCost(a) + f[0] ELSE f[i - 1]]
<1>1. /\ Len(q) = Len(p) + 1 /\ Len(p) \in Nat /\ q[1] = a
      /\ \A i \in 1..Len(p) : q[i + 1] = p[i]
  OBVIOUS
<1>2. \A i \in 0..Len(p) : f[i] = IF i = Len(p) THEN 0 ELSE Plan!StepCost(p[i + 1]) + f[i + 1]
  BY DEF IsCost
<1> HIDE DEF q
<1>3. ASSUME NEW i \in 0..Len(q)
      PROVE  g[i] = IF i = Len(q) THEN 0 ELSE Plan!StepCost(q[i + 1]) + g[i + 1]
  <2>1. CASE i = 0
    BY <1>1, <2>1
  <2>2. CASE i = Len(q)
    <3>1. g[i] = f[i - 1] /\ i - 1 = Len(p) /\ i - 1 \in 0..Len(p)
      BY <1>1, <2>2
    <3> QED
      BY <1>2, <2>2, <3>1
  <2>3. CASE i # 0 /\ i # Len(q)
    <3>1. /\ i \in 1..Len(p) /\ i - 1 \in 0..Len(p) /\ i - 1 # Len(p) /\ (i - 1) + 1 = i
          /\ i + 1 \in 0..Len(q) /\ i + 1 # 0 /\ (i + 1) - 1 = i
      BY <1>1, <2>3
    <3>2. g[i] = f[i - 1] /\ g[i + 1] = f[i]
      BY <2>3, <3>1
    <3>3. f[i - 1] = Plan!StepCost(p[i]) + f[i]
      BY <1>2, <3>1
    <3> QED
      BY <1>1, <2>3, <3>1, <3>2, <3>3
  <2> QED
    BY <2>1, <2>2, <2>3
<1>4. g = [i \in 0..Len(q) |-> IF i = Len(q) THEN 0 ELSE Plan!StepCost(q[i + 1]) + g[i + 1]]
  BY <1>3
<1> QED
  BY <1>4 DEF IsCost, q

LEMMA WriteRowKeeps ==
  ASSUME PlanInv, Plan!WriteRow
  PROVE  PlanInv'
<1> PICK a, p : a = node[last].action /\ p = node[last].parent
  OBVIOUS
<1>1. /\ result = "write" /\ row >= 0 /\ plan' = <<a>> \o plan /\ last' = p /\ row' = row - 1
      /\ UNCHANGED <<free, goal, fringe, node, counter, result>>
  BY DEF Plan!WriteRow, Plan!search
<1>2. /\ last \in DOMAIN node /\ last \in Nodes /\ node[last] \in NodeRecords
      /\ row \in Int /\ plan \in Seq(Actions) /\ row + 1 = node[last].steps
  BY <1>1 DEF PlanInv, PlanTyped, Written
<1>3. FromParent(last) /\ a \in Actions /\ p \in DOMAIN node
  <2>1. last # Plan!Start
    BY <1>1, <1>2 DEF PlanInv, Rooted
  <2> QED
    BY <1>2, <2>1, ValidIsAction DEF PlanInv, Rooted, FromParent
<1>4. p \in Nodes /\ node[p] \in NodeRecords
  BY <1>3 DEF PlanInv, PlanTyped
<1>5. /\ a \in Plan!ValidActions(p) /\ Plan!IsValid(p, a) /\ last = Plan!NodeAfter(p, a)
      /\ node[last].cost = node[p].cost + Plan!StepCost(a)
      /\ node[last].steps = node[p].steps + 1
  BY <1>3 DEF FromParent
<1>6. PlanTyped'
  <2>1. plan' \in Seq(Actions)
    BY <1>1, <1>2, <1>3
  <2> QED
    BY <1>1, <1>2, <1>3, <2>1 DEF PlanInv, PlanTyped
<1>7. Rooted'
  <2>1. ASSUME NEW m \in DOMAIN node, m # Plan!Start PROVE FromParent(m)'
    BY <1>1, <2>1 DEF PlanInv, Rooted, FromParent, Plan!IsValid
  <2> QED
    BY <1>1, <2>1 DEF PlanInv, Rooted
<1>8. Written'
  <2>1. PICK r, f : /\ IsRoute(r, plan, last) /\ IsCost(f, plan) /\ f[0] \in Int
                    /\ r[Len(plan)] \in DOMAIN node /\ Plan!Heuristic(r[Len(plan)]) < GoalRadius
                    /\ f[0] + node[last].cost = node[r[Len(plan)]].cost
    BY <1>1 DEF PlanInv, Written
  <2> PICK q : q = <<a>> \o plan /\ q \in Seq(Actions)
    <3>1. <<a>> \o plan \in Seq(Actions)
      BY <1>2, <1>3
    <3> QED
      BY <3>1
  <2> PICK s, g :
        /\ s = [k \in 0..Len(q) |-> IF k = 0 THEN p ELSE r[k - 1]]
        /\ g = [i \in 0..Len(q) |-> IF i = 0 THEN Plan!StepCost(a) + f[0] ELSE f[i - 1]]
    OBVIOUS
  <2>2. IsCost(g, q) /\ g[0] = Plan!StepCost(a) + f[0]
    BY <1>2, <1>3, <2>1, RowCosts
  <2>3. /\ Len(q) = Len(plan) + 1 /\ Len(plan) \in Nat /\ q[1] = a
        /\ \A i \in 1..Len(plan) : q[i + 1] = plan[i]
    BY <1>2, <1>3
  <2>4. /\ r \in [0..Len(plan) -> Nodes] /\ r[0] = last
        /\ \A k \in 1..Len(plan) :
             /\ plan[k] \in Plan!ValidActions(r[k - 1]) /\ Plan!IsValid(r[k - 1], plan[k])
             /\ r[k] = Plan!NodeAfter(r[k - 1], plan[k])
    BY <2>1 DEF IsRoute
  <2>5. IsRoute(s, q, p)
    <3>1. s \in [0..Len(q) -> Nodes] /\ s[0] = p
      BY <1>4, <2>3, <2>4
    <3>2. ASSUME NEW k \in 1..Len(q)
          PROVE  /\ q[k] \in Plan!ValidActions(s[k - 1]) /\ Plan!IsValid(s[k - 1], q[k])
                 /\ s[k] = Plan!NodeAfter(s[k - 1], q[k])
      <4>1. CASE k = 1
        <5>1. s[k] = last /\ s[k - 1] = p /\ q[k] = a
          BY <2>3, <2>4, <4>1
        <5> QED
          BY <1>5, <5>1
      <4>2. CASE k # 1
        <5>1. k - 1 \in 1..Len(plan) /\ k - 1 \in 0..Len(q) /\ k - 1 # 0 /\ k # 0
          BY <2>3, <4>2
        <5>2. s[k] = r[k - 1] /\ s[k - 1] = r[(k - 1) - 1] /\ q[k] = plan[k - 1]
          BY <2>3, <4>2, <5>1
        <5> QED
          BY <2>4, <5>1, <5>2
      <4> QED
        BY <4>1, <4>2
    <3> QED
      BY <3>1, <3>2 DEF IsRoute
  <2>6. s[Len(q)] = r[Len(plan)]
    BY <2>3
  <2>7. g[0] + node[p].cost = node[r[Len(plan)]].cost
    <3>1. Plan!StepCost(a) \in Int
      BY GridAssumption DEF Plan!StepCost
    <3>2. node[last].cost \in Int /\ node[p].cost \in Int
      BY <1>2, <1>4 DEF NodeRecords
    <3>3. \A x, y, z, c, d \in Int : y = z + c /\ x + y = d => (c + x) + z = d
      OBVIOUS
    <3>4. node[r[Len(plan)]].cost \in Int
      BY <2>1 DEF PlanInv, PlanTyped, NodeRecords
    <3>5. node[last].cost = node[p].cost + Plan!StepCost(a)
      BY <1>5
    <3>6. f[0] + node[last].cost = node[r[Len(plan)]].cost /\ f[0] \in Int
      BY <2>1
    <3> QED
      BY <2>2, <3>1, <3>2, <3>3, <3>4, <3>5, <3>6
  <2>8. row' + 1 = node[p].steps
    <3>1. node[last].steps \in Nat /\ node[p].steps \in Nat
      BY <1>2, <1>4 DEF NodeRecords
    <3>2. \A i, x, y \in Int : i + 1 = x /\ x = y + 1 => (i - 1) + 1 = y
      OBVIOUS
    <3>3. row + 1 = node[last].steps /\ row \in Int /\ row' = row - 1
      BY <1>1, <1>2
    <3>4. node[last].steps = node[p].steps + 1
      BY <1>5
    <3>5. row - 1 + 1 = node[p].steps
      BY <3>1, <3>2, <3>3, <3>4
    <3> QED
      BY <3>3, <3>5
  <2>9. /\ IsRoute(s, q, p)'
        /\ \A m : Plan!Heuristic(m) < GoalRadius => (Plan!Heuristic(m) < GoalRadius)'
    <3>1. free' = free /\ goal' = goal
      BY <1>1
    <3>2. \A m, b : Plan!IsValid(m, b) => Plan!IsValid(m, b)'
      BY <3>1 DEF Plan!IsValid
    <3>3. \A m : Plan!Heuristic(m) < GoalRadius => (Plan!Heuristic(m) < GoalRadius)'
      BY <3>1 DEF Plan!Heuristic
    <3> QED
      BY <2>5, <3>2, <3>3 DEF IsRoute
  <2>10. g[0] \in Int
    BY <2>1, <2>2, GridAssumption DEF Plan!StepCost
  <2>11. plan' = q /\ last' = p /\ node' = node /\ result' = "write"
    BY <1>1
  <2>12. /\ IsRoute(s, plan, last)' /\ IsCost(g, plan)' /\ s[Len(plan')] \in DOMAIN node'
         /\ (Plan!Heuristic(s[Len(plan)]) < GoalRadius)'
         /\ g[0] + node'[last'].cost = node'[s[Len(plan')]].cost
    <3>1. IsRoute(s, plan, last)'
      BY <2>9, <2>11 DEF IsRoute
    <3>2. IsCost(g, plan)'
      BY <2>2, <2>11
    <3>3. s[Len(plan')] = r[Len(plan)]
      BY <2>6, <2>11
    <3>4. s[Len(plan')] \in DOMAIN node'
      BY <2>1, <2>11, <3>3
    <3>5. (Plan!Heuristic(s[Len(plan)]) < GoalRadius)'
      BY <2>1, <2>9, <2>11, <3>3
    <3>6. g[0] + node'[last'].cost = node'[s[Len(plan')]].cost
      BY <2>7, <2>11, <3>3
    <3> QED
      BY <3>1, <3>2, <3>3, <3>4, <3>5, <3>6
  <2> QED
    BY <2>8, <2>10, <2>11, <2>12 DEF Written
<1> QED
  BY <1>1, <1>6, <1>7, <1>8 DEF PlanInv, Closed

LEMMA PlanStep == PlanInv /\ [Plan!Next]_planVars => PlanInv'
<1> SUFFICES ASSUME PlanInv, [Plan!Next]_planVars PROVE PlanInv'
  OBVIOUS
<1>1. CASE UNCHANGED planVars
  <2>1. UNCHANGED <<free, goal, fringe, node, counter, result, last, row, plan>>
    BY <1>1 DEF planVars
  <2>2. PlanTyped' /\ Rooted'
    BY <2>1 DEF PlanInv, PlanTyped, Rooted, FromParent, Plan!IsValid
  <2>3. Closed'
    BY <2>1 DEF PlanInv, Closed, Done, Plan!Heuristic, Plan!IsValid
  <2>4. Written'
    BY <2>1 DEF PlanInv, Written, IsRoute, Plan!Heuristic, Plan!IsValid
  <2> QED
    BY <2>2, <2>3, <2>4 DEF PlanInv
<1>2. CASE Plan!GiveUp
  <2>1. /\ UNCHANGED <<free, goal, fringe, node, counter, last, row, plan>>
        /\ result = "search" /\ result' = "failed" /\ (counter <= MaxIters => fringe = {})
    BY <1>2 DEF Plan!GiveUp, Plan!Searching, Plan!search, Plan!output
  <2>2. PlanTyped' /\ Rooted'
    BY <2>1 DEF PlanInv, PlanTyped, Rooted, FromParent, Plan!IsValid
  <2>3. Closed'
    BY <2>1 DEF PlanInv, Closed, Done, Plan!Heuristic, Plan!IsValid
  <2> QED
    BY <2>1, <2>2, <2>3 DEF PlanInv, Written
<1>3. CASE Plan!Return
  <2>1. /\ UNCHANGED <<free, goal, fringe, node, last, row, plan>>
        /\ result = "write" /\ result' = "found" /\ row < 0
    BY <1>3 DEF Plan!Return, Plan!search, Plan!output
  <2>2. PlanTyped' /\ Rooted'
    BY <2>1 DEF PlanInv, PlanTyped, Rooted, FromParent, Plan!IsValid
  <2>3. Written'
    BY <2>1 DEF PlanInv, Written, IsRoute, Plan!Heuristic, Plan!IsValid
  <2> QED
    BY <2>1, <2>2, <2>3 DEF PlanInv, Closed
<1>4. ASSUME NEW n \in Plan!Tops, Plan!Finish(n) \/ Plan!Expand(n) PROVE PlanInv'
  <2>1. n \in fringe
    BY DEF Plan!Tops
  <2> QED
    BY <1>4, <2>1, FinishKeeps, ExpandKeeps
<1> QED
  BY <1>1, <1>2, <1>3, <1>4, GetPlanKeeps, WriteRowKeeps DEF Plan!Next

LEMMA CostIsUnique ==
  ASSUME plan \in Seq(Actions), NEW f, IsCost(f, plan)
  PROVE  Plan!PlanCostFromIndex[0] = f[0]
<1> DEFINE C == Plan!PlanCostFromIndex
           T == {j \in 0..Len(plan) : C[Len(plan) - j] # f[Len(plan) - j]}
<1>1. C = CHOOSE g : IsCost(g, plan)
  BY DEF Plan!PlanCostFromIndex, IsCost
<1>2. IsCost(C, plan)
  BY <1>1
<1> HIDE DEF C
<1>3. Len(plan) \in Nat
  OBVIOUS
<1>4. \A i \in 0..Len(plan) :
        /\ C[i] = IF i = Len(plan) THEN 0 ELSE Plan!StepCost(plan[i + 1]) + C[i + 1]
        /\ f[i] = IF i = Len(plan) THEN 0 ELSE Plan!StepCost(plan[i + 1]) + f[i + 1]
  BY <1>2 DEF IsCost
<1>5. T = {}
  <2> SUFFICES ASSUME T # {} PROVE FALSE
    OBVIOUS
  <2>1. T \in SUBSET Nat
    BY <1>3
  <2>2. PICK j \in T : \A i \in T : j <= i
    BY <2>1, LeastExists
  <2>3. /\ j \in 0..Len(plan) /\ C[Len(plan) - j] # f[Len(plan) - j]
        /\ Len(plan) - j \in 0..Len(plan)
    BY <1>3
  <2>4. j # 0
    <3> SUFFICES ASSUME j = 0 PROVE FALSE
      OBVIOUS
    <3>1. Len(plan) - j = Len(plan)
      BY <1>3
    <3> QED
      BY <1>4, <2>3, <3>1
  <2>5. /\ j - 1 \in 0..Len(plan) /\ j - 1 \notin T /\ Len(plan) - (j - 1) = (Len(plan) - j) + 1
        /\ Len(plan) - j # Len(plan)
    BY <1>3, <2>2, <2>3, <2>4
  <2>6. C[(Len(plan) - j) + 1] = f[(Len(plan) - j) + 1]
    BY <2>5
  <2> QED
    BY <1>4, <2>3, <2>5, <2>6
<1> QED
  <2>1. Len(plan) \in 0..Len(plan) /\ Len(plan) - Len(plan) = 0
    BY <1>3
  <2> QED
    BY <1>5, <2>1 DEF C

LEMMA RouteIsTaken ==
  ASSUME plan \in Seq(Actions), NEW r, IsRoute(r, plan, Plan!Start)
  PROVE  \A k \in 0..Len(plan) : Plan!PoseAt[k] = r[k]
<1> DEFINE Leads(g) == g = [k \in 0..Len(plan) |-> IF k = 0 THEN Plan!Start
                                                   ELSE Plan!Executed(g[k - 1], plan[k])]
           P == Plan!PoseAt
           T == {k \in 0..Len(plan) : P[k] # r[k]}
<1>1. Len(plan) \in Nat
  OBVIOUS
<1>2. \A k \in 0..Len(plan) : r[k] = IF k = 0 THEN Plan!Start
                                     ELSE Plan!Executed(r[k - 1], plan[k])
  <2> SUFFICES ASSUME NEW k \in 0..Len(plan), k # 0
               PROVE  r[k] = Plan!Executed(r[k - 1], plan[k])
    BY DEF IsRoute
  <2>1. k \in 1..Len(plan) /\ k - 1 \in 0..Len(plan)
    BY <1>1
  <2>2. r[k - 1] \in Nodes /\ plan[k] \in Actions /\ r[k] = Plan!NodeAfter(r[k - 1], plan[k])
    BY <2>1 DEF IsRoute
  <2> QED
    BY <2>2, ActionLeads
<1>3. Leads(r)
  BY <1>2 DEF IsRoute
<1>4. P = CHOOSE g : Leads(g)
  BY DEF Plan!PoseAt
<1>5. Leads(P)
  BY <1>3, <1>4
<1> HIDE DEF P
<1>6. \A k \in 0..Len(plan) : P[k] = IF k = 0 THEN Plan!Start
                                     ELSE Plan!Executed(P[k - 1], plan[k])
  BY <1>5
<1>7. T = {}
  <2> SUFFICES ASSUME T # {} PROVE FALSE
    OBVIOUS
  <2>1. T \in SUBSET Nat
    BY <1>1
  <2>2. PICK k \in T : \A i \in T : k <= i
    BY <2>1, LeastExists
  <2>3. k \in 0..Len(plan) /\ P[k] # r[k]
    OBVIOUS
  <2>4. k # 0
    BY <1>2, <1>6, <2>3
  <2>5. k - 1 \in 0..Len(plan) /\ k - 1 \notin T
    BY <1>1, <2>2, <2>3, <2>4
  <2>6. P[k - 1] = r[k - 1]
    BY <2>5
  <2> QED
    BY <1>2, <1>6, <2>3, <2>4, <2>6
<1> QED
  BY <1>7 DEF P

LEMMA FoundReachesGoal == PlanInv => Plan!PlanReachesGoal
<1> SUFFICES ASSUME PlanInv, result = "found" PROVE Plan!PlanReachesGoal
  BY DEF Plan!PlanReachesGoal
<1>1. PICK r, f : /\ IsRoute(r, plan, last) /\ IsCost(f, plan) /\ f[0] \in Int
                  /\ r[Len(plan)] \in DOMAIN node /\ Plan!Heuristic(r[Len(plan)]) < GoalRadius
                  /\ f[0] + node[last].cost = node[r[Len(plan)]].cost
  BY DEF PlanInv, Written
<1>2. plan \in Seq(Actions) /\ Len(plan) \in Nat /\ last \in DOMAIN node
  BY DEF PlanInv, PlanTyped
<1>3. last = Plan!Start
  <2>1. row + 1 = node[last].steps /\ row < 0 /\ row \in Int
    BY DEF PlanInv, Written, PlanTyped
  <2>2. ASSUME last # Plan!Start PROVE FALSE
    <3>1. /\ node[last].parent \in DOMAIN node
          /\ node[last].steps = node[node[last].parent].steps + 1
      BY <1>2, <2>2 DEF PlanInv, Rooted, FromParent
    <3>2. node[node[last].parent].steps \in Nat
      BY <3>1 DEF PlanInv, PlanTyped, NodeRecords
    <3> QED
      BY <2>1, <3>1, <3>2
  <2> QED
    BY <2>2
<1>4. node[last].cost = 0
  BY <1>3 DEF PlanInv, Rooted
<1>5. \A k \in 0..Len(plan) : Plan!PoseAt[k] = r[k]
  BY <1>1, <1>2, <1>3, RouteIsTaken
<1>6. Plan!PoseAt[Len(plan)] = r[Len(plan)]
  BY <1>2, <1>5
<1>7. ASSUME NEW k \in 1..Len(plan)
      PROVE  /\ Plan!Fits(Plan!PoseAt[k - 1], plan[k])
             /\ plan[k] \in Plan!Moves => Plan!Cell(Plan!PoseAt[k]) \in free
  <2>1. k - 1 \in 0..Len(plan) /\ k \in 0..Len(plan)
    BY <1>2
  <2>2. /\ r[k - 1] \in Nodes /\ plan[k] \in Plan!ValidActions(r[k - 1])
        /\ Plan!IsValid(r[k - 1], plan[k]) /\ r[k] = Plan!NodeAfter(r[k - 1], plan[k])
    BY <1>1, <2>1 DEF IsRoute
  <2>3. plan[k] \in Actions
    BY <2>2, ValidIsAction
  <2> QED
    BY <1>5, <2>1, <2>2, <2>3, ActionLeads DEF Plan!IsValid
<1>8. Plan!PlanCostFromIndex[0] = f[0]
  BY <1>1, <1>2, CostIsUnique
<1>9. Plan!PlanCostFromIndex[0] = node[Plan!PoseAt[Len(plan)]].cost
  BY <1>1, <1>4, <1>6, <1>8
<1> QED
  BY <1>1, <1>6, <1>7, <1>9 DEF Plan!PlanReachesGoal

\* With no node in the queue every heading of a visited cell is visited.
LEMMA HeadingsVisited ==
  ASSUME PlanInv, result = "failed", fringe = {},
         NEW n \in DOMAIN node, NEW h \in 0..7
  PROVE  <<n[1], n[2], h>> \in DOMAIN node
<1> DEFINE V(i) == <<n[1], n[2], i>> \in DOMAIN node
<1>1. ASSUME NEW i \in 0..7, V(i) PROVE V((i + 1) % 8)
  <2> DEFINE m == <<n[1], n[2], i>>
  <2>1. Done(m)
    BY <1>1 DEF PlanInv, Closed
  <2>2. "left" \in Plan!ValidActions(m) /\ Plan!IsValid(m, "left")
    BY DEF Plan!ValidActions, Plan!Turns, Plan!IsValid, Plan!Moves
  <2>3. Plan!NodeAfter(m, "left") = <<n[1], n[2], (i + 1) % 8>>
    BY DEF Plan!NodeAfter, Plan!Moves
  <2> QED
    BY <2>1, <2>2, <2>3 DEF Done
<1>2. n = <<n[1], n[2], n[3]>> /\ n[3] \in 0..7
  BY DEF PlanInv, PlanTyped, Nodes
<1>3. V(n[3])
  BY <1>2
<1> HIDE DEF V
<1>4. /\ (0 + 1) % 8 = 1 /\ (1 + 1) % 8 = 2 /\ (2 + 1) % 8 = 3 /\ (3 + 1) % 8 = 4
      /\ (4 + 1) % 8 = 5 /\ (5 + 1) % 8 = 6 /\ (6 + 1) % 8 = 7 /\ (7 + 1) % 8 = 0
  OBVIOUS
<1>5. /\ V(0) => V(1)
      /\ V(1) => V(2)
      /\ V(2) => V(3)
      /\ V(3) => V(4)
      /\ V(4) => V(5)
      /\ V(5) => V(6)
      /\ V(6) => V(7)
      /\ V(7) => V(0)
  BY <1>1, <1>4
<1>6. V(0) /\ V(1) /\ V(2) /\ V(3) /\ V(4) /\ V(5) /\ V(6) /\ V(7)
  BY <1>2, <1>3, <1>5
<1>7. V(h)
  BY <1>6
<1> QED
  BY <1>7 DEF V

\* One of the eight headings leads from a cell to any one it touches.
LEMMA HeadingTo ==
  ASSUME NEW b \in Int \X Int, NEW c \in Int \X Int, Plan!Adjacent(b, c), b # c
  PROVE  \E h \in 0..7 : c = <<b[1] + Plan!Dx(h), b[2] + Plan!Dy(h)>>
<1>1. PICK x \in Int, y \in Int, dx \in Int, dy \in Int :
        b = <<x, y>> /\ c = <<x + dx, y + dy>> /\ dx = c[1] - b[1] /\ dy = c[2] - b[2]
  <2>1. /\ c[1] - b[1] \in Int /\ c[2] - b[2] \in Int
        /\ c = <<b[1] + (c[1] - b[1]), b[2] + (c[2] - b[2])>> /\ b = <<b[1], b[2]>>
    OBVIOUS
  <2> QED
    BY <2>1
<1>2. \A d \in Int : d * d <= 1 => d \in {-1, 0, 1}
  <2> SUFFICES ASSUME NEW d \in Int, d > 1 \/ d < -1 PROVE d * d > 1
    OBVIOUS
  <2>1. ASSUME NEW e \in Int, e > 1 PROVE e * e > 1
    <3>1. \A p, q \in Nat : p >= 0 /\ q >= 0 => p * q >= 0
      OBVIOUS
    <3>2. e - 1 \in Nat /\ (e - 1) * (e - 1) >= 0
      BY <2>1, <3>1
    <3>3. e * e = (e - 1) * (e - 1) + 2 * e - 1
      OBVIOUS
    <3> QED
      BY <2>1, <3>2, <3>3
  <2>2. (-d) * (-d) = d * d
    OBVIOUS
  <2> QED
    BY <2>1, <2>2
<1>3. dx \in {-1, 0, 1} /\ dy \in {-1, 0, 1}
  BY <1>1, <1>2 DEF Plan!Adjacent, Plan!Sq
<1>4. ~(dx = 0 /\ dy = 0)
  BY <1>1
<1>5. \E h \in 0..7 : Plan!Dx(h) = dx /\ Plan!Dy(h) = dy
  <2>1. /\ Plan!Dx(0) = 1 /\ Plan!Dy(0) = 0 /\ Plan!Dx(1) = 1 /\ Plan!Dy(1) = 1
        /\ Plan!Dx(2) = 0 /\ Plan!Dy(2) = 1 /\ Plan!Dx(3) = -1 /\ Plan!Dy(3) = 1
        /\ Plan!Dx(4) = -1 /\ Plan!Dy(4) = 0 /\ Plan!Dx(5) = -1 /\ Plan!Dy(5) = -1
        /\ Plan!Dx(6) = 0 /\ Plan!Dy(6) = -1 /\ Plan!Dx(7) = 1 /\ Plan!Dy(7) = -1
    BY DEF Plan!Dx, Plan!Dy
  <2> QED
    BY <1>3, <1>4, <2>1
<1> QED
  BY <1>1, <1>5

\* A search that has run out of nodes: the cells it has visited lead nowhere else.
LEMMA FailedHasNoPath == PlanInv => Plan!FailsOnlyWithoutPath
<1> SUFFICES ASSUME PlanInv, result = "failed", counter <= MaxIters PROVE Plan!NoPath
  BY DEF Plan!FailsOnlyWithoutPath
<1> DEFINE S == {Plan!Cell(n) : n \in DOMAIN node}
<1>1. fringe = {} /\ free \in SUBSET (Int \X Int)
  BY DEF PlanInv, PlanTyped, Closed
<1>2. S \in SUBSET (free \cup {<<0, 0>>})
  BY DEF PlanInv, Rooted
<1>3. <<0, 0>> \in S
  <2>1. Plan!Cell(Plan!Start) = <<0, 0>>
    BY DEF Plan!Cell, Plan!Start
  <2> QED
    BY <2>1 DEF PlanInv, PlanTyped
<1>4. ASSUME NEW c \in S PROVE Plan!Heuristic(c) >= GoalRadius
  <2>1. PICK n \in DOMAIN node : c = Plan!Cell(n)
    BY <1>4
  <2>2. Plan!Heuristic(n) >= GoalRadius
    BY <1>1 DEF PlanInv, Closed, Done
  <2>3. Plan!Heuristic(c) = Plan!Heuristic(n)
    BY <2>1 DEF Plan!Cell, Plan!Heuristic
  <2> QED
    BY <2>2, <2>3
<1>5. ASSUME NEW b \in S, NEW c \in free, Plan!Adjacent(b, c) PROVE c \in S
  <2>1. b \in Int \X Int /\ c \in Int \X Int
    BY <1>1, <1>2
  <2>2. PICK n \in DOMAIN node : b = Plan!Cell(n)
    OBVIOUS
  <2>3. CASE b # c
    <3>1. PICK h \in 0..7 : c = <<b[1] + Plan!Dx(h), b[2] + Plan!Dy(h)>>
      BY <1>5, <2>1, <2>3, HeadingTo
    <3> DEFINE m == <<n[1], n[2], h>>
    <3>2. m \in DOMAIN node
      BY <1>1, HeadingsVisited
    <3>3. Done(m)
      BY <1>1, <3>2 DEF PlanInv, Closed
    <3>4. PICK a \in Plan!Moves : a \in Plan!ValidActions(m)
      BY DEF Plan!ValidActions, Plan!Moves
    <3>5. Plan!NodeAfter(m, a) = <<n[1] + Plan!Dx(h), n[2] + Plan!Dy(h), h>>
      BY <3>4 DEF Plan!NodeAfter
    <3>6. Plan!Cell(Plan!NodeAfter(m, a)) = c
      BY <2>2, <3>1, <3>5 DEF Plan!Cell
    <3>7. Plan!NodeAfter(m, a) \in DOMAIN node
      BY <3>3, <3>4, <3>6 DEF Done, Plan!IsValid
    <3> QED
      BY <3>6, <3>7
  <2> QED
    BY <2>3
<1> QED
  BY <1>2, <1>3, <1>4, <1>5 DEF Plan!NoPath

\* plan.cpp: for any grid, goal, radius, costs and bound on the iterations, a plan leads to the
\* goal over free cells at the cost the search had for it, and a search that fails before its
\* bound has visited all that free cells lead to.
THEOREM PlanOrNoPathAlways == MissionSpec => []PlanOrNoPath
<1>1. MissionInit => PlanInv
  BY PlanInit DEF MissionInit
<1>2. PlanInv /\ [MissionNext]_missionVars => PlanInv'
  <2>1. [MissionNext]_missionVars => [Plan!Next]_planVars
    BY DEF MissionNext, missionVars, planVars
  <2> QED
    BY <2>1, PlanStep
<1>3. PlanInv => PlanOrNoPath
  BY FoundReachesGoal, FailedHasNoPath DEF PlanOrNoPath
<1> QED
  BY <1>1, <1>2, <1>3, PTL DEF MissionSpec


(***************************************************************************)
(* Waypoint.                                                               *)
(***************************************************************************)
\* The start of a stay is kept only while the robot is recorded close, and the robot was last
\* recorded outside before it; the record that ends the stay is dropped by the next isDone.
StayInv ==
  /\ wNow \in Nat /\ lastRecordedTime \in Int /\ lastOutside \in Int
  /\ lastRecordedTime <= wNow /\ lastOutside <= lastRecordedTime
  /\ closeToTargetStartTime \in Int
  /\ closeToTargetStartTime # Drive!None =>
       IF pose = "near"
       THEN closeToTargetStartTime <= lastRecordedTime /\ lastOutside <= closeToTargetStartTime
       ELSE phase # "setState"
  /\ phase = "isDone" => xVel = Drive!Speed(pose)

LEMMA StayInit == Drive!Init => StayInv
  BY DEF Drive!Init, StayInv, Drive!None

LEMMA StayStep == StayInv /\ [Drive!Next]_waypointVars => StayInv'
<1> SUFFICES ASSUME StayInv, [Drive!Next]_waypointVars PROVE StayInv'
  OBVIOUS
<1>1. CASE UNCHANGED waypointVars
  BY <1>1 DEF waypointVars, StayInv
<1>2. ASSUME NEW p \in Drive!Poses, Drive!Move(p) PROVE StayInv'
  BY <1>2 DEF Drive!Move, StayInv
<1>3. CASE Drive!SetState
  BY <1>3 DEF Drive!SetState, StayInv, Drive!None
<1>4. CASE Drive!GetOutput
  BY <1>4 DEF Drive!GetOutput, StayInv
<1>5. CASE Drive!IsDone
  BY <1>5 DEF Drive!IsDone, Drive!CloseSince, StayInv, Drive!None
<1> QED
  BY <1>1, <1>2, <1>3, <1>4, <1>5 DEF Drive!Next

LEMMA DoneHasStayed == StayInv /\ Drive!IsDone /\ done' => Drive!Stayed
<1> SUFFICES ASSUME StayInv, Drive!IsDone, done' PROVE Drive!Stayed
  OBVIOUS
<1>1. /\ phase = "isDone" /\ pose = "near"
      /\ lastRecordedTime - Drive!CloseSince >= CloseToTargetDur
  BY Zenon DEF Drive!IsDone
<1> QED
  BY <1>1, StayAssumption DEF StayInv, Drive!CloseSince, Drive!Stayed, Drive!Speed, Drive!None

\* DriveToWaypointCommand.cpp: whatever moves the robot and however seldom it is asked, it is
\* called done only after it was recorded close to the target, and nowhere else, for
\* closeToTargetDur, and has slowed down.
THEOREM DoneAfterStayAlways == MissionSpec => DoneAfterStay
<1>1. MissionInit => StayInv
  BY StayInit DEF MissionInit
<1>2. [MissionNext]_missionVars => [Drive!Next]_waypointVars
  BY DEF MissionNext, missionVars, waypointVars
<1>3. StayInv /\ [MissionNext]_missionVars => StayInv'
  BY <1>2, StayStep
<1>4. StayInv /\ [MissionNext]_missionVars => [Drive!IsDone /\ done' => Drive!Stayed]_(Drive!vars)
  BY DoneHasStayed
<1> QED
  BY <1>1, <1>3, <1>4, PTL DEF MissionSpec, DoneAfterStay, Drive!DoneAfterStay

(***************************************************************************)
(* Pose graph: what is kept at an index is told by the first pose of the   *)
(* window.                                                                 *)
(***************************************************************************)
ValueAt(first, i) == IF i < NumLandmarks THEN Poses!Lm(i)
                     ELSE Poses!Pose(first + (i - NumLandmarks))
GuessOf(first, n) == [i \in 0..(NumLandmarks + n - 1) |-> ValueAt(first, i)]
PoseIndices(n) == NumLandmarks..(NumLandmarks + n - 1)
\* A factor of a window of n poses acts on the values it was added for.
ActsOn(f, first, n) ==
  /\ f = [id |-> f.id, kind |-> f.kind, to |-> f.to, from |-> f.from, on |-> f.on, by |-> f.by]
  /\ \/ f.kind = "odom" /\ f.to \in PoseIndices(n)
     \/ f.kind = "landmark" /\ f.to \in Poses!Landmarks
  /\ f.on = ValueAt(first, f.to)
  /\ \/ f.from = Poses!None /\ f.by = f.on
     \/ f.from \in PoseIndices(n) /\ f.by = ValueAt(first, f.from)
\* The last solution has the first k poses of the window; a window that is too long has one
\* more than that.
SolvedFirst(k) ==
  /\ solCov = GuessOf(minPoseID, k) /\ k <= maxPoseID - minPoseID
  /\ maxPoseID - minPoseID > MaxNumPoses => maxPoseID - minPoseID = k + 1
GuessInv ==
  /\ minPoseID \in Nat /\ maxPoseID \in Nat /\ minPoseID <= maxPoseID
  /\ maxPoseID - minPoseID <= MaxNumPoses + 1
  /\ currentGuess = GuessOf(minPoseID, maxPoseID - minPoseID)
  /\ \/ DOMAIN solCov = {} /\ maxPoseID - minPoseID <= MaxNumPoses
     \/ \E k \in 0..MaxNumPoses : SolvedFirst(k)
FactorsInv ==
  /\ factorCounter \in Nat
  /\ \A f \in factors :
       /\ ActsOn(f, minPoseID, maxPoseID - minPoseID)
       /\ f.id \in Nat /\ f.id < factorCounter
  /\ \A l \in Poses!Landmarks : landmarkFactorIDs[l] \in Int /\ landmarkFactorIDs[l] < factorCounter
  /\ DOMAIN landmarkFactorIDs = Poses!Landmarks
  /\ Poses!SightsAreReplaced
GraphInv == GuessInv /\ FactorsInv

LEMMA GraphInit == Poses!Init => GraphInv
<1> SUFFICES ASSUME Poses!Init PROVE GraphInv
  OBVIOUS
<1>1. currentGuess = GuessOf(0, 0)
  BY WindowAssumption DEF Poses!Init, GuessOf, ValueAt, Poses!Landmarks
<1>2. DOMAIN solCov = {}
  BY DEF Poses!Init
<1>3. \A l \in Poses!Landmarks : landmarkFactorIDs[l] = -1
  BY DEF Poses!Init, Poses!None
<1> QED
  BY <1>1, <1>2, <1>3, WindowAssumption
     DEF Poses!Init, GraphInv, GuessInv, FactorsInv, Poses!SightsAreReplaced

\* The window of a guess that has a value more, or the same ones.
LEMMA UseKeepsGuess ==
  ASSUME GuessInv, NEW p \in Nat, Poses!MayUse(p), Poses!Use(p, Poses!Pose(p)),
         UNCHANGED <<minPoseID, solCov>>
  PROVE  GuessInv' /\ p \in minPoseID..(maxPoseID' - 1) /\ maxPoseID <= maxPoseID'
<1> DEFINE n == maxPoseID - minPoseID
           idx == NumLandmarks + (p - minPoseID)
<1>1. /\ minPoseID \in Nat /\ maxPoseID \in Nat /\ n \in Nat /\ n <= MaxNumPoses + 1
      /\ NumLandmarks \in Nat /\ MaxNumPoses \in Nat /\ MaxNumPoses >= 2
  BY WindowAssumption DEF GuessInv
<1>2. p \in minPoseID..maxPoseID
  BY <1>1 DEF Poses!MayUse, Poses!Window
<1>3. /\ maxPoseID' = (IF p = maxPoseID THEN p + 1 ELSE maxPoseID)
      /\ currentGuess' = [i \in DOMAIN currentGuess \cup {idx} |->
                            IF i = idx THEN Poses!Pose(p) ELSE currentGuess[i]]
  BY DEF Poses!Use, Poses!PoseIdx, Poses!PoseIdxFrom
<1>4. currentGuess' = GuessOf(minPoseID, maxPoseID' - minPoseID)
  <2>1. currentGuess = GuessOf(minPoseID, n)
    BY DEF GuessInv
  <2>2. DOMAIN currentGuess \cup {idx} = 0..(NumLandmarks + (maxPoseID' - minPoseID) - 1)
    BY <1>1, <1>2, <1>3, <2>1 DEF GuessOf
  <2>3. ValueAt(minPoseID, idx) = Poses!Pose(p)
    BY <1>1, <1>2 DEF ValueAt
  <2>4. \A i \in DOMAIN currentGuess : currentGuess[i] = ValueAt(minPoseID, i)
    BY <2>1 DEF GuessOf
  <2> HIDE DEF idx
  <2> QED
    BY <1>3, <2>2, <2>3, <2>4 DEF GuessOf
<1>5. /\ maxPoseID' - minPoseID <= MaxNumPoses + 1
      /\ \/ DOMAIN solCov' = {} /\ maxPoseID' - minPoseID <= MaxNumPoses
         \/ \E k \in 0..MaxNumPoses : SolvedFirst(k)'
  <2>1. CASE p # maxPoseID
    BY <1>1, <1>3, <2>1 DEF GuessInv, SolvedFirst
  <2>2. CASE p = maxPoseID
    <3>1. n < MaxNumPoses \/ NumLandmarks + (maxPoseID - 1 - minPoseID) \in DOMAIN solCov
      BY <2>2, <1>1 DEF Poses!MayUse, Poses!Window, Poses!Room, Poses!PoseIdx, Poses!PoseIdxFrom
    <3>2. maxPoseID' - minPoseID = n + 1
      BY <1>1, <1>3, <2>2
    <3>3. CASE DOMAIN solCov = {}
      BY <1>1, <3>1, <3>2, <3>3
    <3>4. ASSUME NEW k \in 0..MaxNumPoses, SolvedFirst(k)
          PROVE  n <= MaxNumPoses /\ SolvedFirst(k)'
      <4>1. solCov = GuessOf(minPoseID, k) /\ k <= n
        BY <3>4 DEF SolvedFirst
      <4>2. DOMAIN solCov = 0..(NumLandmarks + k - 1)
        BY <4>1 DEF GuessOf
      <4>3. n < MaxNumPoses \/ n <= k
        BY <1>1, <3>1, <4>2
      <4> QED
        BY <1>1, <3>2, <4>1, <4>3 DEF SolvedFirst, n
    <3> QED
      BY <1>1, <3>2, <3>3, <3>4 DEF GuessInv
  <2> QED
    BY <2>1, <2>2
<1>6. /\ minPoseID' = minPoseID /\ maxPoseID' \in Nat
      /\ p \in minPoseID..(maxPoseID' - 1) /\ maxPoseID <= maxPoseID'
  BY <1>1, <1>2, <1>3
<1>7. minPoseID' \in Nat /\ minPoseID' <= maxPoseID'
  BY <1>1, <1>6
<1> HIDE DEF n, idx
<1> QED
  BY <1>4, <1>5, <1>6, <1>7 DEF GuessInv

\* Factors of a window act on the same values when the window grows.
LEMMA ActsOnGrows ==
  ASSUME NEW f, NEW first \in Nat, NEW n \in Nat, NEW m \in Nat, n <= m, ActsOn(f, first, n)
  PROVE  ActsOn(f, first, m)
<1>1. PoseIndices(n) \subseteq PoseIndices(m)
  BY WindowAssumption DEF PoseIndices
<1> QED
  BY <1>1 DEF ActsOn

\* A new factor that acts on what it should, and the sights it is one of, keep the invariant.
LEMMA AddKeepsFactors ==
  ASSUME GraphInv, NEW f, NEW F \in SUBSET factors, Poses!AddTo(F, f), f.id = factorCounter,
         maxPoseID' \in Nat, maxPoseID <= maxPoseID', minPoseID' = minPoseID,
         ActsOn(f, minPoseID, maxPoseID' - minPoseID),
         \/ /\ UNCHANGED landmarkFactorIDs
            /\ f.kind = "landmark" => f.from = Poses!None
         \/ /\ f.kind = "landmark" /\ f.from # Poses!None
            /\ landmarkFactorIDs' = [landmarkFactorIDs EXCEPT ![f.to] = factorCounter]
  PROVE  FactorsInv'
<1>1. /\ factorCounter \in Nat /\ factorCounter' = factorCounter + 1
      /\ factors' = F \cup {f} /\ minPoseID \in Nat /\ maxPoseID \in Nat /\ minPoseID <= maxPoseID
  BY DEF GraphInv, GuessInv, FactorsInv, Poses!AddTo
<1>2. ASSUME NEW g \in factors'
      PROVE  /\ ActsOn(g, minPoseID, maxPoseID' - minPoseID)
             /\ g.id \in Nat /\ g.id < factorCounter'
  <2>1. CASE g = f
    BY <1>1, <2>1
  <2>2. CASE g \in factors
    <3>1. ActsOn(g, minPoseID, maxPoseID - minPoseID) /\ g.id \in Nat /\ g.id < factorCounter
      BY <2>2 DEF GraphInv, FactorsInv
    <3> DEFINE n == maxPoseID - minPoseID
               m == maxPoseID' - minPoseID
    <3>2. n \in Nat /\ m \in Nat /\ n <= m
      <4>1. \A i, j, k \in Nat :
              i <= j /\ j <= k => j - i \in Nat /\ k - i \in Nat /\ j - i <= k - i
        OBVIOUS
      <4>2. minPoseID \in Nat /\ maxPoseID \in Nat /\ minPoseID <= maxPoseID
        BY <1>1
      <4> QED
        BY <4>1, <4>2
    <3>3. ActsOn(g, minPoseID, n)
      BY <3>1
    <3> HIDE DEF n, m
    <3>4. ActsOn(g, minPoseID, m)
      BY <1>1, <3>2, <3>3, ActsOnGrows, Zenon
    <3> QED
      BY <1>1, <3>1, <3>4 DEF m
  <2> QED
    BY <1>1, <2>1, <2>2
<1>3. /\ DOMAIN landmarkFactorIDs' = Poses!Landmarks
      /\ \A l \in Poses!Landmarks :
           /\ landmarkFactorIDs'[l] \in Int /\ landmarkFactorIDs'[l] < factorCounter'
           /\ landmarkFactorIDs'[l] = landmarkFactorIDs[l]
              \/ (/\ landmarkFactorIDs'[l] = factorCounter
                  /\ f.kind = "landmark" /\ f.to = l /\ f.from # Poses!None)
           /\ f.kind = "landmark" /\ f.to = l /\ f.from # Poses!None =>
                landmarkFactorIDs'[l] = factorCounter
  BY <1>1 DEF GraphInv, FactorsInv
<1>4. Poses!SightsAreReplaced'
  <2> SUFFICES ASSUME NEW g \in factors', NEW l \in Poses!Landmarks
      PROVE  /\ g.kind = "landmark" /\ g.to = l /\ g.from # Poses!None =>
                  g.id <= landmarkFactorIDs'[l]
             /\ g.id = landmarkFactorIDs'[l] =>
                  g.kind = "landmark" /\ g.to = l /\ g.from # Poses!None
    BY DEF Poses!SightsAreReplaced, Poses!Landmarks, Poses!None
  <2>1. CASE g = f
    BY <1>1, <1>3, <2>1 DEF GraphInv, FactorsInv
  <2>2. CASE g \in factors
    <3>1. g.id \in Nat /\ g.id < factorCounter
      BY <2>2 DEF GraphInv, FactorsInv
    <3> QED
      BY <1>1, <1>3, <2>2, <3>1 DEF GraphInv, FactorsInv, Poses!SightsAreReplaced
  <2> QED
    BY <1>1, <2>1, <2>2
<1>5. \A g \in factors' : /\ ActsOn(g, minPoseID', maxPoseID' - minPoseID')
                           /\ g.id \in Nat /\ g.id < factorCounter'
  BY <1>1, <1>2
<1>6. factorCounter' \in Nat
  BY <1>1
<1> QED
  BY <1>3, <1>4, <1>5, <1>6 DEF FactorsInv, Poses!Landmarks

\* A factor that is kept acts on the values it acted on, at their new indices.
LEMMA ShiftedActs ==
  ASSUME NEW f, NEW first \in Nat, NEW n \in Nat, ActsOn(f, first, n), Poses!Kept(f)
  PROVE  /\ ActsOn(Poses!Shifted(f), first + 1, n - 1)
         /\ Poses!Shifted(f).id = f.id /\ Poses!Shifted(f).kind = f.kind
         /\ f.kind = "landmark" => Poses!Shifted(f).to = f.to
         /\ Poses!Shifted(f).from = Poses!None <=> f.from = Poses!None
<1> DEFINE to == IF f.kind = "odom" THEN f.to - 1 ELSE f.to
           from == IF f.from >= 0 THEN f.from - 1 ELSE f.from
<1>1. NumLandmarks \in Nat
  BY WindowAssumption
<1>2. f = [id |-> f.id, kind |-> f.kind, to |-> f.to, from |-> f.from, on |-> f.on, by |-> f.by]
  BY DEF ActsOn
<1>3. Poses!Shifted(f) =
        [id |-> f.id, kind |-> f.kind, to |-> to, from |-> from, on |-> f.on, by |-> f.by]
  <2>1. Poses!Shifted(f) = [f EXCEPT !.to = to, !.from = from]
    BY Zenon DEF Poses!Shifted
  <2> HIDE DEF to, from
  <2> QED
    BY <1>2, <2>1
<1>4. /\ \/ f.kind = "odom" /\ to \in PoseIndices(n - 1)
         \/ f.kind = "landmark" /\ to \in Poses!Landmarks
      /\ f.on = ValueAt(first + 1, to)
  <2>1. CASE f.kind = "odom"
    <3>1. f.to \in PoseIndices(n) /\ f.to - 1 >= NumLandmarks /\ f.on = ValueAt(first, f.to)
      BY <2>1 DEF ActsOn, Poses!Kept
    <3>2. f.to - 1 \in PoseIndices(n - 1)
      BY <1>1, <3>1 DEF PoseIndices
    <3>3. ValueAt(first + 1, f.to - 1) = ValueAt(first, f.to)
      <4>1. f.to \in Int /\ first + (f.to - NumLandmarks) = first + 1 + (f.to - 1 - NumLandmarks)
        BY <1>1, <3>1 DEF PoseIndices
      <4> QED
        BY <1>1, <3>1, <4>1 DEF ValueAt
    <3> QED
      BY <2>1, <3>1, <3>2, <3>3
  <2>2. CASE f.kind = "landmark"
    BY <1>1, <2>2 DEF ActsOn, ValueAt, Poses!Landmarks
  <2> QED
    BY <2>1, <2>2 DEF ActsOn
<1>5. \/ f.from = Poses!None /\ from = Poses!None /\ f.by = f.on
      \/ /\ f.from \in PoseIndices(n) /\ from \in PoseIndices(n - 1)
         /\ f.by = ValueAt(first + 1, from)
  <2>1. CASE f.from = Poses!None /\ f.by = f.on
    BY <2>1 DEF Poses!None
  <2>2. CASE f.from \in PoseIndices(n) /\ f.by = ValueAt(first, f.from)
    <3>1. f.from >= 0 /\ f.from \in Int /\ from = f.from - 1 /\ from >= NumLandmarks
      BY <1>1, <2>2 DEF PoseIndices, Poses!Kept
    <3>2. from \in PoseIndices(n - 1)
      BY <1>1, <2>2, <3>1 DEF PoseIndices
    <3>3. ValueAt(first + 1, from) = ValueAt(first, f.from)
      <4>1. first + (f.from - NumLandmarks) = first + 1 + (f.from - 1 - NumLandmarks)
        BY <1>1, <3>1
      <4> QED
        BY <1>1, <3>1, <4>1 DEF ValueAt
    <3> QED
      BY <2>2, <3>2, <3>3
  <2> QED
    BY <2>1, <2>2 DEF ActsOn
<1> HIDE DEF to, from
<1>6. f.kind = "landmark" => to = f.to
  BY DEF to
<1>7. from = Poses!None <=> f.from = Poses!None
  BY <1>1, <1>5 DEF PoseIndices, Poses!None
<1> QED
  BY <1>3, <1>4, <1>5, <1>6, <1>7 DEF ActsOn

\* The values move down by one pose.
LEMMA TrimmedIsGuess ==
  ASSUME GraphInv, maxPoseID - minPoseID >= 1
  PROVE  Poses!TrimmedGuess = GuessOf(minPoseID + 1, maxPoseID - (minPoseID + 1))
<1> DEFINE n == maxPoseID - minPoseID
           most == NumLandmarks + (maxPoseID - (minPoseID + 1)) - 1
<1>1. /\ minPoseID \in Nat /\ maxPoseID \in Nat /\ NumLandmarks \in Nat
      /\ currentGuess = GuessOf(minPoseID, n)
  BY WindowAssumption DEF GraphInv, GuessInv
<1>2. ASSUME NEW i \in 0..most
      PROVE  currentGuess[IF i < NumLandmarks THEN i ELSE i + 1] = ValueAt(minPoseID + 1, i)
  <2>1. CASE i < NumLandmarks
    <3>1. i \in 0..(NumLandmarks + n - 1)
      BY <1>1, <1>2, <2>1
    <3> QED
      BY <1>1, <2>1, <3>1 DEF GuessOf, ValueAt
  <2>2. CASE i >= NumLandmarks
    <3>1. i + 1 \in 0..(NumLandmarks + n - 1) /\ ~(i < NumLandmarks) /\ ~(i + 1 < NumLandmarks)
      BY <1>1, <1>2, <2>2
    <3>2. minPoseID + (i + 1 - NumLandmarks) = minPoseID + 1 + (i - NumLandmarks)
      BY <1>1
    <3> QED
      BY <1>1, <3>1, <3>2 DEF GuessOf, ValueAt
  <2> QED
    BY <1>1, <1>2, <2>1, <2>2
<1>3. Poses!TrimmedGuess =
        [i \in 0..most |-> currentGuess[IF i < NumLandmarks THEN i ELSE i + 1]]
  <2>1. Poses!PoseIdxFrom(minPoseID + 1, maxPoseID) - 1 = most
    BY <1>1 DEF Poses!PoseIdxFrom
  <2>2. Poses!TrimmedGuess =
          [i \in 0..(Poses!PoseIdxFrom(minPoseID + 1, maxPoseID) - 1) |->
             currentGuess[IF i < NumLandmarks THEN i ELSE i + 1]]
    BY DEF Poses!TrimmedGuess
  <2> QED
    BY <2>1, <2>2
<1>4. GuessOf(minPoseID + 1, maxPoseID - (minPoseID + 1)) =
        [i \in 0..most |-> ValueAt(minPoseID + 1, i)]
  BY DEF GuessOf
<1> HIDE DEF most
<1> QED
  BY <1>2, <1>3, <1>4, Zenon

\* What a factor of a pose of the window acts on.
LEMMA PoseIdxActs ==
  ASSUME NEW first \in Nat, NEW m \in Nat, NEW p \in first..(m - 1)
  PROVE  /\ Poses!PoseIdxFrom(first, p) \in PoseIndices(m - first)
         /\ Poses!PoseIdxFrom(first, p) >= 0
         /\ ValueAt(first, Poses!PoseIdxFrom(first, p)) = Poses!Pose(p)
<1>1. /\ NumLandmarks \in Nat /\ p \in Nat /\ first <= p /\ p < m
  BY WindowAssumption
<1> DEFINE i == NumLandmarks + (p - first)
<1>2. i \in Nat /\ i >= NumLandmarks /\ i <= NumLandmarks + (m - first) - 1
  BY <1>1
<1>3. first + (i - NumLandmarks) = p
  BY <1>1
<1>4. i = Poses!PoseIdxFrom(first, p)
  BY DEF Poses!PoseIdxFrom
<1>5. i \in PoseIndices(m - first)
  BY <1>1, <1>2 DEF PoseIndices
<1> HIDE DEF i
<1>6. ValueAt(first, i) = Poses!Pose(p)
  BY <1>1, <1>2, <1>3 DEF ValueAt
<1> QED
  BY <1>2, <1>4, <1>5, <1>6

LEMMA NewFactorActs ==
  ASSUME NEW first \in Nat, NEW m \in Nat, NEW p \in first..(m - 1)
  PROVE  /\ ActsOn(Poses!Factor("odom", Poses!PoseIdxFrom(first, p), Poses!None,
                               Poses!Pose(p), Poses!Pose(p)), first, m - first)
         /\ \A p1 \in first..(m - 1) :
              ActsOn(Poses!Factor("odom", Poses!PoseIdxFrom(first, p), Poses!PoseIdxFrom(first, p1),
                                  Poses!Pose(p), Poses!Pose(p1)), first, m - first)
         /\ \A l \in Poses!Landmarks :
              ActsOn(Poses!Factor("landmark", l, Poses!PoseIdxFrom(first, p),
                                  Poses!Lm(l), Poses!Pose(p)), first, m - first)
<1>1. \A q \in first..(m - 1) :
        /\ Poses!PoseIdxFrom(first, q) \in PoseIndices(m - first)
        /\ ValueAt(first, Poses!PoseIdxFrom(first, q)) = Poses!Pose(q)
  BY PoseIdxActs
<1>2. \A l \in Poses!Landmarks : ValueAt(first, l) = Poses!Lm(l)
  BY WindowAssumption DEF Poses!Landmarks, ValueAt
<1> QED
  BY <1>1, <1>2 DEF ActsOn, Poses!Factor

\* A solution has the values of the whole window, which is trimmed if it is too long.
LEMMA SolveKeeps ==
  ASSUME GraphInv, Poses!Solve
  PROVE  GraphInv'
<1> DEFINE n == maxPoseID - minPoseID
<1>1. /\ minPoseID \in Nat /\ maxPoseID \in Nat /\ minPoseID <= maxPoseID
      /\ NumLandmarks \in Nat /\ MaxNumPoses \in Nat /\ MaxNumPoses >= 2
      /\ n \in Nat /\ n <= MaxNumPoses + 1 /\ factorCounter \in Nat
      /\ currentGuess = GuessOf(minPoseID, n)
      /\ solCov' = currentGuess' /\ maxPoseID' = maxPoseID
      /\ landmarkFactorIDs' = landmarkFactorIDs
  BY WindowAssumption DEF GraphInv, GuessInv, FactorsInv, Poses!Solve
<1>2. CASE n <= MaxNumPoses
  <2>1. UNCHANGED <<minPoseID, currentGuess, factors, factorCounter>>
    BY <1>1, <1>2 DEF Poses!Solve, Poses!Solve_Trim, Poses!graph
  <2>2. n \in 0..MaxNumPoses /\ SolvedFirst(n)'
    BY <1>1, <1>2, <2>1 DEF SolvedFirst
  <2>3. GuessInv'
    <3> HIDE DEF n
    <3> QED
      BY <1>1, <1>2, <2>1, <2>2 DEF GuessInv, GraphInv, n
  <2>4. FactorsInv'
    BY <1>1, <2>1
       DEF FactorsInv, GraphInv, Poses!SightsAreReplaced, Poses!Landmarks, Poses!None
  <2> QED
    BY <2>3, <2>4 DEF GraphInv
<1>3. CASE n > MaxNumPoses
  <2> DEFINE low == minPoseID + 1
             cov == solCov[Poses!PoseIdx(low)]
             prior == [id |-> factorCounter, kind |-> "odom", to |-> NumLandmarks,
                       from |-> Poses!None, on |-> Poses!Pose(low), by |-> cov]
             Keep == {g \in factors : Poses!Kept(g)}
  <2>1. n = MaxNumPoses + 1
    BY <1>1, <1>3
  <2>2. cov = Poses!Pose(low)
    <3>1. PICK k \in 0..MaxNumPoses : SolvedFirst(k)
      BY <1>1, <1>3 DEF GraphInv, GuessInv
    <3>2. k = MaxNumPoses /\ solCov = GuessOf(minPoseID, k)
      BY <1>1, <1>3, <2>1, <3>1 DEF SolvedFirst
    <3>3. Poses!PoseIdx(low) = NumLandmarks + 1
      BY <1>1 DEF Poses!PoseIdx, Poses!PoseIdxFrom
    <3>4. NumLandmarks + 1 \in 0..(NumLandmarks + k - 1)
      BY <1>1, <3>2
    <3>5. ValueAt(minPoseID, NumLandmarks + 1) = Poses!Pose(low)
      BY <1>1 DEF ValueAt
    <3> QED
      BY <3>2, <3>3, <3>4, <3>5 DEF GuessOf
  <2>3. /\ minPoseID' = low /\ currentGuess' = Poses!TrimmedGuess
        /\ factors' = {Poses!Shifted(f) : f \in Keep} \cup {prior}
        /\ factorCounter' = factorCounter + 1
    <3>1. Poses!Solve_Trim
      BY <1>1, <1>3 DEF Poses!Solve
    <3>2. [Poses!Factor("odom", NumLandmarks, Poses!None, Poses!Pose(low), Poses!Pose(low))
             EXCEPT !.by = cov] = prior
      BY DEF Poses!Factor
    <3> QED
      BY <3>1, <3>2 DEF Poses!Solve_Trim, Poses!AddTo
  <2>4. currentGuess' = GuessOf(low, n - 1)
    <3>1. maxPoseID - (minPoseID + 1) = n - 1 /\ n >= 1
      BY <1>1, <2>1
    <3> QED
      BY <2>3, <3>1, TrimmedIsGuess
  <2>5. n - 1 = MaxNumPoses /\ low \in Nat /\ maxPoseID' - minPoseID' = n - 1
        /\ low <= maxPoseID'
    BY <1>1, <2>1, <2>3
  <2>6. GuessInv'
    <3>1. MaxNumPoses \in 0..MaxNumPoses /\ SolvedFirst(MaxNumPoses)'
      BY <1>1, <2>1, <2>3, <2>4, <2>5 DEF SolvedFirst
    <3> HIDE DEF n, low
    <3> QED
      BY <1>1, <2>3, <2>4, <2>5, <3>1 DEF GuessInv
  <2>7. ActsOn(prior, low, n - 1) /\ prior.id = factorCounter /\ prior.kind = "odom"
    <3>1. ValueAt(low, NumLandmarks) = Poses!Pose(low)
      BY <1>1 DEF ValueAt
    <3>2. NumLandmarks \in PoseIndices(n - 1)
      BY <1>1, <2>5 DEF PoseIndices
    <3> HIDE DEF n, low, cov
    <3> QED
      BY <2>2, <3>1, <3>2 DEF ActsOn
  <2>8. ASSUME NEW f \in Keep
        PROVE  /\ f \in factors /\ f.id \in Nat /\ f.id < factorCounter
               /\ ActsOn(Poses!Shifted(f), low, n - 1)
               /\ Poses!Shifted(f).id = f.id /\ Poses!Shifted(f).kind = f.kind
               /\ f.kind = "landmark" => Poses!Shifted(f).to = f.to
               /\ Poses!Shifted(f).from = Poses!None <=> f.from = Poses!None
    <3>1. f \in factors /\ Poses!Kept(f)
      OBVIOUS
    <3>2. ActsOn(f, minPoseID, n) /\ f.id \in Nat /\ f.id < factorCounter
      BY <3>1 DEF GraphInv, FactorsInv
    <3> HIDE DEF n
    <3> QED
      BY <1>1, <3>1, <3>2, ShiftedActs
  <2>9. FactorsInv'
    <3> HIDE DEF n, low, prior, Keep, cov
    <3>1. \A g \in factors' : ActsOn(g, minPoseID', maxPoseID' - minPoseID')
                              /\ g.id \in Nat /\ g.id < factorCounter'
      BY <1>1, <2>3, <2>5, <2>7, <2>8
    <3>2. \A l \in Poses!Landmarks : landmarkFactorIDs'[l] \in Int
                                     /\ landmarkFactorIDs'[l] < factorCounter
      BY <1>1 DEF GraphInv, FactorsInv
    <3>3. \A g \in factors', l \in Poses!Landmarks :
            /\ g.kind = "landmark" /\ g.to = l /\ g.from # Poses!None =>
                 g.id <= landmarkFactorIDs'[l]
            /\ g.id = landmarkFactorIDs'[l] =>
                 g.kind = "landmark" /\ g.to = l /\ g.from # Poses!None
      <4> TAKE g \in factors', l \in Poses!Landmarks
      <4>1. CASE g = prior
        BY <1>1, <2>7, <3>2, <4>1
      <4>2. ASSUME NEW f \in Keep, g = Poses!Shifted(f)
            PROVE  /\ g.kind = "landmark" /\ g.to = l /\ g.from # Poses!None =>
                        g.id <= landmarkFactorIDs'[l]
                   /\ g.id = landmarkFactorIDs'[l] =>
                        g.kind = "landmark" /\ g.to = l /\ g.from # Poses!None
        BY <1>1, <2>8, <4>2 DEF GraphInv, FactorsInv, Poses!SightsAreReplaced
      <4> QED
        BY <2>3, <4>1, <4>2
    <3>4. Poses!SightsAreReplaced'
      BY <3>3 DEF Poses!SightsAreReplaced, Poses!Landmarks, Poses!None
    <3>5. factorCounter' \in Nat /\ factorCounter < factorCounter'
      BY <1>1, <2>3
    <3>6. DOMAIN landmarkFactorIDs' = Poses!Landmarks
      BY <1>1 DEF GraphInv, FactorsInv
    <3>7. \A l \in Poses!Landmarks : landmarkFactorIDs'[l] \in Int
                                     /\ landmarkFactorIDs'[l] < factorCounter'
      BY <1>1, <3>2, <3>5
    <3> QED
      BY <3>1, <3>4, <3>5, <3>6, <3>7 DEF FactorsInv, Poses!Landmarks
  <2> QED
    BY <2>6, <2>9 DEF GraphInv
<1> QED
  BY <1>1, <1>2, <1>3

LEMMA GraphStep == GraphInv /\ [Poses!Next]_graphVars => GraphInv'
<1> SUFFICES ASSUME GraphInv, [Poses!Next]_graphVars PROVE GraphInv'
  OBVIOUS
<1> DEFINE n == maxPoseID - minPoseID
<1>1. /\ minPoseID \in Nat /\ maxPoseID \in Nat /\ minPoseID <= maxPoseID
      /\ NumLandmarks \in Nat /\ MaxNumPoses \in Nat /\ MaxNumPoses >= 2
  BY WindowAssumption DEF GraphInv, GuessInv
<1>2. CASE UNCHANGED graphVars
  BY <1>2
     DEF graphVars, GraphInv, GuessInv, FactorsInv, SolvedFirst, Poses!SightsAreReplaced,
         Poses!Landmarks, Poses!None
<1>3. ASSUME NEW p \in 0..maxPoseID, Poses!AddPosePrior(p) PROVE GraphInv'
  <2> DEFINE f == Poses!Factor("odom", Poses!PoseIdx(p), Poses!None, Poses!Pose(p), Poses!Pose(p))
  <2>1. /\ Poses!MayUse(p) /\ Poses!Use(p, Poses!Pose(p)) /\ Poses!AddTo(factors, f)
        /\ UNCHANGED <<minPoseID, solCov, landmarkFactorIDs>>
    BY <1>3 DEF Poses!AddPosePrior
  <2>2. p \in Nat
    BY <1>1
  <2>3. /\ p \in minPoseID..(maxPoseID' - 1)
        /\ GuessInv' /\ maxPoseID <= maxPoseID'
    BY <2>1, <2>2, UseKeepsGuess DEF GraphInv
  <2>4. ActsOn(f, minPoseID, maxPoseID' - minPoseID)
    BY <1>1, <2>3, NewFactorActs DEF Poses!PoseIdx, GuessInv
  <2>5. f.id = factorCounter /\ f.kind # "landmark"
    BY DEF Poses!Factor
  <2> HIDE DEF f
  <2>6. FactorsInv'
    BY <2>1, <2>3, <2>4, <2>5, AddKeepsFactors DEF GuessInv
  <2> QED
    BY <2>3, <2>6 DEF GraphInv
<1>4. ASSUME NEW p \in 0..maxPoseID, Poses!AddGPSMeasurement(p) PROVE GraphInv'
  <2> DEFINE f == Poses!Factor("odom", Poses!PoseIdx(p), Poses!None, Poses!Pose(p), Poses!Pose(p))
  <2>1. /\ p \in minPoseID..(maxPoseID - 1) /\ Poses!AddTo(factors, f)
        /\ UNCHANGED <<minPoseID, maxPoseID, currentGuess, solCov, landmarkFactorIDs>>
    BY <1>4 DEF Poses!AddGPSMeasurement, Poses!Window, Poses!ids
  <2>2. ActsOn(f, minPoseID, maxPoseID' - minPoseID)
    BY <1>1, <2>1, NewFactorActs DEF Poses!PoseIdx, GuessInv
  <2>3. f.id = factorCounter /\ f.kind # "landmark"
    BY DEF Poses!Factor
  <2> HIDE DEF f
  <2> QED
    BY <1>1, <2>1, <2>2, <2>3, AddKeepsFactors DEF GraphInv, GuessInv, SolvedFirst
<1>5. ASSUME NEW p \in 0..maxPoseID, NEW p1 \in Poses!Window, Poses!AddOdomMeasurement(p, p1)
      PROVE  GraphInv'
  <2> DEFINE f == Poses!Factor("odom", Poses!PoseIdx(p), Poses!PoseIdx(p1), Poses!Pose(p),
                               Poses!Pose(p1))
  <2>1. /\ Poses!MayUse(p) /\ Poses!Use(p, Poses!Pose(p)) /\ Poses!AddTo(factors, f)
        /\ UNCHANGED <<minPoseID, solCov, landmarkFactorIDs>>
    BY <1>5 DEF Poses!AddOdomMeasurement
  <2>2. p \in Nat /\ p1 \in minPoseID..(maxPoseID - 1)
    BY <1>1 DEF Poses!Window
  <2>3. /\ p \in minPoseID..(maxPoseID' - 1)
        /\ GuessInv' /\ maxPoseID <= maxPoseID'
    BY <2>1, <2>2, UseKeepsGuess DEF GraphInv
  <2>4. ActsOn(f, minPoseID, maxPoseID' - minPoseID)
    <3>1. maxPoseID' \in Nat
      BY <2>3 DEF GuessInv
    <3>2. p1 \in minPoseID..(maxPoseID' - 1)
      <4>1. \A i, j, k \in Nat : j <= k => i..(j - 1) \subseteq i..(k - 1)
        OBVIOUS
      <4>2. minPoseID..(maxPoseID - 1) \subseteq minPoseID..(maxPoseID' - 1)
        BY <1>1, <2>3, <3>1, <4>1, Zenon
      <4> QED
        BY <2>2, <4>2
    <3> QED
      <4> DEFINE m == maxPoseID'
      <4>1. minPoseID \in Nat /\ m \in Nat /\ p \in minPoseID..(m - 1) /\ p1 \in minPoseID..(m - 1)
        BY <1>1, <2>3, <3>1, <3>2
      <4> HIDE DEF m
      <4>2. ActsOn(Poses!Factor("odom", Poses!PoseIdxFrom(minPoseID, p),
                                Poses!PoseIdxFrom(minPoseID, p1),
                                Poses!Pose(p), Poses!Pose(p1)), minPoseID, m - minPoseID)
        BY <4>1, NewFactorActs
      <4> QED
        BY <4>2 DEF m, Poses!PoseIdx
  <2>5. f.id = factorCounter /\ f.kind # "landmark"
    BY DEF Poses!Factor
  <2> HIDE DEF f
  <2>6. FactorsInv'
    BY <2>1, <2>3, <2>4, <2>5, AddKeepsFactors DEF GuessInv
  <2> QED
    BY <2>3, <2>6 DEF GraphInv
<1>6. ASSUME NEW l \in Poses!Landmarks, Poses!AddLandmarkPrior(l) PROVE GraphInv'
  <2> DEFINE f == Poses!Factor("landmark", l, Poses!None, Poses!Lm(l), Poses!Lm(l))
  <2>1. /\ Poses!AddTo(factors, f)
        /\ UNCHANGED <<minPoseID, maxPoseID, currentGuess, solCov, landmarkFactorIDs>>
    BY <1>6 DEF Poses!AddLandmarkPrior, Poses!ids
  <2>2. ActsOn(f, minPoseID, maxPoseID' - minPoseID)
    BY <1>1 DEF ActsOn, ValueAt, Poses!Factor, Poses!Landmarks
  <2>3. f.id = factorCounter /\ f.from = Poses!None
    BY DEF Poses!Factor
  <2> HIDE DEF f
  <2> QED
    BY <1>1, <2>1, <2>2, <2>3, AddKeepsFactors DEF GraphInv, GuessInv, SolvedFirst
<1>7. ASSUME NEW l \in Poses!Landmarks, NEW p \in Poses!Window, NEW b \in BOOLEAN,
             Poses!AddLandmarkMeasurement(p, l, b)
      PROVE  GraphInv'
  <2> DEFINE f == Poses!Factor("landmark", l, Poses!PoseIdx(p), Poses!Lm(l), Poses!Pose(p))
             F == factors \ {g \in factors : b /\ g.id = landmarkFactorIDs[l]}
  <2>1. /\ Poses!AddTo(F, f)
        /\ landmarkFactorIDs' = [landmarkFactorIDs EXCEPT ![l] = factorCounter]
        /\ UNCHANGED <<minPoseID, maxPoseID, currentGuess, solCov>>
    BY <1>7 DEF Poses!AddLandmarkMeasurement, Poses!ids
  <2>2. p \in minPoseID..(maxPoseID - 1)
    BY DEF Poses!Window
  <2>3. ActsOn(f, minPoseID, maxPoseID' - minPoseID)
    BY <1>1, <2>1, <2>2, NewFactorActs DEF Poses!PoseIdx, GuessInv
  <2>4. f.id = factorCounter /\ f.kind = "landmark" /\ f.to = l /\ f.from # Poses!None
    BY <1>1, <2>2 DEF Poses!Factor, Poses!PoseIdx, Poses!PoseIdxFrom, Poses!None
  <2>5. F \in SUBSET factors
    OBVIOUS
  <2> HIDE DEF f, F
  <2>6. landmarkFactorIDs' = [landmarkFactorIDs EXCEPT ![f.to] = factorCounter]
    BY <2>1, <2>4
  <2>7. FactorsInv'
    <3>1. maxPoseID' \in Nat /\ maxPoseID <= maxPoseID' /\ minPoseID' = minPoseID
      BY <1>1, <2>1
    <3>2. GraphInv /\ f.id = factorCounter /\ f.kind = "landmark" /\ f.from # Poses!None
      BY <2>4
    <3>3. Poses!AddTo(F, f) /\ F \in SUBSET factors
      BY <2>1, <2>5
    <3> QED
      BY <2>3, <2>6, <3>1, <3>2, <3>3, AddKeepsFactors
  <2>8. GuessInv'
    BY <1>1, <2>1 DEF GraphInv, GuessInv, SolvedFirst
  <2> QED
    BY <2>7, <2>8 DEF GraphInv
<1>8. CASE Poses!Solve
  BY <1>8, SolveKeeps
<1> QED
  BY <1>2, <1>3, <1>4, <1>5, <1>6, <1>7, <1>8 DEF Poses!Next

LEMMA GraphHolds ==
  GraphInv => Poses!FactorsFollowPoses /\ Poses!TrajectoryInOrder /\ Poses!SightsAreReplaced
<1> SUFFICES ASSUME GraphInv PROVE Poses!FactorsFollowPoses /\ Poses!TrajectoryInOrder
  BY DEF GraphInv, FactorsInv
<1> DEFINE n == maxPoseID - minPoseID
<1>1. /\ minPoseID \in Nat /\ maxPoseID \in Nat /\ minPoseID <= maxPoseID
      /\ NumLandmarks \in Nat /\ MaxNumPoses \in Nat /\ n \in Nat
      /\ currentGuess = GuessOf(minPoseID, n)
  BY WindowAssumption DEF GraphInv, GuessInv
<1>2. Poses!FactorsFollowPoses
  <2> SUFFICES ASSUME NEW f \in factors
      PROVE  /\ currentGuess[f.to] = f.on
             /\ f.from # Poses!None => currentGuess[f.from] = f.by
             /\ f.from = Poses!None => f.by = f.on
    BY DEF Poses!FactorsFollowPoses, Poses!None
  <2>1. ActsOn(f, minPoseID, n)
    BY DEF GraphInv, FactorsInv
  <2>2. \A i \in PoseIndices(n) \cup Poses!Landmarks :
          /\ i # Poses!None
          /\ currentGuess[i] = ValueAt(minPoseID, i)
    BY <1>1 DEF GuessOf, PoseIndices, Poses!Landmarks, Poses!None
  <2> HIDE DEF n
  <2> QED
    BY <2>1, <2>2 DEF ActsOn
<1>3. Poses!TrajectoryInOrder
  <2>1. \A p \in Poses!Window :
          /\ Poses!PoseIdx(p) \in PoseIndices(n)
          /\ currentGuess[Poses!PoseIdx(p)] = Poses!Pose(p)
    <3> TAKE p \in Poses!Window
    <3>1. /\ p \in minPoseID..(maxPoseID - 1)
          /\ Poses!PoseIdx(p) = Poses!PoseIdxFrom(minPoseID, p)
      BY DEF Poses!Window, Poses!PoseIdx
    <3>2. /\ Poses!PoseIdx(p) \in PoseIndices(n)
          /\ ValueAt(minPoseID, Poses!PoseIdx(p)) = Poses!Pose(p)
      BY <1>1, <3>1, PoseIdxActs
    <3>3. PoseIndices(n) \subseteq 0..(NumLandmarks + n - 1)
      BY <1>1 DEF PoseIndices
    <3> HIDE DEF n
    <3> QED
      BY <1>1, <3>2, <3>3 DEF GuessOf
  <2>2. DOMAIN currentGuess = Poses!Landmarks \cup {Poses!PoseIdx(p) : p \in Poses!Window}
    <3>1. DOMAIN currentGuess = 0..(NumLandmarks + n - 1)
      BY <1>1 DEF GuessOf
    <3>2. Poses!Landmarks \cup {Poses!PoseIdx(p) : p \in Poses!Window}
            \subseteq 0..(NumLandmarks + n - 1)
      BY <1>1, <2>1 DEF Poses!Landmarks, PoseIndices
    <3>3. ASSUME NEW i \in 0..(NumLandmarks + n - 1), i \notin Poses!Landmarks
          PROVE  \E p \in Poses!Window : i = Poses!PoseIdx(p)
      <4> DEFINE p == minPoseID + (i - NumLandmarks)
      <4>1. p \in Poses!Window
        BY <1>1, <3>3 DEF Poses!Window, Poses!Landmarks
      <4>2. i = Poses!PoseIdx(p)
        BY <1>1 DEF Poses!PoseIdx, Poses!PoseIdxFrom
      <4> QED
        BY <4>1, <4>2
    <3> QED
      BY <3>1, <3>2, <3>3
  <2>3. ASSUME solCov = currentGuess PROVE n <= MaxNumPoses
    <3> SUFFICES ASSUME NEW k \in 0..MaxNumPoses, SolvedFirst(k), n > MaxNumPoses PROVE FALSE
      BY <1>1 DEF GraphInv, GuessInv
    <3>1. DOMAIN solCov = 0..(NumLandmarks + k - 1)
      BY DEF SolvedFirst, GuessOf
    <3>2. DOMAIN currentGuess = 0..(NumLandmarks + n - 1)
      BY <1>1 DEF GuessOf
    <3>3. NumLandmarks + n - 1 \in 0..(NumLandmarks + k - 1)
      <4>1. NumLandmarks + n - 1 \in 0..(NumLandmarks + n - 1)
        BY <1>1
      <4> QED
        BY <2>3, <3>1, <3>2, <4>1
    <3> QED
      BY <1>1, <3>3
  <2> QED
    BY <2>1, <2>2, <2>3 DEF Poses!TrajectoryInOrder
<1> QED
  BY <1>2, <1>3

\* friendly_graph.cpp, graph.cpp: for any landmarks and any window of two poses or more, a
\* factor acts on the values of what it was added for however often the window was trimmed
\* since, the trajectory is that of the window's poses in order, and a sight that overwrites
\* takes the place of the landmark's last one and of no other factor.
THEOREM GraphFollowsWindowAlways == MissionSpec => []GraphFollowsWindow
<1>1. MissionInit => GraphInv
  BY GraphInit DEF MissionInit
<1>2. GraphInv /\ [MissionNext]_missionVars => GraphInv'
  <2>1. [MissionNext]_missionVars => [Poses!Next]_graphVars
    BY DEF MissionNext, missionVars, graphVars
  <2> QED
    BY <2>1, GraphStep
<1>3. GraphInv => GraphFollowsWindow
  BY GraphHolds DEF GraphFollowsWindow
<1> QED
  BY <1>1, <1>2, <1>3, PTL DEF MissionSpec

(***************************************************************************)
(* Board tools: what is still to be sent, by program and step.             *)
(***************************************************************************)
Registers == {"mode", "stop", "target", "duty", "P", "I", "D", "encoder", "ppjr", "pot hi",
              "pot lo", "limit lo", "limit hi", "timing", "servo"}
Packets == [to : SUBSET Serials, register : Registers, value : Int]
Boards == [mode : Int, target : Int, duty : Int, known : SUBSET Registers]
NoTargets == \A s \in Serials : board[s].target = Tools!NoTarget
\* No call is for a register.
NoneFor(register) == \A i \in 1..Len(calls) : calls[i].register # register
ModeCall(s, m) == [to |-> {s}, register |-> "mode", value |-> m]
DutyCall(s, duty) == [to |-> {s}, register |-> "duty", value |-> duty]

ToolsTyped ==
  /\ calls \in Seq(Packets) /\ board \in [Serials -> Boards]
  /\ lost \in Nat /\ serial \in Serials
  /\ program \in {"FakeCANBoard", "CANTest", "TunePID"}
  /\ velEvent # "none" \/ step \in {"velocity", "over", "stopping"} =>
       program = "FakeCANBoard" /\ test = Tools!Tests.PIDVel
  /\ step \in {"wait", "tune", "thrown"} => program = "TunePID"
\* Power is only ever taken from a board that TunePID tunes; at the end its mode is too.
TuneInv ==
  program = "TunePID" =>
    /\ test = -1 /\ step \in {"start", "wait", "tune", "thrown", "done", "interrupted"}
    /\ step \in {"start", "wait", "tune"} => mode # Tools!Pwm
    /\ \A s \in Serials : board[s].duty = 0
    /\ \A i \in 1..Len(calls) : calls[i].register = "duty" => calls[i].value = 0
    /\ step \in {"start", "wait", "thrown"} => NoTargets /\ NoneFor("target")
    /\ asked # Tools!NoTarget => asked \in -Amplitude..Amplitude
    /\ lost = 0 /\ step = "done" =>
         \/ calls = <<ModeCall(serial, Tools!Pwm), DutyCall(serial, 0)>>
         \/ board[serial].mode = Tools!Pwm /\ calls \in {<<DutyCall(serial, 0)>>, <<>>}
    /\ lost = 0 /\ step = "interrupted" =>
         \/ calls = Tools!EmergencyStopMotors
         \/ calls = <<>> /\ \A s \in Serials : board[s].mode = Tools!Reset
\* CANTest has one mode and one power to send.
TestInv ==
  program = "CANTest" =>
    /\ step \in {"start", "done"} /\ NoTargets /\ NoneFor("target")
    /\ step = "start" => asked = Tools!NoTarget
    /\ asked \in {Tools!NoTarget, 10000}
    /\ lost = 0 /\ step = "done" /\ asked # Tools!NoTarget =>
         \/ calls = <<ModeCall(10, Tools!Pwm), DutyCall(10, 10000)>>
         \/ board[10].mode = Tools!Pwm /\ calls = <<DutyCall(10, 10000)>>
         \/ board[10].mode = Tools!Pwm /\ board[10].duty = 10000 /\ calls = <<>>
\* The PID test sets a mode first, before any board has a target.
FakeInv ==
  program = "FakeCANBoard" =>
    /\ step = "start" => test = -1 /\ ~begun /\ calls = <<>> /\ NoTargets
    /\ test = Tools!Tests.PID =>
         /\ step = "test"
         /\ ~begun => calls = <<>> /\ NoTargets
         /\ NoneFor("stop")
         /\ \A i \in 1..Len(calls) :
              /\ calls[i].register = "mode" => i = 1 /\ NoTargets
              /\ calls[i].register = "target" => calls[i].value # Tools!NoTarget
ToolsInv == ToolsTyped /\ TuneInv /\ TestInv /\ FakeInv

LEMMA ToolsInit == Tools!Init => ToolsInv
<1> SUFFICES ASSUME Tools!Init PROVE ToolsInv
  OBVIOUS
<1>1. calls = <<>> /\ Len(calls) = 0 /\ calls \in Seq(Packets)
  BY DEF Tools!Init
<1>2. \A s \in Serials : board[s] = [mode |-> 0, target |-> 1000, duty |-> 0, known |-> {}]
  BY DEF Tools!Init, Tools!Pwm, Tools!NoTarget
<1>3. board \in [Serials -> Boards]
  BY <1>2 DEF Tools!Init, Boards, Tools!Pwm, Tools!NoTarget
<1>4. NoTargets /\ \A s \in Serials : board[s].duty = 0
  BY <1>2 DEF NoTargets, Tools!NoTarget
<1>5. \A r : NoneFor(r)
  BY <1>1 DEF NoneFor
<1> QED
  BY <1>1, <1>3, <1>4, <1>5, ToolsAssumption
     DEF ToolsInv, ToolsTyped, TuneInv, TestInv, FakeInv, Tools!Init, Tools!Tests, Tools!Pwm,
         Tools!Reset, Tools!NoTarget

\* What a packet does to a board.
LEMMA BoardChanges ==
  ASSUME NEW b \in Boards, NEW p \in Packets, NEW c, c = Tools!Board(b, p)
  PROVE  /\ c \in Boards
         /\ p.register = "mode" =>
              /\ c.mode = p.value /\ c.target = Tools!NoTarget
              /\ c.duty = b.duty
         /\ p.register = "stop" =>
              /\ c.mode = Tools!Reset /\ c.duty = 0
              /\ c.target = Tools!NoTarget
         /\ p.register \notin {"mode", "stop"} => c.mode = b.mode
         /\ p.register \notin {"mode", "stop", "target"} => c.target = b.target
         /\ p.register = "target" => c.target = p.value
         /\ p.register \notin {"stop", "duty"} => c.duty = b.duty
         /\ p.register = "duty" => c.duty = p.value
<1>1. p.register \in Registers /\ p.value \in Int
  BY DEF Packets
<1>2. /\ b.mode \in Int /\ b.target \in Int /\ b.duty \in Int /\ b.known \in SUBSET Registers
      /\ b = [mode |-> b.mode, target |-> b.target, duty |-> b.duty, known |-> b.known]
  BY DEF Boards
<1>3. CASE p.register = "mode"
  <2>1. c = [b EXCEPT !.mode = p.value, !.target = Tools!NoTarget]
    BY <1>3 DEF Tools!Board
  <2>2. c = [mode |-> p.value, target |-> Tools!NoTarget, duty |-> b.duty, known |-> b.known]
    BY <1>2, <2>1
  <2> QED
    BY <1>1, <1>2, <1>3, <2>2 DEF Boards, Tools!NoTarget, Tools!Reset
<1>4. CASE p.register = "stop"
  <2>1. c = [b EXCEPT !.mode = Tools!Reset, !.target = Tools!NoTarget, !.duty = 0]
    BY <1>4 DEF Tools!Board
  <2>2. c = [mode |-> Tools!Reset, target |-> Tools!NoTarget, duty |-> 0, known |-> b.known]
    BY <1>2, <2>1
  <2> QED
    BY <1>1, <1>2, <1>4, <2>2 DEF Boards, Tools!NoTarget, Tools!Reset
<1>5. CASE p.register = "target"
  <2>1. c = [b EXCEPT !.target = p.value]
    BY <1>5 DEF Tools!Board
  <2>2. c = [mode |-> b.mode, target |-> p.value, duty |-> b.duty, known |-> b.known]
    BY <1>2, <2>1
  <2> QED
    BY <1>1, <1>2, <1>5, <2>2 DEF Boards, Tools!NoTarget, Tools!Reset
<1>6. CASE p.register = "duty"
  <2>1. c = [b EXCEPT !.duty = p.value]
    BY <1>6 DEF Tools!Board
  <2>2. c = [mode |-> b.mode, target |-> b.target, duty |-> p.value, known |-> b.known]
    BY <1>2, <2>1
  <2> QED
    BY <1>1, <1>2, <1>6, <2>2 DEF Boards, Tools!NoTarget, Tools!Reset
<1>7. CASE p.register \notin {"mode", "stop", "target", "duty"}
  <2>1. c = [b EXCEPT !.known = @ \cup {p.register}]
    BY <1>7 DEF Tools!Board
  <2>2. c = [mode |-> b.mode, target |-> b.target, duty |-> b.duty,
             known |-> b.known \cup {p.register}]
    BY <1>2, <2>1
  <2> QED
    BY <1>1, <1>2, <1>7, <2>2 DEF Boards, Tools!NoTarget, Tools!Reset
<1> QED
  BY <1>3, <1>4, <1>5, <1>6, <1>7

\* What a send does to the calls and the boards.
LEMMA SendChanges ==
  ASSUME ToolsTyped, NEW ok \in BOOLEAN, Tools!Send(ok)
  PROVE  /\ ToolsTyped'
         /\ calls # <<>> /\ calls[1] \in Packets /\ 1 \in 1..Len(calls)
         /\ \A i \in 1..Len(calls') : i + 1 \in 1..Len(calls) /\ calls'[i] = calls[i + 1]
         /\ \A s \in Serials : board'[s] = board[s] \/ board'[s] = Tools!Board(board[s], calls[1])
         /\ lost' = 0 =>
              /\ lost = 0 /\ calls' = Tail(calls)
              /\ \A s \in Serials \cap calls[1].to : board'[s] = Tools!Board(board[s], calls[1])
<1>1. /\ calls \in Seq(Packets) /\ calls # <<>> /\ board \in [Serials -> Boards] /\ lost \in Nat
      /\ board' = [s \in Serials |-> IF ok /\ s \in Head(calls).to
                                     THEN Tools!Board(board[s], Head(calls)) ELSE board[s]]
      /\ lost' = lost + (IF ok THEN 0 ELSE 1)
      /\ (calls' = <<>> /\ ~ok) \/ calls' = Tail(calls)
  BY DEF ToolsTyped, Tools!Send
<1>2. /\ Head(calls) = calls[1] /\ calls[1] \in Packets /\ 1 \in 1..Len(calls)
      /\ Tail(calls) \in Seq(Packets)
      /\ \A i \in 1..Len(Tail(calls)) : i + 1 \in 1..Len(calls) /\ Tail(calls)[i] = calls[i + 1]
  BY <1>1
<1>3. \A s \in Serials : /\ board'[s] \in Boards
                         /\ board'[s] = board[s] \/ board'[s] = Tools!Board(board[s], calls[1])
                         /\ ok = TRUE /\ s \in calls[1].to =>
                              board'[s] = Tools!Board(board[s], calls[1])
  <2> TAKE s \in Serials
  <2>1. board[s] \in Boards
    BY <1>1
  <2>2. Tools!Board(board[s], calls[1]) \in Boards
    BY <2>1, <1>2, BoardChanges
  <2>3. board'[s] = IF ok /\ s \in calls[1].to THEN Tools!Board(board[s], calls[1]) ELSE board[s]
    BY <1>1, <1>2
  <2>4. CASE ok = TRUE /\ s \in calls[1].to
    <3>1. board'[s] = Tools!Board(board[s], calls[1])
      BY <2>3, <2>4
    <3> QED
      BY <3>1, <2>2
  <2>5. CASE ok = FALSE
    BY <2>1, <2>3, <2>5
  <2>6. CASE s \notin calls[1].to
    BY <2>1, <2>3, <2>6
  <2>7. ok = TRUE \/ ok = FALSE
    OBVIOUS
  <2> QED
    BY <2>4, <2>5, <2>6, <2>7
<1>4. board' \in [Serials -> Boards]
  BY <1>1, <1>3
<1>5. calls' \in Seq(Packets) /\ lost' \in Nat /\ (lost' = 0 => ok = TRUE /\ lost = 0)
  <2>1. calls' \in Seq(Packets)
    <3>1. CASE calls' = <<>>
      BY <3>1
    <3>2. CASE calls' = Tail(calls)
      BY <3>2, <1>2
    <3> QED
      BY <3>1, <3>2, <1>1
  <2>2. CASE ok = TRUE
    BY <2>1, <2>2, <1>1
  <2>3. CASE ok = FALSE
    BY <2>1, <2>3, <1>1
  <2> QED
    BY <2>2, <2>3
<1>6. ToolsTyped'
  BY <1>4, <1>5 DEF ToolsTyped, Tools!Send, Tools!tool
<1>7. \A i \in 1..Len(calls') : i + 1 \in 1..Len(calls) /\ calls'[i] = calls[i + 1]
  <2>1. CASE calls' = <<>>
    BY <2>1
  <2>2. CASE calls' = Tail(calls)
    BY <2>2, <1>2
  <2> QED
    BY <2>1, <2>2, <1>1
<1> QED
  BY <1>1, <1>2, <1>3, <1>5, <1>6, <1>7

LEMMA SendKeeps ==
  ASSUME ToolsInv, NEW ok \in BOOLEAN, Tools!Send(ok)
  PROVE  ToolsInv'
<1>1. ToolsTyped /\ TuneInv /\ TestInv /\ FakeInv
  BY DEF ToolsInv
<1>2. /\ ToolsTyped'
      /\ calls # <<>> /\ calls[1] \in Packets /\ 1 \in 1..Len(calls)
      /\ \A i \in 1..Len(calls') : i + 1 \in 1..Len(calls) /\ calls'[i] = calls[i + 1]
      /\ \A s \in Serials : board'[s] = board[s] \/ board'[s] = Tools!Board(board[s], calls[1])
      /\ lost' = 0 =>
           /\ lost = 0 /\ calls' = Tail(calls)
           /\ \A s \in Serials \cap calls[1].to : board'[s] = Tools!Board(board[s], calls[1])
  BY <1>1, SendChanges
<1>3. UNCHANGED <<program, step, test, begun, serial, asked, mode, velEvent>>
  BY DEF Tools!Send, Tools!tool
<1>4. \A s \in Serials : board[s] \in Boards
  BY <1>1 DEF ToolsTyped
<1>5. /\ calls[1].register # "target" /\ NoTargets => NoTargets'
      /\ \A r : NoneFor(r) => NoneFor(r)' /\ calls[1].register # r
  <2>1. ASSUME NEW s \in Serials, calls[1].register # "target", board[s].target = Tools!NoTarget
        PROVE  board'[s].target = Tools!NoTarget
    BY <2>1, <1>2, <1>4, BoardChanges
  <2> QED
    BY <2>1, <1>2 DEF NoTargets, NoneFor
<1>6. TuneInv'
  <2> SUFFICES ASSUME program = "TunePID" PROVE TuneInv'
    BY <1>3 DEF TuneInv
  <2>1. \A s \in Serials : board'[s].duty = 0
    <3> TAKE s \in Serials
    <3>1. board[s].duty = 0 /\ (calls[1].register = "duty" => calls[1].value = 0)
      BY <1>1, <1>2 DEF TuneInv
    <3> QED
      BY <3>1, <1>2, <1>4, BoardChanges
  <2>2. \A i \in 1..Len(calls') : calls'[i].register = "duty" => calls'[i].value = 0
    BY <1>1, <1>2 DEF TuneInv
  <2>3. step \in {"start", "wait", "thrown"} => NoTargets' /\ NoneFor("target")'
    BY <1>1, <1>5 DEF TuneInv
  <2>4. ASSUME lost' = 0, step = "done"
        PROVE  \/ calls' = <<ModeCall(serial, Tools!Pwm), DutyCall(serial, 0)>>
               \/ board'[serial].mode = Tools!Pwm /\ calls' \in {<<DutyCall(serial, 0)>>, <<>>}
    <3>1. serial \in Serials
      BY <1>1 DEF ToolsTyped
    <3>2. CASE calls = <<ModeCall(serial, Tools!Pwm), DutyCall(serial, 0)>>
      <4>1. calls' = <<DutyCall(serial, 0)>> /\ calls[1] = ModeCall(serial, Tools!Pwm)
        BY <3>2, <2>4, <1>2
      <4>2. board'[serial] = Tools!Board(board[serial], calls[1])
        <5>1. calls[1].to = {serial}
          BY <4>1 DEF ModeCall
        <5> QED
          BY <5>1, <3>1, <2>4, <1>2
      <4>3. board'[serial].mode = calls[1].value
        BY <4>1, <4>2, <3>1, <1>2, <1>4, BoardChanges DEF ModeCall
      <4> QED
        BY <4>1, <4>3 DEF ModeCall
    <3>3. CASE board[serial].mode = Tools!Pwm /\ calls = <<DutyCall(serial, 0)>>
      <4>1. calls' = <<>> /\ calls[1].register = "duty"
        BY <3>3, <2>4, <1>2 DEF DutyCall
      <4>2. board'[serial].mode = board[serial].mode
        BY <4>1, <3>1, <1>2, <1>4, BoardChanges
      <4> QED
        BY <4>1, <4>2, <3>3
    <3> QED
      BY <3>2, <3>3, <2>4, <1>1, <1>2 DEF TuneInv
  <2>5. ASSUME lost' = 0, step = "interrupted"
        PROVE  calls' = <<>> /\ \A s \in Serials : board'[s].mode = Tools!Reset
    <3>1. calls = Tools!EmergencyStopMotors
      BY <2>5, <1>1, <1>2 DEF TuneInv
    <3>2. calls' = <<>> /\ calls[1].register = "stop" /\ calls[1].to = Serials
      BY <3>1, <2>5, <1>2 DEF Tools!EmergencyStopMotors
    <3>3. ASSUME NEW s \in Serials PROVE board'[s].mode = Tools!Reset
      <4>1. board'[s] = Tools!Board(board[s], calls[1])
        BY <3>2, <2>5, <1>2
      <4> QED
        BY <4>1, <3>2, <1>2, <1>4, BoardChanges
    <3> QED
      BY <3>2, <3>3
  <2> QED
    BY <2>1, <2>2, <2>3, <2>4, <2>5, <1>1, <1>2, <1>3 DEF TuneInv
<1>7. TestInv'
  <2> SUFFICES ASSUME program = "CANTest" PROVE TestInv'
    BY <1>3 DEF TestInv
  <2>1. NoTargets' /\ NoneFor("target")'
    BY <1>1, <1>5 DEF TestInv
  <2>2. ASSUME lost' = 0, step = "done", asked # Tools!NoTarget
        PROVE  /\ board'[10].mode = Tools!Pwm
               /\ \/ calls' = <<DutyCall(10, 10000)>>
                  \/ board'[10].duty = 10000 /\ calls' = <<>>
    <3>1. 10 \in Serials /\ board[10] \in Boards
      BY <1>4, ToolsAssumption
    <3>2. CASE calls = <<ModeCall(10, Tools!Pwm), DutyCall(10, 10000)>>
      <4>1. calls' = <<DutyCall(10, 10000)>> /\ calls[1] = ModeCall(10, Tools!Pwm)
        BY <3>2, <2>2, <1>2
      <4>2. board'[10] = Tools!Board(board[10], calls[1])
        <5>1. calls[1].to = {10}
          BY <4>1 DEF ModeCall
        <5> QED
          BY <5>1, <3>1, <2>2, <1>2
      <4>3. board'[10].mode = calls[1].value
        BY <4>1, <4>2, <3>1, <1>2, BoardChanges DEF ModeCall
      <4> QED
        BY <4>1, <4>3 DEF ModeCall
    <3>3. CASE board[10].mode = Tools!Pwm /\ calls = <<DutyCall(10, 10000)>>
      <4>1. calls' = <<>> /\ calls[1] = DutyCall(10, 10000)
        BY <3>3, <2>2, <1>2
      <4>2. board'[10] = Tools!Board(board[10], calls[1])
        BY <4>1, <3>1, <2>2, <1>2 DEF DutyCall
      <4>3. board'[10].mode = board[10].mode /\ board'[10].duty = calls[1].value
        BY <4>1, <4>2, <3>1, <1>2, BoardChanges DEF DutyCall
      <4> QED
        BY <4>1, <4>3, <3>3 DEF DutyCall
    <3> QED
      BY <3>2, <3>3, <2>2, <1>1, <1>2 DEF TestInv
  <2> QED
    BY <2>1, <2>2, <1>1, <1>3 DEF TestInv
<1>8. FakeInv'
  <2> SUFFICES ASSUME program = "FakeCANBoard" PROVE FakeInv'
    BY <1>3 DEF FakeInv
  <2>1. step # "start"
    BY <1>1, <1>2 DEF FakeInv
  <2>2. ASSUME test = Tools!Tests.PID
        PROVE  /\ step = "test" /\ begun /\ NoneFor("stop")'
               /\ \A i \in 1..Len(calls') :
                    /\ calls'[i].register # "mode"
                    /\ calls'[i].register = "target" => calls'[i].value # Tools!NoTarget
    <3>1. /\ step = "test" /\ begun /\ NoneFor("stop")
          /\ \A i \in 1..Len(calls) :
               /\ calls[i].register = "mode" => i = 1
               /\ calls[i].register = "target" => calls[i].value # Tools!NoTarget
      BY <2>2, <1>1, <1>2 DEF FakeInv
    <3>2. ASSUME NEW i \in 1..Len(calls')
          PROVE  /\ i + 1 \in 1..Len(calls) /\ calls'[i] = calls[i + 1] /\ i + 1 # 1
      BY <1>2
    <3> QED
      BY <3>1, <3>2, <1>5
  <2> QED
    BY <2>1, <2>2, <1>3 DEF FakeInv
<1> QED
  BY <1>2, <1>6, <1>7, <1>8 DEF ToolsInv

LEMMA PacketTyped ==
  ASSUME NEW s \in Serials, NEW r \in Registers, NEW v \in Int
  PROVE  Tools!Packet(s, r, v) \in Packets
BY DEF Tools!Packet, Packets

LEMMA Lists ==
  ASSUME NEW p \in Packets, NEW q \in Packets, NEW r \in Packets
  PROVE  <<>> \in Seq(Packets) /\ <<p>> \in Seq(Packets) /\ <<p, q>> \in Seq(Packets)
         /\ <<p, q, r>> \in Seq(Packets)
OBVIOUS

\* Every list of calls that a step appends to is a list of packets.
LEMMA CallsTyped ==
  ASSUME NEW s \in Serials, NEW m \in Int
  PROVE  /\ Tools!SetMotorMode(s, m) \in Seq(Packets) /\ Tools!SetMotorPower(s, m) \in Seq(Packets)
         /\ Tools!SetMotorPIDConstants(s) \in Seq(Packets) /\ Tools!InitEncoder(s) \in Seq(Packets)
         /\ Tools!EnsureMotorMode(s, m) \in Seq(Packets)
         /\ Tools!EmergencyStopMotors \in Seq(Packets)
<1>1. Tools!SetMotorMode(s, m) \in Seq(Packets) /\ Tools!SetMotorPower(s, m) \in Seq(Packets)
  <2>1. Tools!Packet(s, "mode", m) \in Packets /\ Tools!Packet(s, "duty", m) \in Packets
    BY PacketTyped DEF Registers
  <2> QED
    BY <2>1, Lists DEF Tools!SetMotorMode, Tools!SetMotorPower
<1>2. Tools!SetMotorPIDConstants(s) \in Seq(Packets) /\ Tools!InitEncoder(s) \in Seq(Packets)
  <2>1. /\ Tools!Packet(s, "P", 0) \in Packets /\ Tools!Packet(s, "I", 0) \in Packets
        /\ Tools!Packet(s, "D", 0) \in Packets
        /\ Tools!Packet(s, "encoder", 0) \in Packets /\ Tools!Packet(s, "ppjr", 0) \in Packets
    <3>1. \A r \in Registers : Tools!Packet(s, r, 0) \in Packets
      BY PacketTyped
    <3> QED
      BY <3>1 DEF Registers
  <2> QED
    BY <2>1, Lists DEF Tools!SetMotorPIDConstants, Tools!InitEncoder
<1>3. Tools!EnsureMotorMode(s, m) \in Seq(Packets)
  BY <1>1 DEF Tools!EnsureMotorMode
<1>4. Tools!EmergencyStopMotors \in Seq(Packets)
  <2>1. [to |-> Serials, register |-> "stop", value |-> 0] \in Packets
    BY DEF Packets, Registers
  <2> QED
    BY <2>1, Lists DEF Tools!EmergencyStopMotors
<1> QED
  BY <1>1, <1>2, <1>3, <1>4

LEMMA Joined ==
  ASSUME NEW s \in Seq(Packets), NEW t \in Seq(Packets)
  PROVE  /\ s \o t \in Seq(Packets) /\ Len(s \o t) = Len(s) + Len(t)
         /\ \A i \in 1..Len(s) : (s \o t)[i] = s[i]
         /\ \A i \in 1..Len(t) : (s \o t)[Len(s) + i] = t[i]
OBVIOUS

\* The tests of FakeCANBoard other than the PID test only have to keep the types.
LEMMA OtherTest ==
  ASSUME ToolsInv, program = "FakeCANBoard", step # "start", test # Tools!Tests.PID,
         step' \notin {"start", "wait", "tune", "thrown"}, UNCHANGED <<program, test, board, lost>>,
         calls' \in Seq(Packets), serial' \in Serials,
         velEvent' # "none" \/ step' \in {"velocity", "over", "stopping"} =>
           test = Tools!Tests.PIDVel
  PROVE  ToolsInv'
<1>1. ToolsTyped'
  BY DEF ToolsInv, ToolsTyped
<1>2. TuneInv' /\ TestInv' /\ FakeInv'
  BY DEF TuneInv, TestInv, FakeInv
<1> QED
  BY <1>1, <1>2 DEF ToolsInv

LEMMA TestNumbers ==
  /\ Tools!Tests.ModeSet = 0 /\ Tools!Tests.PWM = 1 /\ Tools!Tests.PID = 2
  /\ Tools!Tests.PIDVel = 3 /\ Tools!Tests.Encoder = 4 /\ Tools!Tests.LimitSwitch = 5
  /\ Tools!Tests.Telemetry = 6 /\ Tools!Tests.ScienceMotors = 7 /\ Tools!Tests.ScienceServos = 8
BY DEF Tools!Tests

\* The velocity test, which goes on in other steps and by its event.
LEMMA VelocityTestKeeps ==
  ASSUME ToolsInv, Tools!SetMotorVel \/ Tools!Event \/ Tools!TimeUp \/ Tools!CutPower
  PROVE  ToolsInv'
<1>1. /\ calls \in Seq(Packets) /\ serial \in Serials
      /\ velEvent # "none" \/ step \in {"velocity", "over", "stopping"} =>
           program = "FakeCANBoard" /\ test = Tools!Tests.PIDVel
      /\ step \in {"wait", "tune", "thrown"} => program = "TunePID"
      /\ program = "FakeCANBoard" /\ step = "start" => test = -1
  BY DEF ToolsInv, ToolsTyped, FakeInv
<1>2. \A m \in Int : Tools!EnsureMotorMode(serial, m) \in Seq(Packets)
                     /\ Tools!SetMotorPower(serial, m) \in Seq(Packets)
  BY <1>1, CallsTyped
<1>3. program = "FakeCANBoard" /\ test = 3
  BY <1>1, TestNumbers
     DEF Tools!SetMotorVel, Tools!Event, Tools!TimeUp, Tools!CutPower, Tools!Repeat
<1>4. step # "start" /\ step' \notin {"start", "wait", "tune", "thrown"}
  BY <1>1, <1>3 DEF Tools!SetMotorVel, Tools!Event, Tools!TimeUp, Tools!CutPower, Tools!Repeat
<1>5. calls' \in Seq(Packets)
  <2>1. /\ Tools!EnsureMotorMode(serial, Tools!Pid) \in Seq(Packets)
        /\ Tools!EnsureMotorMode(serial, Tools!Pwm) \in Seq(Packets)
        /\ Tools!SetMotorPower(serial, 0) \in Seq(Packets)
    BY <1>2 DEF Tools!Pid, Tools!Pwm
  <2>2. Tools!EnsureMotorMode(serial, Tools!Pid) \o calls \in Seq(Packets)
    BY <2>1, <1>1, Joined
  <2> QED
    BY <2>1, <2>2 DEF Tools!SetMotorVel, Tools!Event, Tools!TimeUp, Tools!CutPower
<1>6. UNCHANGED <<program, test, serial, board, lost>>
  BY DEF Tools!SetMotorVel, Tools!Event, Tools!TimeUp, Tools!CutPower
<1> QED
  BY <1>1, <1>3, <1>4, <1>5, <1>6, TestNumbers, OtherTest

\* The tests that send what the user answers.
LEMMA AnsweredTestKeeps ==
  ASSUME ToolsInv, NEW s \in Serials, NEW x \in Answers,
         Tools!ModeSet(s, x) \/ Tools!PWM(s, x) \/ Tools!ScienceServos(s, x)
  PROVE  ToolsInv'
<1>1. x \in Int /\ Tools!Int16(x) \in Int /\ x % 256 \in Int
  BY ToolsAssumption DEF Tools!Int16
<1>2. \A m \in Int : Tools!SetMotorMode(s, m) \in Seq(Packets)
                     /\ Tools!SetMotorPower(s, m) \in Seq(Packets)
  BY CallsTyped
<1>3. /\ program = "FakeCANBoard" /\ step = "test" /\ test \in {0, 1, 7, 8}
      /\ UNCHANGED <<program, step, test, serial, velEvent, board, lost>>
  BY TestNumbers DEF Tools!ModeSet, Tools!PWM, Tools!ScienceServos, Tools!Repeat, Tools!tool
<1>4. calls' \in Seq(Packets)
  <2>1. CASE Tools!ModeSet(s, x)
    <3>1. CASE x = 0
      <4>1. calls' = Tools!SetMotorMode(s, Tools!Pwm)
        BY <2>1, <3>1 DEF Tools!ModeSet
      <4> QED
        BY <4>1, <1>2 DEF Tools!Pwm
    <3>2. CASE x # 0
      <4>1. calls' = Tools!SetMotorMode(s, Tools!Pid)
        BY <2>1, <3>2 DEF Tools!ModeSet
      <4> QED
        BY <4>1, <1>2 DEF Tools!Pid
    <3> QED
      BY <3>1, <3>2
  <2>2. CASE Tools!PWM(s, x)
    BY <2>2, <1>1, <1>2, Joined DEF Tools!PWM, Tools!Pwm
  <2>3. CASE Tools!ScienceServos(s, x)
    <3>1. Tools!Packet(s, "servo", x % 256) \in Packets
      <4>1. \A v \in Int : Tools!Packet(s, "servo", v) \in Packets
        BY PacketTyped DEF Registers
      <4> QED
        BY <4>1, <1>1
    <3> QED
      BY <3>1, <2>3, Lists DEF Tools!ScienceServos
  <2> QED
    BY <2>1, <2>2, <2>3
<1>5. velEvent = "none"
  BY <1>3, TestNumbers DEF ToolsInv, ToolsTyped
<1> QED
  BY <1>3, <1>4, <1>5, TestNumbers, OtherTest DEF ToolsInv, ToolsTyped

\* The tests that set a board up once.
LEMMA SetUpKeeps ==
  ASSUME ToolsInv, NEW s \in Serials, NEW b \in BOOLEAN,
         Tools!PIDVel(s) \/ Tools!Encoder(s, b) \/ Tools!LimitSwitch(s, b) \/ Tools!Telemetry(s, b)
  PROVE  ToolsInv'
<1>1. /\ program = "FakeCANBoard" /\ step = "test" /\ test \in {3, 4, 5, 6} /\ serial' = s
      /\ UNCHANGED <<program, step, test, velEvent, board, lost>>
  BY TestNumbers
     DEF Tools!PIDVel, Tools!Encoder, Tools!LimitSwitch, Tools!Telemetry, Tools!Repeat, Tools!tool
<1>2. calls' \in Seq(Packets)
  <2>1. /\ Tools!SetMotorMode(s, 0) \in Seq(Packets) /\ Tools!SetMotorMode(s, 1) \in Seq(Packets)
        /\ Tools!SetMotorPIDConstants(s) \in Seq(Packets) /\ Tools!InitEncoder(s) \in Seq(Packets)
    BY CallsTyped
  <2>2. /\ <<Tools!Packet(s, "pot hi", 0), Tools!Packet(s, "pot lo", 0)>> \in Seq(Packets)
        /\ <<Tools!Packet(s, "limit lo", 0), Tools!Packet(s, "limit hi", 0)>> \in Seq(Packets)
        /\ <<Tools!Packet(s, "timing", 0)>> \in Seq(Packets)
        /\ <<>> \in Seq(Packets)
    <3>1. /\ Tools!Packet(s, "pot hi", 0) \in Packets /\ Tools!Packet(s, "pot lo", 0) \in Packets
          /\ Tools!Packet(s, "limit lo", 0) \in Packets
          /\ Tools!Packet(s, "limit hi", 0) \in Packets /\ Tools!Packet(s, "timing", 0) \in Packets
      <4>1. \A r \in Registers : Tools!Packet(s, r, 0) \in Packets
        BY PacketTyped
      <4> QED
        BY <4>1 DEF Registers
    <3> QED
      BY <3>1, Lists
  <2>3. CASE Tools!PIDVel(s)
    BY <2>3, <2>1, Joined DEF Tools!PIDVel, Tools!Pid
  <2>4. CASE Tools!Encoder(s, b)
    BY <2>4, <2>1, <2>2, Joined DEF Tools!Encoder, Tools!Pwm
  <2>5. CASE Tools!LimitSwitch(s, b)
    BY <2>5, <2>1, <2>2, Joined DEF Tools!LimitSwitch
  <2>6. CASE Tools!Telemetry(s, b)
    BY <2>6, <2>2 DEF Tools!Telemetry
  <2> QED
    BY <2>3, <2>4, <2>5, <2>6
<1>3. velEvent # "none" => test = 3
  BY TestNumbers DEF ToolsInv, ToolsTyped
<1> QED
  BY <1>1, <1>2, <1>3, TestNumbers, OtherTest

LEMMA ChooseKeeps ==
  ASSUME ToolsInv, NEW n \in -1..9, Tools!Choose(n)
  PROVE  ToolsInv'
<1>1. /\ program = "FakeCANBoard" /\ step = "start" /\ step' \in {"test", "done"} /\ test' = n
      /\ UNCHANGED <<program, calls, begun, serial, velEvent, board, lost>>
      /\ calls = <<>> /\ NoTargets
      /\ n = Tools!Tests.PID => step' = "test"
  <2>1. n = Tools!Tests.PID => \E t \in DOMAIN Tools!Tests : Tools!Tests[t] = n
    <3>1. "PID" \in DOMAIN Tools!Tests /\ Tools!Tests["PID"] = Tools!Tests.PID
      BY DEF Tools!Tests
    <3> QED
      BY <3>1
  <2> QED
    BY <2>1 DEF Tools!Choose, ToolsInv, FakeInv
<1>2. velEvent = "none"
  BY <1>1, TestNumbers DEF ToolsInv, ToolsTyped, FakeInv
<1>3. ToolsTyped'
  BY <1>1, <1>2 DEF ToolsInv, ToolsTyped
<1>4. NoTargets' /\ NoneFor("stop")' /\ Len(calls') = 0 /\ calls' = <<>>
  BY <1>1 DEF NoTargets, NoneFor
<1>5. TuneInv' /\ TestInv' /\ FakeInv'
  BY <1>1, <1>4 DEF TuneInv, TestInv, FakeInv
<1> QED
  BY <1>3, <1>5 DEF ToolsInv

LEMMA Ended ==
  ASSUME NEW c \in Seq(Packets), NEW t \in Packets
  PROVE  /\ c \o <<t>> \in Seq(Packets) /\ Len(c \o <<t>>) = Len(c) + 1
         /\ \A i \in 1..Len(c) : (c \o <<t>>)[i] = c[i]
         /\ (c \o <<t>>)[Len(c) + 1] = t
<1>1. <<t>> \in Seq(Packets) /\ Len(<<t>>) = 1 /\ <<t>>[1] = t
  BY Lists
<1> DEFINE u == <<t>>
<1> HIDE DEF u
<1>2. u \in Seq(Packets) /\ Len(u) = 1 /\ u[1] = t
  BY <1>1 DEF u
<1>3. /\ c \o u \in Seq(Packets) /\ Len(c \o u) = Len(c) + Len(u)
      /\ \A i \in 1..Len(c) : (c \o u)[i] = c[i]
      /\ \A i \in 1..Len(u) : (c \o u)[Len(c) + i] = u[i]
  BY <1>2, Joined
<1>4. (c \o u)[Len(c) + 1] = t
  BY <1>2, <1>3
<1>5. /\ c \o u \in Seq(Packets) /\ Len(c \o u) = Len(c) + 1
      /\ \A i \in 1..Len(c) : (c \o u)[i] = c[i]
  BY <1>2, <1>3
<1> QED
  BY <1>4, <1>5 DEF u

LEMMA Begun ==
  ASSUME NEW f \in Packets, NEW c \in Seq(Packets), Len(c) = 3
  PROVE  /\ <<f>> \o c \in Seq(Packets) /\ Len(<<f>> \o c) = 4
         /\ (<<f>> \o c)[1] = f /\ \A i \in 2..4 : (<<f>> \o c)[i] = c[i - 1]
<1> DEFINE u == <<f>>
<1>1. u \in Seq(Packets) /\ Len(u) = 1 /\ u[1] = f
  BY Lists
<1> HIDE DEF u
<1>2. /\ u \o c \in Seq(Packets) /\ Len(u \o c) = Len(u) + Len(c)
      /\ \A i \in 1..Len(u) : (u \o c)[i] = u[i]
      /\ \A i \in 1..Len(c) : (u \o c)[Len(u) + i] = c[i]
  BY <1>1, Joined
<1>3. Len(u \o c) = 4 /\ (u \o c)[1] = f
  BY <1>1, <1>2
<1>4. ASSUME NEW i \in 2..4 PROVE (u \o c)[i] = c[i - 1]
  <2>1. i - 1 \in 1..Len(c) /\ Len(u) + (i - 1) = i
    BY <1>1
  <2> QED
    BY <2>1, <1>2
<1> QED
  BY <1>2, <1>3, <1>4 DEF u

\* The PID test: a mode goes out only while no board has a target.
LEMMA PIDKeeps ==
  ASSUME ToolsInv, NEW s \in Serials, NEW x \in Answers, Tools!PID(s, x)
  PROVE  ToolsInv'
<1> DEFINE constants == Tools!SetMotorPIDConstants(s)
           target == Tools!Packet(s, "target", x)
<1>1. /\ program = "FakeCANBoard" /\ step = "test" /\ test = Tools!Tests.PID
      /\ calls = <<>> /\ begun' /\ serial' = s
      /\ UNCHANGED <<program, step, test, velEvent, board, lost>>
      /\ calls' = (IF begun THEN <<>> ELSE Tools!SetMotorMode(s, Tools!Pid))
                   \o constants \o <<target>>
      /\ ~begun => NoTargets
  BY DEF Tools!PID, Tools!Repeat, ToolsInv, FakeInv
<1>2. x \in Int /\ x # Tools!NoTarget
  BY ToolsAssumption
<1>3. /\ target \in Packets /\ target.register = "target" /\ target.value = x
      /\ constants \in Seq(Packets) /\ Len(constants) = 3
      /\ \A i \in 1..3 : constants[i].register \in {"P", "I", "D"}
  <2>1. target \in Packets
    BY <1>2, PacketTyped DEF Registers
  <2>2. constants \in Seq(Packets)
    BY CallsTyped
  <2>3. /\ Len(constants) = 3 /\ constants[1].register = "P" /\ constants[2].register = "I"
        /\ constants[3].register = "D"
    BY DEF Tools!SetMotorPIDConstants, Tools!Packet
  <2> QED
    BY <2>1, <2>2, <2>3 DEF Tools!Packet
<1> HIDE DEF constants, target
<1>4. /\ calls' \in Seq(Packets)
      /\ \A i \in 1..Len(calls') :
           \/ i = 1 /\ ~begun /\ calls'[i].register = "mode"
           \/ calls'[i].register \in {"P", "I", "D"}
           \/ calls'[i].register = "target" /\ calls'[i].value = x
  <2>1. /\ constants \o <<target>> \in Seq(Packets) /\ Len(constants \o <<target>>) = 4
        /\ \A i \in 1..4 : \/ (constants \o <<target>>)[i].register \in {"P", "I", "D"}
                           \/ (constants \o <<target>>)[i] = target
    <3>1. /\ constants \o <<target>> \in Seq(Packets)
          /\ Len(constants \o <<target>>) = Len(constants) + 1
          /\ \A i \in 1..Len(constants) : (constants \o <<target>>)[i] = constants[i]
          /\ (constants \o <<target>>)[Len(constants) + 1] = target
      BY <1>3, Ended
    <3>2. /\ Len(constants \o <<target>>) = 4 /\ (constants \o <<target>>)[4] = target
          /\ \A i \in 1..3 : (constants \o <<target>>)[i] = constants[i]
      BY <3>1, <1>3
    <3> QED
      BY <3>1, <3>2, <1>3
  <2>2. CASE begun
    <3>1. calls' = constants \o <<target>>
      BY <2>2, <1>1, <1>3
    <3> QED
      BY <3>1, <2>1, <1>3
  <2>3. CASE ~begun
    <3> DEFINE first == Tools!Packet(s, "mode", Tools!Pid)
    <3>1. first \in Packets /\ first.register = "mode"
      <4>1. first \in Packets
        <5>1. \A m \in Int : Tools!Packet(s, "mode", m) \in Packets
          BY PacketTyped DEF Registers
        <5> QED
          BY <5>1 DEF Tools!Pid
      <4> QED
        BY <4>1 DEF Tools!Packet
    <3>2. calls' = <<first>> \o constants \o <<target>>
      BY <2>3, <1>1 DEF Tools!SetMotorMode
    <3> HIDE DEF first
    <3> DEFINE u == <<first>> \o constants
    <3>3. /\ u \in Seq(Packets) /\ Len(u) = 4 /\ u[1] = first
          /\ \A i \in 2..4 : u[i] = constants[i - 1]
      BY <3>1, <1>3, Begun
    <3>4. calls' = u \o <<target>>
      BY <3>2
    <3> HIDE DEF u
    <3>5. /\ calls' \in Seq(Packets) /\ Len(calls') = 5 /\ calls'[1] = first
          /\ \A i \in 2..4 : calls'[i] = constants[i - 1]
          /\ calls'[5] = target
      <4>1. /\ u \o <<target>> \in Seq(Packets) /\ Len(u \o <<target>>) = Len(u) + 1
            /\ \A i \in 1..Len(u) : (u \o <<target>>)[i] = u[i]
            /\ (u \o <<target>>)[Len(u) + 1] = target
        BY <3>3, <1>3, Ended
      <4>2. /\ Len(u \o <<target>>) = 5 /\ (u \o <<target>>)[5] = target
            /\ \A i \in 1..4 : (u \o <<target>>)[i] = u[i]
        BY <4>1, <3>3
      <4> QED
        BY <4>1, <4>2, <3>3, <3>4
    <3>6. ASSUME NEW i \in 1..5
          PROVE  \/ i = 1 /\ ~begun /\ calls'[i].register = "mode"
                 \/ calls'[i].register \in {"P", "I", "D"}
                 \/ calls'[i].register = "target" /\ calls'[i].value = x
      <4>1. CASE i = 1
        BY <4>1, <3>1, <3>5, <2>3
      <4>2. CASE i # 1
        <5>1. i = 5 \/ (i \in 2..4 /\ i - 1 \in 1..3)
          BY <4>2
        <5> QED
          BY <5>1, <3>5, <1>3
      <4> QED
        BY <4>1, <4>2
    <3> QED
      BY <3>5, <3>6
  <2> QED
    BY <2>2, <2>3
<1>5. velEvent = "none" /\ ToolsTyped'
  BY <1>1, <1>4, TestNumbers DEF ToolsInv, ToolsTyped
<1>6. NoneFor("stop")'
  BY <1>4 DEF NoneFor
<1>7. NoTargets => NoTargets'
  BY <1>1 DEF NoTargets
<1>8. \A i \in 1..Len(calls') :
        /\ calls'[i].register = "mode" => i = 1 /\ NoTargets'
        /\ calls'[i].register = "target" => calls'[i].value # Tools!NoTarget
  BY <1>1, <1>2, <1>4, <1>7
<1>9. TuneInv' /\ TestInv' /\ FakeInv'
  BY <1>1, <1>6, <1>8 DEF TuneInv, TestInv, FakeInv
<1> QED
  BY <1>5, <1>9 DEF ToolsInv

LEMMA FakeKeeps == ToolsInv /\ Tools!FakeCANBoard => ToolsInv'
<1> SUFFICES ASSUME ToolsInv, Tools!FakeCANBoard PROVE ToolsInv'
  OBVIOUS
<1>1. CASE \E n \in -1..9 : Tools!Choose(n)
  BY <1>1, ChooseKeeps
<1>2. CASE \E s \in Serials, x \in Answers :
             Tools!ModeSet(s, x) \/ Tools!PWM(s, x) \/ Tools!ScienceServos(s, x)
  BY <1>2, AnsweredTestKeeps
<1>3. CASE \E s \in Serials, x \in Answers : Tools!PID(s, x)
  BY <1>3, PIDKeeps
<1>4. CASE \E s \in Serials : Tools!PIDVel(s)
  BY <1>4, SetUpKeeps
<1>5. CASE \E s \in Serials, b \in BOOLEAN :
             Tools!Encoder(s, b) \/ Tools!LimitSwitch(s, b) \/ Tools!Telemetry(s, b)
  BY <1>5, SetUpKeeps
<1>6. CASE Tools!SetMotorVel \/ Tools!Event \/ Tools!TimeUp \/ Tools!CutPower
  BY <1>6, VelocityTestKeeps
<1> QED
  BY <1>1, <1>2, <1>3, <1>4, <1>5, <1>6 DEF Tools!FakeCANBoard

LEMMA Paired ==
  ASSUME NEW p \in Packets, NEW q \in Packets
  PROVE  <<p>> \o <<q>> = <<p, q>>
<1> DEFINE u == <<p>> \o <<q>>
<1>1. <<p>> \in Seq(Packets) /\ Len(<<p>>) = 1 /\ <<p>>[1] = p
  BY Lists
<1>2. /\ u \in Seq(Packets) /\ Len(u) = Len(<<p>>) + 1
      /\ \A i \in 1..Len(<<p>>) : u[i] = <<p>>[i]
      /\ u[Len(<<p>>) + 1] = q
  BY <1>1, Ended
<1> HIDE DEF u
<1>3. u \in Seq(Packets) /\ Len(u) = 2 /\ u[1] = p /\ u[2] = q
  BY <1>1, <1>2
<1>4. u = <<p, q>>
  BY <1>3
<1> QED
  BY <1>4 DEF u

LEMMA TestKeeps ==
  ASSUME ToolsInv, NEW n \in -1..4, NEW socket \in BOOLEAN, Tools!CANTest(n, socket)
  PROVE  ToolsInv'
<1> DEFINE both == <<ModeCall(10, Tools!Pwm), DutyCall(10, 10000)>>
           first == <<ModeCall(10, Tools!Pwm)>>
           second == <<DutyCall(10, 10000)>>
<1>1. /\ program = "CANTest" /\ step = "start" /\ step' = "done"
      /\ asked' = IF calls' = <<>> THEN Tools!NoTarget ELSE 10000
      /\ UNCHANGED <<program, serial, velEvent, board, lost>>
  BY DEF Tools!CANTest
<1>2. ModeCall(10, Tools!Pwm) \in Packets /\ DutyCall(10, 10000) \in Packets
  <2>1. 10 \in Serials
    BY ToolsAssumption
  <2> QED
    BY <2>1 DEF ModeCall, DutyCall, Packets, Registers, Tools!Pwm
<1>3. first \o second = both
  BY <1>2, Paired
<1>4. Tools!Automatic = both
  <2>1. Tools!Int16(10000) = 10000
    BY SMT DEF Tools!Int16
  <2>2. /\ Tools!SetMotorMode(10, Tools!Pwm) = first
        /\ Tools!SetMotorPower(10, Tools!Int16(10000)) = second
    BY <2>1 DEF Tools!SetMotorMode, Tools!SetMotorPower, Tools!Packet, ModeCall, DutyCall
  <2> HIDE DEF first, second, both
  <2> QED
    BY <2>2, <1>3 DEF Tools!Automatic
<1>5. Tools!FullManual = both
  <2>1. Tools!Group(1290) = 4 /\ 1290 % 64 = 10
    BY SMT DEF Tools!Group
  <2>2. Tools!Decode(1290, <<0, 0>>) = <<ModeCall(10, Tools!Pwm)>>
    BY <2>1 DEF Tools!Decode, Tools!SetMotorMode, Tools!Packet, ModeCall, Tools!Pwm
  <2>3. Tools!Decode(1290, <<3, 39, 16>>) = <<DutyCall(10, 10000)>>
    <3>1. Tools!Int16(256 * 39 + 16) = 10000
      BY SMT DEF Tools!Int16
    <3>2. Tools!Decode(1290, <<3, 39, 16>>) = Tools!SetMotorPower(10, Tools!Int16(256 * 39 + 16))
      BY <2>1 DEF Tools!Decode
    <3> QED
      BY <3>1, <3>2 DEF Tools!SetMotorPower, Tools!Packet, DutyCall
  <2>4. Tools!Decode(1290, <<0, 0>>) = first /\ Tools!Decode(1290, <<3, 39, 16>>) = second
    BY <2>2, <2>3
  <2> HIDE DEF first, second, both
  <2> QED
    BY <2>4, <1>3 DEF Tools!FullManual
<1>6. calls' \in {both, <<>>}
  BY <1>4, <1>5 DEF Tools!CANTest, Tools!ManualSend
<1>7. both \in Seq(Packets) /\ both # <<>> /\ Len(both) = 2
      /\ \A i \in 1..2 : both[i].register # "target"
  <2>1. ModeCall(10, Tools!Pwm).register = "mode" /\ DutyCall(10, 10000).register = "duty"
    BY DEF ModeCall, DutyCall
  <2> QED
    BY <2>1, <1>2, Lists
<1> HIDE DEF both
<1>8. calls' \in Seq(Packets) /\ NoneFor("target")'
  <2>1. CASE calls' = both
    BY <2>1, <1>7 DEF NoneFor
  <2>2. CASE calls' = <<>>
    BY <2>2, Lists DEF NoneFor
  <2> QED
    BY <2>1, <2>2, <1>6
<1>9. velEvent = "none"
  BY <1>1 DEF ToolsInv, ToolsTyped
<1>10. ToolsTyped'
  BY <1>1, <1>8, <1>9 DEF ToolsInv, ToolsTyped
<1>11. TestInv'
  <2>1. NoTargets'
    BY <1>1 DEF ToolsInv, TestInv, NoTargets
  <2>2. asked' # Tools!NoTarget => calls' = both
    BY <1>1, <1>6
  <2>3. asked' \in {Tools!NoTarget, 10000}
    BY <1>1
  <2> QED
    BY <2>1, <2>2, <2>3, <1>1, <1>8 DEF TestInv, both
<1>12. TuneInv' /\ FakeInv'
  BY <1>1 DEF TuneInv, FakeInv
<1> QED
  BY <1>10, <1>11, <1>12 DEF ToolsInv

LEMMA TuneKeeps == ToolsInv /\ Tools!TunePID => ToolsInv'
<1> SUFFICES ASSUME ToolsInv, Tools!TunePID PROVE ToolsInv'
  OBVIOUS
<1>1. ToolsTyped /\ TuneInv /\ FakeInv
  BY DEF ToolsInv
<1>2. velEvent # "none" \/ step \in {"velocity", "over", "stopping"} => program = "FakeCANBoard"
  BY <1>1 DEF ToolsTyped
<1>3. program = "TunePID"
  BY <1>1 DEF ToolsTyped, Tools!TunePID, Tools!TuneSetUp, Tools!TuneStart, Tools!TuneStep,
              Tools!TuneEnd, Tools!Cleanup
<1>4. /\ calls \in Seq(Packets) /\ board \in [Serials -> Boards] /\ serial \in Serials
      /\ velEvent = "none" /\ test = -1
      /\ step \in {"start", "wait", "tune", "thrown", "done", "interrupted"}
      /\ \A s \in Serials : board[s].duty = 0
  BY <1>1, <1>2, <1>3 DEF ToolsTyped, TuneInv
<1>5. UNCHANGED <<program, test, board, lost, velEvent>>
  BY DEF Tools!TunePID, Tools!TuneSetUp, Tools!TuneStart, Tools!TuneStep, Tools!TuneEnd,
         Tools!Cleanup
<1>6. TestInv' /\ FakeInv'
  BY <1>3, <1>5 DEF TestInv, FakeInv
<1>7. NoTargets => NoTargets'
  BY <1>5 DEF NoTargets
<1>8. CASE \E s \in Serials : Tools!TuneSetUp(s)
  <2> PICK s \in Serials : Tools!TuneSetUp(s)
    BY <1>8
  <2>1. /\ step = "start" /\ step' = "wait" /\ serial' = s /\ UNCHANGED <<asked, mode>>
        /\ calls' = Tools!SetMotorMode(s, Tools!Pid) \o Tools!SetMotorPIDConstants(s)
    BY DEF Tools!TuneSetUp
  <2> DEFINE first == Tools!Packet(s, "mode", Tools!Pid)
             constants == Tools!SetMotorPIDConstants(s)
  <2>2. first \in Packets /\ first.register = "mode"
    <3>1. \A m \in Int : Tools!Packet(s, "mode", m) \in Packets
      BY PacketTyped DEF Registers
    <3> QED
      BY <3>1 DEF Tools!Pid, Tools!Packet
  <2>3. /\ constants \in Seq(Packets) /\ Len(constants) = 3
        /\ \A i \in 1..3 : constants[i].register \in {"P", "I", "D"}
    <3>1. constants \in Seq(Packets)
      BY CallsTyped
    <3>2. /\ Len(constants) = 3 /\ constants[1].register = "P" /\ constants[2].register = "I"
          /\ constants[3].register = "D"
      BY DEF Tools!SetMotorPIDConstants, Tools!Packet
    <3> QED
      BY <3>1, <3>2
  <2>4. calls' = <<first>> \o constants
    BY <2>1 DEF Tools!SetMotorMode
  <2> HIDE DEF first, constants
  <2>5. /\ calls' \in Seq(Packets) /\ Len(calls') = 4 /\ calls'[1] = first
        /\ \A i \in 2..4 : calls'[i] = constants[i - 1]
    BY <2>2, <2>3, <2>4, Begun
  <2>6. ASSUME NEW i \in 1..4 PROVE calls'[i].register \in {"mode", "P", "I", "D"}
    <3>1. CASE i = 1
      BY <3>1, <2>2, <2>5
    <3>2. CASE i # 1
      <4>1. i \in 2..4 /\ i - 1 \in 1..3
        BY <3>2
      <4> QED
        BY <4>1, <2>3, <2>5
    <3> QED
      BY <3>1, <3>2
  <2>7. NoneFor("target")' /\ \A i \in 1..Len(calls') : calls'[i].register # "duty"
    BY <2>5, <2>6 DEF NoneFor
  <2>8. ToolsTyped'
    BY <2>1, <2>5, <1>1, <1>3, <1>4, <1>5 DEF ToolsTyped
  <2>9. TuneInv'
    BY <2>1, <2>7, <1>1, <1>3, <1>4, <1>5, <1>7 DEF TuneInv
  <2> QED
    BY <2>8, <2>9, <1>6 DEF ToolsInv
<1>9. CASE \E p \in BOOLEAN : Tools!TuneStart(p)
  <2>1. /\ step = "wait" /\ calls = <<>> /\ step' \in {"tune", "thrown"}
        /\ UNCHANGED <<calls, serial, asked, mode>>
    BY <1>9 DEF Tools!TuneStart
  <2>2. NoneFor("target")' /\ \A i \in 1..Len(calls') : calls'[i].register # "duty"
    BY <2>1 DEF NoneFor
  <2>3. ToolsTyped'
    BY <2>1, <1>1, <1>3, <1>4, <1>5 DEF ToolsTyped
  <2>4. TuneInv'
    BY <2>1, <2>2, <1>1, <1>3, <1>4, <1>5, <1>7 DEF TuneInv
  <2> QED
    BY <2>3, <2>4, <1>6 DEF ToolsInv
<1>10. CASE \E sine \in -2..2 : Tools!TuneStep(sine)
  <2> PICK sine \in -2..2 : Tools!TuneStep(sine)
    BY <1>10
  <2>1. /\ step = "tune" /\ calls = <<>> /\ mode' = Tools!Pid
        /\ asked' = (sine * Amplitude) \div 2
        /\ calls' = Tools!EnsureMotorMode(serial, Tools!Pid)
                     \o <<Tools!Packet(serial, "target", asked')>>
        /\ UNCHANGED <<step, serial>>
    BY DEF Tools!TuneStep
  <2>2. asked' \in Int /\ asked' \in -Amplitude..Amplitude
    <3>1. sine \in {-2, -1, 0, 1, 2}
      BY SMT
    <3> QED
      BY <3>1, <2>1, ToolsAssumption
  <2> DEFINE target == Tools!Packet(serial, "target", asked')
             first == Tools!EnsureMotorMode(serial, Tools!Pid)
  <2>3. target \in Packets /\ target.register = "target"
    <3>1. target \in Packets
      BY <2>2, <1>4, PacketTyped DEF Registers
    <3> QED
      BY <3>1 DEF Tools!Packet
  <2>4. first \in Seq(Packets) /\ \A i \in 1..Len(first) : first[i].register = "mode"
    <3>1. CASE mode = Tools!Pid
      <4>1. first = <<>>
        BY <3>1 DEF Tools!EnsureMotorMode
      <4> QED
        BY <4>1
    <3>2. CASE mode # Tools!Pid
      <4> DEFINE p == Tools!Packet(serial, "mode", Tools!Pid)
      <4>1. first = <<p>>
        BY <3>2 DEF Tools!EnsureMotorMode, Tools!SetMotorMode
      <4>2. p \in Packets /\ p.register = "mode"
        <5>1. \A m \in Int : Tools!Packet(serial, "mode", m) \in Packets
          BY <1>4, PacketTyped DEF Registers
        <5> QED
          BY <5>1 DEF Tools!Pid, Tools!Packet
      <4> HIDE DEF p, first
      <4> QED
        BY <4>1, <4>2
    <3> QED
      BY <3>1, <3>2
  <2>5. calls' = first \o <<target>>
    BY <2>1
  <2> HIDE DEF target, first
  <2>6. /\ calls' \in Seq(Packets)
        /\ \A i \in 1..Len(calls') : calls'[i].register \in {"mode", "target"}
    <3>1. /\ first \o <<target>> \in Seq(Packets) /\ Len(first \o <<target>>) = Len(first) + 1
          /\ \A i \in 1..Len(first) : (first \o <<target>>)[i] = first[i]
          /\ (first \o <<target>>)[Len(first) + 1] = target
      BY <2>3, <2>4, Ended
    <3>2. Len(first) \in Nat
      BY <2>4
    <3>3. ASSUME NEW i \in 1..Len(calls') PROVE calls'[i].register \in {"mode", "target"}
      <4>1. i \in 1..Len(first) \/ i = Len(first) + 1
        BY <3>1, <3>2, <2>5
      <4> QED
        BY <4>1, <3>1, <2>3, <2>4, <2>5
    <3> QED
      BY <3>1, <3>3, <2>5
  <2>7. ToolsTyped'
    BY <2>1, <2>6, <1>1, <1>3, <1>4, <1>5 DEF ToolsTyped
  <2>8. mode' # Tools!Pwm
    BY <2>1 DEF Tools!Pwm, Tools!Pid
  <2>9. TuneInv'
    BY <2>1, <2>2, <2>6, <2>8, <1>1, <1>3, <1>4, <1>5 DEF TuneInv
  <2> QED
    BY <2>7, <2>9, <1>6 DEF ToolsInv
<1>11. CASE Tools!TuneEnd
  <2>1. /\ step = "tune" /\ step' = "done" /\ UNCHANGED <<serial, asked>>
        /\ calls' = Tools!EnsureMotorMode(serial, Tools!Pwm) \o Tools!SetMotorPower(serial, 0)
    BY <1>11 DEF Tools!TuneEnd
  <2> DEFINE first == ModeCall(serial, Tools!Pwm)
             second == DutyCall(serial, 0)
  <2>2. mode # Tools!Pwm
    BY <2>1, <1>1, <1>3 DEF TuneInv
  <2>3. /\ Tools!EnsureMotorMode(serial, Tools!Pwm) = <<first>>
        /\ Tools!SetMotorPower(serial, 0) = <<second>>
    BY <2>2 DEF Tools!EnsureMotorMode, Tools!SetMotorMode, Tools!SetMotorPower, Tools!Packet,
                ModeCall, DutyCall
  <2>4. /\ first \in Packets /\ second \in Packets
        /\ first.register = "mode" /\ second.register = "duty" /\ second.value = 0
    <3>1. first \in Packets /\ second \in Packets
      <4>1. serial \in Serials
        BY <1>4
      <4> QED
        BY <4>1 DEF ModeCall, DutyCall, Packets, Registers, Tools!Pwm
    <3> QED
      BY <3>1 DEF ModeCall, DutyCall
  <2> HIDE DEF first, second
  <2>5. calls' = <<first, second>>
    <3>1. calls' = <<first>> \o <<second>>
      BY <2>1, <2>3
    <3> QED
      BY <3>1, <2>4, Paired
  <2>6. /\ calls' \in Seq(Packets)
        /\ \A i \in 1..Len(calls') : calls'[i].register = "duty" => calls'[i].value = 0
    BY <2>4, <2>5, Lists
  <2>7. ToolsTyped'
    BY <2>1, <2>6, <1>1, <1>3, <1>4, <1>5 DEF ToolsTyped
  <2>8. calls' = <<ModeCall(serial', Tools!Pwm), DutyCall(serial', 0)>>
    BY <2>1, <2>5 DEF first, second
  <2>9. TuneInv'
    BY <2>1, <2>6, <2>8, <1>1, <1>3, <1>4, <1>5 DEF TuneInv
  <2> QED
    BY <2>7, <2>9, <1>6 DEF ToolsInv
<1>12. CASE Tools!Cleanup
  <2>1. /\ step' = "interrupted" /\ UNCHANGED <<serial, asked, mode>>
        /\ calls' = Tools!EmergencyStopMotors
    BY <1>12 DEF Tools!Cleanup
  <2>2. calls' \in Seq(Packets) /\ \A i \in 1..Len(calls') : calls'[i].register # "duty"
    <3>1. Tools!EmergencyStopMotors \in Seq(Packets)
      BY <1>4, CallsTyped
    <3> QED
      BY <3>1, <2>1 DEF Tools!EmergencyStopMotors
  <2>3. ToolsTyped'
    BY <2>1, <2>2, <1>1, <1>3, <1>4, <1>5 DEF ToolsTyped
  <2>4. TuneInv'
    BY <2>1, <2>2, <1>1, <1>3, <1>4, <1>5 DEF TuneInv
  <2> QED
    BY <2>3, <2>4, <1>6 DEF ToolsInv
<1> QED
  BY <1>8, <1>9, <1>10, <1>11, <1>12 DEF Tools!TunePID

\* A board with a target loses it to a mode or a stop only, and the PID test sends neither then.
LEMMA ToolsStep ==
  ToolsInv /\ [Tools!Next]_toolVars => ToolsInv' /\ (Tools!Next => Tools!HoldsTarget)
<1> SUFFICES ASSUME ToolsInv, [Tools!Next]_toolVars
             PROVE  ToolsInv' /\ (Tools!Next => Tools!HoldsTarget)
  OBVIOUS
<1>1. ASSUME UNCHANGED toolVars PROVE ToolsInv'
  BY <1>1 DEF toolVars, ToolsInv, ToolsTyped, TuneInv, TestInv, FakeInv, NoTargets, NoneFor
<1>2. CASE Tools!Sends
  <2> PICK ok \in BOOLEAN : Tools!Send(ok)
    BY <1>2 DEF Tools!Sends
  <2>1. ToolsInv'
    BY SendKeeps
  <2>2. Tools!HoldsTarget
    <3> SUFFICES ASSUME NEW s \in Serials, test = Tools!Tests.PID,
                        board[s].target # Tools!NoTarget
                 PROVE  board'[s].target # Tools!NoTarget
      BY DEF Tools!HoldsTarget
    <3>1. /\ calls # <<>> /\ calls[1] \in Packets /\ 1 \in 1..Len(calls)
          /\ board'[s] = board[s] \/ board'[s] = Tools!Board(board[s], calls[1])
          /\ board[s] \in Boards
      BY SendChanges DEF ToolsInv, ToolsTyped
    <3>2. program = "FakeCANBoard"
      BY <3>1, TestNumbers DEF ToolsInv, ToolsTyped, TuneInv, TestInv, NoTargets
    <3>3. ~NoTargets
      BY DEF NoTargets
    <3>4. /\ calls[1].register \notin {"mode", "stop"}
          /\ calls[1].register = "target" => calls[1].value # Tools!NoTarget
      BY <3>1, <3>2, <3>3 DEF ToolsInv, FakeInv, NoneFor
    <3>5. ASSUME board'[s] = Tools!Board(board[s], calls[1])
          PROVE  board'[s].target \in {board[s].target, calls[1].value}
                 /\ (board'[s].target # board[s].target => calls[1].register = "target")
      BY <3>1, <3>4, <3>5, BoardChanges
    <3> QED
      BY <3>1, <3>4, <3>5
  <2> QED
    BY <2>1, <2>2
<1>3. CASE Tools!FakeCANBoard \/ Tools!TunePID
           \/ \E n \in -1..4, socket \in BOOLEAN : Tools!CANTest(n, socket)
  <2>1. ToolsInv'
    BY <1>3, FakeKeeps, TuneKeeps, TestKeeps
  <2>2. UNCHANGED board
    <3>1. ASSUME NEW s, NEW x,
                 Tools!ModeSet(s, x) \/ Tools!PWM(s, x) \/ Tools!PID(s, x)
                   \/ Tools!ScienceServos(s, x)
          PROVE  UNCHANGED board
      BY <3>1 DEF Tools!ModeSet, Tools!PWM, Tools!PID, Tools!ScienceServos
    <3>2. ASSUME NEW s, NEW b,
                 Tools!PIDVel(s) \/ Tools!Encoder(s, b) \/ Tools!LimitSwitch(s, b)
                   \/ Tools!Telemetry(s, b)
          PROVE  UNCHANGED board
      BY <3>2 DEF Tools!PIDVel, Tools!Encoder, Tools!LimitSwitch, Tools!Telemetry
    <3>3. ASSUME Tools!SetMotorVel \/ Tools!Event \/ Tools!TimeUp \/ Tools!CutPower
          PROVE  UNCHANGED board
      BY <3>3 DEF Tools!SetMotorVel, Tools!Event, Tools!TimeUp, Tools!CutPower
    <3>4. ASSUME NEW n, NEW b, Tools!Choose(n) \/ Tools!CANTest(n, b) PROVE UNCHANGED board
      BY <3>4 DEF Tools!Choose, Tools!CANTest
    <3>5. ASSUME Tools!TunePID PROVE UNCHANGED board
      BY <3>5 DEF Tools!TunePID, Tools!TuneSetUp, Tools!TuneStart, Tools!TuneStep, Tools!TuneEnd,
                  Tools!Cleanup
    <3> QED
      BY <1>3, <3>1, <3>2, <3>3, <3>4, <3>5 DEF Tools!FakeCANBoard
  <2> QED
    BY <2>1, <2>2 DEF Tools!HoldsTarget
<1> QED
  BY <1>1, <1>2, <1>3 DEF Tools!Next

LEMMA ToolsEnd == ToolsInv => Tools!ToolsEndSafely
<1> SUFFICES ASSUME ToolsInv, lost = 0
             PROVE  /\ program = "TunePID" /\ step \in {"done", "interrupted"} /\ calls = <<>> =>
                         Tools!Off(serial)
                    /\ program = "TunePID" /\ asked # Tools!NoTarget =>
                         asked \in -Amplitude..Amplitude
                    /\ step = "thrown" => board[serial].target = Tools!NoTarget
                    /\ program = "CANTest" /\ step = "done" /\ calls = <<>>
                         /\ asked # Tools!NoTarget =>
                         board[10].mode = Tools!Pwm /\ board[10].duty = asked
  BY DEF Tools!ToolsEndSafely
<1>1. serial \in Serials
  BY DEF ToolsInv, ToolsTyped
<1>2. ASSUME program = "TunePID", step \in {"done", "interrupted"}, calls = <<>>
      PROVE  Tools!Off(serial)
  <2>1. Tools!EmergencyStopMotors # <<>> /\ Tools!Pwm # Tools!Pid /\ Tools!Reset # Tools!Pid
    BY DEF Tools!EmergencyStopMotors, Tools!Pwm, Tools!Pid, Tools!Reset
  <2>2. board[serial].duty = 0 /\ board[serial].mode \in {Tools!Pwm, Tools!Reset}
    BY <1>1, <1>2, <2>1 DEF ToolsInv, TuneInv
  <2> QED
    BY <2>1, <2>2 DEF Tools!Off
<1>3. ASSUME step = "thrown" PROVE board[serial].target = Tools!NoTarget
  BY <1>1, <1>3 DEF ToolsInv, ToolsTyped, TuneInv, NoTargets
<1>4. ASSUME program = "CANTest", step = "done", calls = <<>>, asked # Tools!NoTarget
      PROVE  board[10].mode = Tools!Pwm /\ board[10].duty = asked
  BY <1>4 DEF ToolsInv, TestInv
<1> QED
  BY <1>2, <1>3, <1>4 DEF ToolsInv, TuneInv

\* FakeCANBoard.cpp, CANTest.cpp, TunePID.cpp: for any boards, answers and amplitude, TunePID
\* leaves its motor off however it ends and stays within its amplitude, every mode of CANTest
\* leaves board 10 alike, and a board of the PID test keeps a target from the first one on.
THEOREM ToolsEndSafelyAlways == MissionSpec => ToolsEndSafely
<1>1. MissionInit => ToolsInv
  BY ToolsInit DEF MissionInit
<1>2. [MissionNext]_missionVars => [Tools!Next]_toolVars
  BY DEF MissionNext, missionVars, toolVars
<1>3. ToolsInv /\ [MissionNext]_missionVars => ToolsInv'
  BY <1>2, ToolsStep
<1>4. ToolsInv' => Tools!ToolsEndSafely'
  BY ToolsEnd, PTL
<1>5. ToolsInv' => [Tools!ToolsEndSafely']_toolVars
  BY <1>4
<1>6. ToolsInv /\ [MissionNext]_missionVars => [Tools!HoldsTarget]_(Tools!vars)
  <2>1. UNCHANGED toolVars => UNCHANGED Tools!vars
    BY DEF toolVars, Tools!vars, Tools!tool
  <2> QED
    BY <1>2, <2>1, ToolsStep
<1> QED
  BY <1>1, <1>3, <1>5, <1>6, PTL DEF MissionSpec, ToolsEndSafely, Tools!TargetIsHeld
=============================================================================
