------------------------------ MODULE Requests ------------------------------
(***************************************************************************)
(* From a text message to its handler: SingleClientWSServer::onMessage,    *)
(* WebSocketProtocol::processMessage and the validators and conversions of *)
(* MissionControlProtocol.cpp and ArduPilotProtocol.cpp. A value is its    *)
(* JSON type, as the parser sets it, and whether it is among the values    *)
(* that are meant: a number in its range, a string of an enumeration. What *)
(* throws ends the program: serverTask catches websocketpp's errors only.  *)
(***************************************************************************)
EXTENDS Integers, Sequences

CONSTANT Values   \* the values that fields have, among those of AllValues

Numbers == {"float", "unsigned", "integer"}   \* 1.0, 1, -1
AllValues == [type : Numbers \cup {"absent", "string", "boolean", "other"}, ok : BOOLEAN]
Fields ==
  [emergencyStopRequest |-> {"stop"}, operationModeRequest |-> {"mode"},
   driveRequest |-> {"straight", "steer"}, setArmIKEnabled |-> {"enabled"},
   jointPowerRequest |-> {"joint", "power"}, jointPositionRequest |-> {"joint", "position"},
   cameraStreamOpenRequest |-> {"camera", "fps"}, cameraStreamCloseRequest |-> {"camera"},
   gps |-> {"lat", "lon"}, orientation |-> {"roll", "pitch", "yaw"}, heading |-> {"heading"}]

VARIABLES registered,  \* the number of calls of addMessageHandler so far
          handlerMap, validatorMap,   \* from types to the calls that added them
          handed,      \* the message that the last handler got: its type and fields
          thrown       \* the message that ended the program
vars == <<registered, handlerMap, validatorMap, handed, thrown>>
Nothing == <<>>

Init ==
  /\ registered = 0 /\ handlerMap = Nothing /\ validatorMap = Nothing
  /\ handed = Nothing /\ thrown = Nothing

\* The constructor of MissionControlProtocol, and initArduPilotServer.
MissionControl ==
  <<"emergencyStopRequest", "operationModeRequest", "driveRequest", "setArmIKEnabled",
    "setArmIKEnabled", "jointPowerRequest", "jointPositionRequest", "cameraStreamOpenRequest",
    "cameraStreamCloseRequest">>
ArduPilot == <<"gps", "orientation", "heading">>
Registrations == MissionControl \o ArduPilot
With(map, type, n) == [t \in DOMAIN map \cup {type} |-> IF t = type THEN n ELSE map[t]]
\* A type that has a handler keeps it.
AddMessageHandler ==
  /\ registered < Len(Registrations) /\ registered' = registered + 1
  /\ LET type == Registrations[registered']
     IN IF type \in DOMAIN handlerMap THEN UNCHANGED <<handlerMap, validatorMap>>
        ELSE /\ handlerMap' = With(handlerMap, type, registered')
             /\ validatorMap' = With(validatorMap, type, registered')
  /\ UNCHANGED <<handed, thrown>>

(***************************************************************************)
(* Validators, by the fields they look at.                                 *)
(***************************************************************************)
HasKey(v) == v.type # "absent"
ValidateKey(v, types) == HasKey(v) /\ v.type \in types
ValidateOneOf(v) == ValidateKey(v, {"string"}) /\ v.ok
\* Mistake: the type is taken for granted.
ValidateRange_AnyType(v) == v.ok
ValidateRange(v) == ValidateKey(v, Numbers) /\ v.ok

ValidateEmergencyStopRequest(f) == ValidateKey(f.stop, {"boolean"})
ValidateOperationModeRequest(f) == ValidateKey(f.mode, {"string"}) /\ ValidateOneOf(f.mode)
ValidateDriveRequest(f) == ValidateRange(f.straight) /\ ValidateRange(f.steer)
ValidateArmIKEnable(f) == ValidateKey(f.enabled, {"boolean"})
ValidateJoint(f) == ValidateKey(f.joint, {"string"}) /\ f.joint.ok
ValidateJointPowerRequest(f) == ValidateJoint(f) /\ ValidateRange(f.power)
ValidateJointPositionRequest(f) == ValidateJoint(f) /\ ValidateKey(f.position, {"integer"})
ValidateCameraStreamOpenRequest(f) == ValidateKey(f.camera, {"string"})
ValidateCameraStreamCloseRequest(f) == ValidateKey(f.camera, {"string"})
ValidateGPSRequest(f) == ValidateKey(f.lat, {"float"}) /\ ValidateKey(f.lon, {"float"})
ValidateIMURequest(f) == \A x \in {"roll", "pitch", "yaw"} : ValidateKey(f[x], {"float"})
ValidateHeadingRequest(f) == ValidateKey(f.heading, {"float"})
Valid(type, f) ==
  \/ type = "emergencyStopRequest" /\ ValidateEmergencyStopRequest(f)
  \/ type = "operationModeRequest" /\ ValidateOperationModeRequest(f)
  \/ type = "driveRequest" /\ ValidateDriveRequest(f)
  \/ type = "setArmIKEnabled" /\ ValidateArmIKEnable(f)
  \/ type = "jointPowerRequest" /\ ValidateJointPowerRequest(f)
  \/ type = "jointPositionRequest" /\ ValidateJointPositionRequest(f)
  \/ type = "cameraStreamOpenRequest" /\ ValidateCameraStreamOpenRequest(f)
  \/ type = "cameraStreamCloseRequest" /\ ValidateCameraStreamCloseRequest(f)
  \/ type = "gps" /\ ValidateGPSRequest(f)
  \/ type = "orientation" /\ ValidateIMURequest(f)
  \/ type = "heading" /\ ValidateHeadingRequest(f)

(***************************************************************************)
(* Messages.                                                               *)
(***************************************************************************)
\* What the handlers convert a field to: a bool, a string, or a number, to which an
\* int is converted from a bool too. The fps are read for a camera that there is.
Convertible(x) ==
  IF x \in {"stop", "enabled"} THEN {"boolean"}
  ELSE IF x \in {"mode", "joint", "camera"} THEN {"string"}
  ELSE IF x \in {"fps", "heading"} THEN Numbers \cup {"boolean"}
  ELSE Numbers
Read(type, f) == IF type = "cameraStreamOpenRequest" /\ ~f.camera.ok THEN {"camera"}
                 ELSE Fields[type]
\* The handlers: MissionControlProtocol's and ArduPilotProtocol's.
Handle(type, f) ==
  IF \A x \in Read(type, f) : f[x].type \in Convertible(x)
  THEN handed' = <<type, f>> /\ UNCHANGED thrown
  ELSE thrown' = <<type, f>> /\ UNCHANGED handed

Running == registered = Len(Registrations) /\ thrown = Nothing
\* A message that is an object and has a type that is a string.
ProcessMessage(type, f) ==
  /\ Running
  /\ IF type \in DOMAIN validatorMap /\ Valid(Registrations[validatorMap[type]], f)
     THEN Handle(Registrations[handlerMap[type]], f) ELSE UNCHANGED <<handed, thrown>>
  /\ UNCHANGED <<registered, handlerMap, validatorMap>>
\* Any other text: parse throws, and so does the conversion of a type that is no string;
\* an object without a type, or of an unknown one, is ignored, as is an unknown path.
OnMessage(text) ==
  /\ Running /\ thrown' = IF text \in {"no JSON", "type is no string"} THEN <<text>> ELSE Nothing
  /\ UNCHANGED <<registered, handlerMap, validatorMap, handed>>

Next ==
  \/ AddMessageHandler
  \/ \E type \in DOMAIN Fields : \E f \in [Fields[type] -> Values] : ProcessMessage(type, f)
  \/ \E text \in {"no JSON", "type is no string", "no type", "unknown type", "unknown path"} :
       OnMessage(text)
Spec == Init /\ [][Next]_vars

(***************************************************************************)
(* Properties.                                                             *)
(***************************************************************************)
\* "handlers expect valid messages, so call validator first" (MissionControlProtocol.cpp:69):
\* what passes the validator of a type, its handler converts, whatever the fields are; the
\* fps of a camera's stream are the exception, since no validator looks at them.
ValidatedIsConverted ==
  Len(thrown) = 2 =>
    thrown[1] = "cameraStreamOpenRequest" /\ thrown[2].fps.type \notin Convertible("fps")

\* The wheels and the joints are only asked for powers in their range, and for a mode or a
\* joint that there is.
HandedIsMeant ==
  handed = Nothing \/ \A x \in DOMAIN handed[2] \cap {"straight", "steer", "power", "mode", "joint"} :
    handed[2][x].ok
=============================================================================
