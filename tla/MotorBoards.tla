---------------------------- MODULE MotorBoards ----------------------------
(***************************************************************************)
(* The real rover's motors from the start on: CAN.cpp opens the sockets,   *)
(* real_world_interface.cpp's initMotors configures the boards packet by   *)
(* packet (CANMotor.cpp, CANMotor_PSOC.cpp) and makes the motor objects    *)
(* (can_motor.cpp), which then command them. A packet whose write fails is *)
(* lost; nobody is told. Powers and scales are in percent.                 *)
(***************************************************************************)
EXTENDS Integers, Sequences, FiniteSets

CONSTANTS Motors,   \* the motors that are modelled, among those of motorSerialIDMap
          Powers,   \* the powers that callers ask for
          MaxLost   \* bound on the packets whose write fails

(***************************************************************************)
(* real_world_constants.h                                                  *)
(***************************************************************************)
Wheels == {"frontLeftWheel", "frontRightWheel", "rearLeftWheel", "rearRightWheel"}
PotMotors == {"armBase", "forearm", "wrist", "activeSuspension"}
EncMotors == {"shoulder", "elbow"}
PidMotors == {"shoulder", "elbow"}
PwmScale ==
  [armBase |-> -75, shoulder |-> 100, elbow |-> 100, forearm |-> -65, wrist |-> 60,
   frontLeftWheel |-> 70, frontRightWheel |-> -70, rearLeftWheel |-> 70,
   rearRightWheel |-> 70, hand |-> -75, activeSuspension |-> -50]

None == "none"
NoPower == 1000
NoDuty == 100000
Registers == {"mode", "pot hi", "pot lo", "encoder", "ppjr", "limit lo", "limit hi",
              "P", "I", "D", "target"}
VARIABLES fd,          \* can_fd: None, "up", or "down" when the socket could not be made
          receiving,   \* the receive thread has its socket
          stage, todo, \* where initMotors is, and the motors its loop has still to do
          calls,       \* what is still to be done: packets and steps of the rover, in order
          board,       \* the registers of each board, as the packets that arrived set them
          duty,        \* the duty cycle of each board, or NoDuty
          motor_ptrs, posSensor, pulled,  \* motors with an object, with a sensor, and pulled
          motor_mode,  \* what each object holds for its board's mode
          asked,       \* history: the power that was last asked of each motor
          lost         \* history: the motor and register (None for a duty) of packets lost
bus == <<fd, receiving>>
boards == <<board, duty>>
objects == <<motor_ptrs, posSensor, pulled, motor_mode>>
vars == <<bus, stage, todo, calls, boards, objects, asked, lost>>

Init ==
  /\ fd = None /\ receiving = FALSE /\ stage = "can" /\ todo = {} /\ calls = <<>>
  /\ board = [m \in Motors |-> [r \in Registers |-> None]]
  /\ duty = [m \in Motors |-> NoDuty]
  /\ motor_ptrs = {} /\ posSensor = {} /\ pulled = {}
  /\ motor_mode = [m \in Motors |-> None] /\ asked = [m \in Motors |-> NoPower] /\ lost = {}

(***************************************************************************)
(* createCANSocket looks for can0 and then for vcan0. initCAN goes on      *)
(* without a socket, and its receive thread makes one of its own.          *)
(***************************************************************************)
CreateCANSocket(socket, interfaces, bound) == socket /\ interfaces # {} /\ bound
Circumstances == BOOLEAN \X (SUBSET {"can0", "vcan0"}) \X BOOLEAN
InitCAN(c, r) ==
  /\ stage = "can" /\ stage' = "modes" /\ todo' = Motors
  /\ fd' = IF CreateCANSocket(c[1], c[2], c[3]) THEN "up" ELSE "down"
  /\ receiving' = CreateCANSocket(r[1], r[2], r[3])
  /\ UNCHANGED <<calls, boards, objects, asked, lost>>

(***************************************************************************)
(* initMotors: the calls for one motor in each of its loops.               *)
(***************************************************************************)
Call(do, m) == [do |-> do, m |-> m, register |-> None, value |-> None, duty |-> NoDuty]
Packet(m, register, value) == [Call("send", m) EXCEPT !.register = register, !.value = value]
Duty(m, d) == [Call("duty", m) EXCEPT !.duty = d]
Pull(m) == Call("pull", m)
AddMotorMapping(m, sensor) == Call(IF sensor THEN "map with sensor" ELSE "map", m)
InitMotor(m) == <<Packet(m, "mode", "pwm")>>
InitPotentiometer(m) == <<Packet(m, "pot hi", m), Packet(m, "pot lo", m), Pull(m)>>
InitEncoder(m) == <<Packet(m, "encoder", "zeroed"), Packet(m, "ppjr", m), Pull(m)>>
SetLimitSwitchLimits(m) == <<Packet(m, "limit lo", m), Packet(m, "limit hi", m)>>
SetMotorPIDConstants(m) == <<Packet(m, "P", m), Packet(m, "I", m), Packet(m, "D", m)>>

Stages == <<"modes", "pots", "encs", "wheels", "pids", "hand", "serving">>
After(s) == Stages[1 + (CHOOSE n \in 1..6 : Stages[n] = s)]
MotorsOf(s) ==
  Motors \cap CASE s = "modes" -> Motors [] s = "pots" -> PotMotors [] s = "encs" -> EncMotors
                [] s = "wheels" -> Wheels [] s = "pids" -> PidMotors [] s = "hand" -> {"hand"}
                [] s = "serving" -> {}
\* Mistake: the limits are set before the encoder is.
CallsFor_LimitsFirst(s, m) ==
  CASE s = "modes" -> InitMotor(m)
    [] s = "pots" -> InitPotentiometer(m) \o <<AddMotorMapping(m, TRUE)>>
    [] s = "encs" -> SetLimitSwitchLimits(m) \o InitEncoder(m) \o <<AddMotorMapping(m, TRUE)>>
    [] s = "wheels" -> <<AddMotorMapping(m, FALSE)>>
    [] s = "pids" -> SetMotorPIDConstants(m)
    [] s = "hand" -> InitMotor(m) \o <<AddMotorMapping(m, FALSE)>>
CallsFor(s, m) ==
  CASE s = "modes" -> InitMotor(m)
    [] s = "pots" -> InitPotentiometer(m) \o <<AddMotorMapping(m, TRUE)>>
    [] s = "encs" -> InitEncoder(m) \o SetLimitSwitchLimits(m) \o <<AddMotorMapping(m, TRUE)>>
    [] s = "wheels" -> <<AddMotorMapping(m, FALSE)>>
    [] s = "pids" -> SetMotorPIDConstants(m)
    [] s = "hand" -> InitMotor(m) \o <<AddMotorMapping(m, FALSE)>>
InitOne(m) ==
  /\ stage \notin {"can", "serving"} /\ calls = <<>> /\ m \in todo
  /\ todo' = todo \ {m} /\ calls' = CallsFor(stage, m)
  /\ UNCHANGED <<bus, stage, boards, objects, asked, lost>>
NextStage ==
  /\ stage \notin {"can", "serving"} /\ calls = <<>> /\ todo = {}
  /\ stage' = After(stage) /\ todo' = MotorsOf(stage')
  /\ UNCHANGED <<bus, calls, boards, objects, asked, lost>>

(***************************************************************************)
(* One call: sendCANPacket, which only reports a failure; the schedule of  *)
(* a telemetry pull; and a motor's object, which is not replaced.          *)
(***************************************************************************)
Send(ok) ==
  /\ calls # <<>> /\ calls' = Tail(calls)
  /\ LET p == Head(calls)
     IN /\ p.do \in {"send", "duty"}
        /\ IF ok THEN fd = "up" ELSE fd = "down" \/ Cardinality(lost) < MaxLost
        /\ lost' = IF ok THEN lost \ {<<p.m, p.register>>} ELSE lost \cup {<<p.m, p.register>>}
        /\ board' = IF ok /\ p.do = "send" THEN [board EXCEPT ![p.m][p.register] = p.value]
                    ELSE board
        /\ duty' = IF ok /\ p.do = "duty" THEN [duty EXCEPT ![p.m] = p.duty] ELSE duty
  /\ UNCHANGED <<bus, stage, todo, objects, asked>>
ScheduleTelemetryPull ==
  /\ calls # <<>> /\ calls' = Tail(calls) /\ Head(calls).do = "pull"
  /\ pulled' = pulled \cup {Head(calls).m}
  /\ UNCHANGED <<bus, stage, todo, boards, motor_ptrs, posSensor, motor_mode, asked, lost>>
Insert ==
  /\ calls # <<>> /\ calls' = Tail(calls) /\ Head(calls).do \in {"map", "map with sensor"}
  /\ motor_ptrs' = motor_ptrs \cup {Head(calls).m}
  /\ posSensor' = IF Head(calls).do = "map with sensor" /\ Head(calls).m \notin motor_ptrs
                  THEN posSensor \cup {Head(calls).m} ELSE posSensor
  /\ UNCHANGED <<bus, stage, todo, boards, pulled, motor_mode, asked, lost>>

(***************************************************************************)
(* Commands: can_motor's, for a motor that has an object.                  *)
(***************************************************************************)
\* The power scaled, clamped and converted to an int16_t.
Clamp(x) == IF x > 10000 THEN 10000 ELSE IF x < -10000 THEN -10000 ELSE x
Rounded(x) == IF x < 0 THEN -((-x * 2 * 32767 + 10000) \div 20000)
              ELSE (x * 2 * 32767 + 10000) \div 20000
\* Mistake: full power is 2^15, which an int16_t does not hold.
DutyCycle_Full(m, power) ==
  LET d == (Clamp(power * PwmScale[m]) * 32768) \div 10000
  IN ((d + 32768) % 65536) - 32768
DutyCycle(m, power) == Rounded(Clamp(power * PwmScale[m]))
\* Mistake: the mode is only sent, and not remembered.
EnsureMotorMode_Stale(m, mode) ==
  IF motor_mode[m] # None THEN <<>> ELSE <<Packet(m, "mode", mode)>>
EnsureMotorMode(m, mode) == IF motor_mode[m] = mode THEN <<>> ELSE <<Packet(m, "mode", mode)>>
SetMotorPower(m, power) ==
  /\ stage = "serving" /\ calls = <<>> /\ m \in motor_ptrs
  /\ calls' = Append(EnsureMotorMode(m, "pwm"), Duty(m, DutyCycle(m, power)))
  /\ motor_mode' = [motor_mode EXCEPT ![m] = "pwm"] /\ asked' = [asked EXCEPT ![m] = power]
  /\ UNCHANGED <<bus, stage, todo, boards, motor_ptrs, posSensor, pulled, lost>>
SetMotorPos(m) ==
  /\ stage = "serving" /\ calls = <<>> /\ m \in motor_ptrs
  /\ calls' = Append(EnsureMotorMode(m, "pid"), Packet(m, "target", m))
  /\ motor_mode' = [motor_mode EXCEPT ![m] = "pid"] /\ asked' = [asked EXCEPT ![m] = NoPower]
  /\ UNCHANGED <<bus, stage, todo, boards, motor_ptrs, posSensor, pulled, lost>>

Next ==
  \/ (\E c, r \in Circumstances : InitCAN(c, r)) \/ NextStage
  \/ (\E ok \in BOOLEAN : Send(ok)) \/ ScheduleTelemetryPull \/ Insert
  \/ \E m \in Motors :
       InitOne(m) \/ SetMotorPos(m) \/ (\E power \in Powers : SetMotorPower(m, power))
Spec == Init /\ [][Next]_vars

(***************************************************************************)
(* Properties.                                                             *)
(***************************************************************************)
Arrived(m, registers) ==
  \A r \in registers : board[m][r] # None \/ <<m, r>> \in lost
\* initMotors: whatever is lost on the bus, a motor's position is pulled, and its object
\* says that it has a sensor, only once its board was told how to measure it; limits of an
\* encoder are set after it was zeroed; and every motor can be commanded in the end.
BoardsAreConfigured ==
  /\ \A m \in pulled : \/ Arrived(m, {"pot hi", "pot lo"}) \/ Arrived(m, {"encoder", "ppjr"})
  /\ \A m \in posSensor : m \in PotMotors \/ Arrived(m, {"limit lo", "limit hi"})
  /\ \A m \in Motors : board[m]["limit lo"] # None => Arrived(m, {"encoder"})
  /\ stage = "serving" => /\ motor_ptrs = Motors /\ posSensor = pulled
                          /\ \A m \in Motors : Arrived(m, {"mode"})
                          /\ \A m \in Motors \cap PidMotors : Arrived(m, {"P", "I", "D"})

\* By how much a duty cycle is off, in units of the int16_t, times 10000.
Error(m) == duty[m] * 10000 - asked[m] * PwmScale[m] * 32767
InDuty(m) ==
  /\ motor_mode[m] # None /\ <<m, "mode">> \notin lost => board[m]["mode"] = motor_mode[m]
  /\ asked[m] # NoPower /\ <<m, None>> \notin lost =>
       /\ motor_mode[m] = "pwm" /\ -32767 <= duty[m] /\ duty[m] <= 32767
       /\ -5000 <= Error(m) /\ Error(m) <= 5000
\* can_motor.cpp, CANMotor.cpp: between commands a board that lost no packet is in the mode
\* that its object holds, and its duty cycle is the power that was asked last, scaled,
\* within half a unit of an int16_t, through any changes of mode.
DutyIsAsked == calls = <<>> => \A m \in Motors : InDuty(m)
=============================================================================
