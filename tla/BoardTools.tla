----------------------------- MODULE BoardTools -----------------------------
(***************************************************************************)
(* The tools that command motor boards by hand: CAN/FakeCANBoard.cpp,      *)
(* CAN/CANTest.cpp and TunePID.cpp. A step of the program puts packets on  *)
(* the bus one by one; a packet whose write fails is lost. Angles are in   *)
(* degrees from the one that the motor starts at, and answers to prompts   *)
(* that only configure a sensor are left out.                              *)
(***************************************************************************)
EXTENDS Integers, Sequences

CONSTANTS Serials,   \* the boards, 10 among them
          Answers,   \* what users type for a power or a target
          Amplitude,
          MaxLost    \* bound on the packets lost

Pwm == 0
Pid == 1
Reset == 2         \* after an emergency stop
NoTarget == 1000
Tests == [ModeSet |-> 0, PWM |-> 1, PID |-> 2, PIDVel |-> 3, Encoder |-> 4, LimitSwitch |-> 5,
          Telemetry |-> 6, ScienceMotors |-> 7, ScienceServos |-> 8]

VARIABLES program,  \* "FakeCANBoard", "CANTest" or "TunePID"
          step,     \* where it is
          test,     \* the number of the test chosen
          calls,    \* packets still to be sent
          begun,    \* mode_has_been_set
          serial, asked,   \* the board of the test, and the last target or power asked of it
          mode,     \* motor_mode of the can_motor, or Reset for none
          velEvent, \* its velocity event: "none", "scheduled" or "blocked"
          board, lost
tool == <<program, step, test, begun, serial, asked, mode, velEvent>>
vars == <<tool, calls, board, lost>>

Init ==
  /\ program \in {"FakeCANBoard", "CANTest", "TunePID"} /\ step = "start" /\ test = -1
  /\ calls = <<>> /\ begun = FALSE /\ serial = 10 /\ asked = NoTarget /\ mode = Reset
  /\ velEvent = "none" /\ lost = 0
  /\ board = [s \in Serials |-> [mode |-> Pwm, target |-> NoTarget, duty |-> 0, known |-> {}]]

(***************************************************************************)
(* The bus and the boards.                                                 *)
(***************************************************************************)
Packet(s, register, value) == [to |-> {s}, register |-> register, value |-> value]
\* static_cast<int16_t>
Int16(x) == ((x + 32768) % 65536) - 32768
\* "AVR board firmware resets the angle target every time it receives a mode set packet"
\* (FakeCANBoard.cpp:98); an emergency stop "cuts power to all motors and resets them".
Board(b, p) ==
  IF p.register = "mode" THEN [b EXCEPT !.mode = p.value, !.target = NoTarget]
  ELSE IF p.register = "stop" THEN [b EXCEPT !.mode = Reset, !.target = NoTarget, !.duty = 0]
  ELSE IF p.register = "target" THEN [b EXCEPT !.target = p.value]
  ELSE IF p.register = "duty" THEN [b EXCEPT !.duty = p.value]
  ELSE [b EXCEPT !.known = @ \cup {p.register}]
\* CANTest's own frames end the program when a write fails.
Send(ok) ==
  /\ calls # <<>> /\ (~ok => lost < MaxLost)
  /\ board' = [s \in Serials |-> IF ok /\ s \in Head(calls).to THEN Board(board[s], Head(calls))
                                 ELSE board[s]]
  /\ lost' = lost + (IF ok THEN 0 ELSE 1)
  /\ calls' = IF program = "CANTest" /\ test \in {2, 3} /\ ~ok THEN <<>> ELSE Tail(calls)
  /\ UNCHANGED tool

EmergencyStopMotors == <<[to |-> Serials, register |-> "stop", value |-> 0]>>
SetMotorMode(s, m) == <<Packet(s, "mode", m)>>
SetMotorPower(s, power) == <<Packet(s, "duty", power)>>
SetMotorPIDConstants(s) == <<Packet(s, "P", 0), Packet(s, "I", 0), Packet(s, "D", 0)>>
InitEncoder(s) == <<Packet(s, "encoder", 0), Packet(s, "ppjr", 0)>>
EnsureMotorMode(s, m) == IF mode = m THEN <<>> ELSE SetMotorMode(s, m)

(***************************************************************************)
(* FakeCANBoard: a test is chosen once, and then repeated. PIDVel can be   *)
(* chosen although the prompt does not name it.                            *)
(***************************************************************************)
Repeat(t) == program = "FakeCANBoard" /\ step = "test" /\ test = Tests[t] /\ calls = <<>>
Choose(n) ==
  /\ program = "FakeCANBoard" /\ step = "start" /\ test' = n
  /\ step' = IF \E t \in DOMAIN Tests : Tests[t] = n THEN "test" ELSE "done"
  /\ UNCHANGED <<program, calls, begun, serial, asked, mode, velEvent, board, lost>>
ModeSet(s, x) ==
  /\ Repeat("ModeSet") /\ calls' = SetMotorMode(s, IF x = 0 THEN Pwm ELSE Pid)
  /\ UNCHANGED <<tool, board, lost>>
PWM(s, x) ==
  /\ Repeat("PWM") \/ Repeat("ScienceMotors")
  /\ calls' = SetMotorMode(s, Pwm) \o SetMotorPower(s, Int16(x))
  /\ UNCHANGED <<tool, board, lost>>
\* Mistake: the mode is set for every target.
PID_EachTime(s, x) ==
  /\ Repeat("PID") /\ begun' = TRUE /\ asked' = x /\ (begun => s = serial) /\ serial' = s
  /\ calls' = SetMotorMode(s, Pid) \o SetMotorPIDConstants(s) \o <<Packet(s, "target", x)>>
  /\ UNCHANGED <<program, step, test, mode, velEvent, board, lost>>
PID(s, x) ==
  /\ Repeat("PID") /\ begun' = TRUE /\ asked' = x /\ (begun => s = serial) /\ serial' = s
  /\ calls' = (IF begun THEN <<>> ELSE SetMotorMode(s, Pid))
               \o SetMotorPIDConstants(s) \o <<Packet(s, "target", x)>>
  /\ UNCHANGED <<program, step, test, mode, velEvent, board, lost>>
\* The mode is set by hand, and again by the object, which has none; the wait for a position
\* in between is endless unless a board sends one unasked.
PIDVel(s) ==
  /\ Repeat("PIDVel") /\ ~begun /\ begun' = TRUE /\ serial' = s
  /\ calls' = SetMotorMode(s, Pid) \o SetMotorPIDConstants(s)
  /\ UNCHANGED <<program, step, test, asked, mode, velEvent, board, lost>>
SetMotorVel ==
  /\ Repeat("PIDVel") /\ begun /\ step' = "velocity" /\ velEvent' = "scheduled"
  /\ mode' = Pid /\ calls' = EnsureMotorMode(serial, Pid)
  /\ UNCHANGED <<program, test, begun, serial, asked, board, lost>>
\* The event sets a position, which is to unschedule the event: the scheduler's thread waits
\* for itself there (module MotorControl), and the position is not sent.
Event ==
  /\ velEvent = "scheduled" /\ velEvent' = "blocked" /\ mode' = Pid
  /\ calls' = EnsureMotorMode(serial, Pid) \o calls
  /\ UNCHANGED <<program, step, test, begun, serial, asked, board, lost>>
\* setMotorPower(0.0), again and again when the time is up: the mode; the event, which the
\* program waits for if it is blocked; the power.
TimeUp ==
  /\ step \in {"velocity", "over"} /\ calls = <<>> /\ step' = "stopping"
  /\ mode' = Pwm /\ calls' = EnsureMotorMode(serial, Pwm)
  /\ UNCHANGED <<program, test, begun, serial, asked, velEvent, board, lost>>
CutPower ==
  /\ step = "stopping" /\ calls = <<>> /\ velEvent # "blocked"
  /\ step' = "over" /\ velEvent' = "none" /\ calls' = SetMotorPower(serial, 0)
  /\ UNCHANGED <<program, test, begun, serial, asked, mode, board, lost>>
Encoder(s, encoder) ==
  /\ Repeat("Encoder") /\ ~begun /\ begun' = TRUE /\ serial' = s
  /\ calls' = SetMotorMode(s, Pwm)
               \o IF encoder THEN InitEncoder(s) ELSE <<Packet(s, "pot hi", 0), Packet(s, "pot lo", 0)>>
  /\ UNCHANGED <<program, step, test, asked, mode, velEvent, board, lost>>
LimitSwitch(s, testLimits) ==
  /\ Repeat("LimitSwitch") /\ ~begun /\ begun' = TRUE /\ serial' = s
  /\ calls' = IF testLimits
              THEN InitEncoder(s) \o <<Packet(s, "limit lo", 0), Packet(s, "limit hi", 0)>>
              ELSE <<>>
  /\ UNCHANGED <<program, step, test, asked, mode, velEvent, board, lost>>
Telemetry(s, useTimingPacket) ==
  /\ Repeat("Telemetry") /\ ~begun /\ begun' = TRUE /\ serial' = s
  /\ calls' = IF useTimingPacket THEN <<Packet(s, "timing", 0)>> ELSE <<>>
  /\ UNCHANGED <<program, step, test, asked, mode, velEvent, board, lost>>
ScienceServos(s, degrees) ==
  /\ Repeat("ScienceServos") /\ calls' = <<Packet(s, "servo", degrees % 256)>>
  /\ UNCHANGED <<tool, board, lost>>
FakeCANBoard ==
  \/ \E n \in -1..9 : Choose(n)
  \/ \E s \in Serials :
       \/ \E x \in Answers : ModeSet(s, x) \/ PWM(s, x) \/ PID(s, x) \/ ScienceServos(s, x)
       \/ PIDVel(s)
       \/ \E b \in BOOLEAN : Encoder(s, b) \/ LimitSwitch(s, b) \/ Telemetry(s, b)
  \/ SetMotorVel \/ Event \/ TimeUp \/ CutPower

(***************************************************************************)
(* CANTest: one mode and one power for board 10, by the rover's functions, *)
(* by packets, and by frames. Ids are group and serial, data as on the bus.*)
(***************************************************************************)
Group(id) == (id \div 64) % 16
\* Mistake: the bytes of the power are swapped.
Decode_LittleEndian(id, data) ==
  IF Group(id) # 4 THEN <<>>
  ELSE IF data[1] = 0 THEN SetMotorMode(id % 64, data[2])
  ELSE SetMotorPower(id % 64, Int16(data[2] + 256 * data[3]))
Decode(id, data) ==
  IF Group(id) # 4 THEN <<>>
  ELSE IF data[1] = 0 THEN SetMotorMode(id % 64, data[2])
  ELSE SetMotorPower(id % 64, Int16(256 * data[2] + data[3]))
Automatic == SetMotorMode(10, Pwm) \o SetMotorPower(10, Int16(10000))
ManualSend == Automatic
FullManual == Decode(1290, <<0, 0>>) \o Decode(1290, <<3, 39, 16>>)
CANTest(n, socket) ==
  /\ program = "CANTest" /\ step = "start" /\ step' = "done" /\ test' = n
  /\ calls' = IF n \in {0, 1} THEN Automatic
              ELSE IF n = 2 /\ socket THEN ManualSend
              ELSE IF n = 3 /\ socket THEN FullManual ELSE <<>>
  /\ asked' = IF calls' = <<>> THEN NoTarget ELSE 10000
  /\ UNCHANGED <<program, begun, serial, mode, velEvent, board, lost>>

(***************************************************************************)
(* TunePID: three periods of a sine around the angle at the start.         *)
(***************************************************************************)
TuneSetUp(s) ==
  /\ program = "TunePID" /\ step = "start" /\ step' = "wait" /\ serial' = s
  /\ calls' = SetMotorMode(s, Pid) \o SetMotorPIDConstants(s)
  /\ UNCHANGED <<program, test, begun, asked, mode, velEvent, board, lost>>
\* After 300 ms an angle is needed, or the conversion of none throws.
TuneStart(position) ==
  /\ step = "wait" /\ calls = <<>> /\ step' = IF position THEN "tune" ELSE "thrown"
  /\ UNCHANGED <<program, test, calls, begun, serial, asked, mode, velEvent, board, lost>>
\* setMotorPos
TuneStep(sine) ==
  /\ step = "tune" /\ calls = <<>> /\ mode' = Pid /\ asked' = (sine * Amplitude) \div 2
  /\ calls' = EnsureMotorMode(serial, Pid) \o <<Packet(serial, "target", asked')>>
  /\ UNCHANGED <<program, step, test, begun, serial, velEvent, board, lost>>
\* setMotorPower. Mistake: the power is sent to a board that is in the mode for angles.
TuneEnd_ModeKept ==
  /\ step = "tune" /\ calls = <<>> /\ step' = "done" /\ mode' = Pwm
  /\ calls' = SetMotorPower(serial, 0)
  /\ UNCHANGED <<program, test, begun, serial, asked, velEvent, board, lost>>
TuneEnd ==
  /\ step = "tune" /\ calls = <<>> /\ step' = "done" /\ mode' = Pwm
  /\ calls' = EnsureMotorMode(serial, Pwm) \o SetMotorPower(serial, 0)
  /\ UNCHANGED <<program, test, begun, serial, asked, velEvent, board, lost>>
\* SIGINT, once its handler is installed; what was still to be sent is not.
Cleanup ==
  /\ program = "TunePID" /\ step \notin {"thrown", "interrupted"} /\ step' = "interrupted"
  /\ (step = "done" => calls # <<>>) /\ calls' = EmergencyStopMotors
  /\ UNCHANGED <<program, test, begun, serial, asked, mode, velEvent, board, lost>>
TunePID ==
  \/ (\E s \in Serials : TuneSetUp(s)) \/ (\E p \in BOOLEAN : TuneStart(p))
  \/ (\E sine \in -2..2 : TuneStep(sine)) \/ TuneEnd \/ Cleanup

Sends == \E ok \in BOOLEAN : Send(ok)
Next ==
  \/ Sends \/ FakeCANBoard \/ TunePID
  \/ \E n \in -1..4, socket \in BOOLEAN : CANTest(n, socket)
Spec == Init /\ [][Next]_vars

(***************************************************************************)
(* Properties.                                                             *)
(***************************************************************************)
Off(s) == board[s].mode # Pid /\ board[s].duty = 0
\* Without losses: TunePID leaves the motor off however it ends, unless it never moved it;
\* what it asked for stays within the amplitude; and every mode of CANTest that gets a
\* socket leaves board 10 with the same mode and power.
ToolsEndSafely ==
  lost = 0 =>
    /\ program = "TunePID" /\ step \in {"done", "interrupted"} /\ calls = <<>> => Off(serial)
    /\ program = "TunePID" /\ asked # NoTarget => asked \in -Amplitude..Amplitude
    /\ step = "thrown" => board[serial].target = NoTarget
    /\ program = "CANTest" /\ step = "done" /\ calls = <<>> /\ asked # NoTarget =>
         board[10].mode = Pwm /\ board[10].duty = asked

HoldsTarget ==
  \A s \in Serials : test = Tests.PID /\ board[s].target # NoTarget => board'[s].target # NoTarget
\* "we only want to send this once" (FakeCANBoard.cpp:99): in the PID test, a board that
\* has a target goes from one target to the next, and holds one while the user is asked
\* for constants.
TargetIsHeld == [][HoldsTarget]_vars
=============================================================================
