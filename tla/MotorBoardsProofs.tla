------------------------- MODULE MotorBoardsProofs --------------------------
(***************************************************************************)
(* The configuration and the commands of the real rover's boards, for any  *)
(* of its motors, any powers up to full power and any packets lost.        *)
(***************************************************************************)
EXTENDS MotorBoards, SequenceTheorems, TLAPS

\* The motors are those of motorSerialIDMap, and a caller asks for full power at most.
RoversMotors == Motors \subseteq DOMAIN PwmScale
UpToFullPower == Powers \subseteq -100..100

Values == Motors \cup {"pwm", "pid", "zeroed"}
CallTypes ==
  [do : {"send", "duty", "pull", "map", "map with sensor"}, m : Motors,
   register : Registers \cup {None}, value : Values \cup {None}, duty : Int]
StageNo ==
  [can |-> 0, modes |-> 1, pots |-> 2, encs |-> 3, wheels |-> 4, pids |-> 5, hand |-> 6,
   serving |-> 7]

Typed ==
  /\ stage \in DOMAIN StageNo
  /\ todo \subseteq IF stage = "can" THEN {} ELSE MotorsOf(stage)
  /\ calls \in Seq(CallTypes)
  /\ board \in [Motors -> [Registers -> Values \cup {None}]]
  /\ duty \in [Motors -> Int]
  /\ motor_ptrs \subseteq Motors /\ posSensor \subseteq Motors /\ pulled \subseteq Motors
  /\ motor_mode \in [Motors -> {None, "pwm", "pid"}]
  /\ asked \in [Motors -> Powers \cup {NoPower}]
  /\ lost \subseteq Motors \X (Registers \cup {None})

Places == 1..Len(calls)
Pending == {calls[n] : n \in Places}
Sends(c, m, r) == c.do = "send" /\ c.m = m /\ c.register = r
Duties(c, m) == c.do = "duty" /\ c.m = m
Maps(c, m) == c.do \in {"map", "map with sensor"} /\ c.m = m
SensorMaps(c, m) == c.do = "map with sensor" /\ c.m = m
Pulls(c, m) == c.do = "pull" /\ c.m = m

Told(m, r) == board[m][r] # None \/ <<m, r>> \in lost
\* The board was told, or will be before the n-th of the calls that are still to be done.
Ready(m, r, n) == Told(m, r) \/ \E k \in Places : k < n /\ Sends(calls[k], m, r)
Promised(m, r) == Told(m, r) \/ \E c \in Pending : Sends(c, m, r)

\* Each call comes after the packets that it relies on.
Placed(c, n) ==
  /\ c.do = "send" => c.register \in Registers /\ c.value \in Values
  /\ c.do = "duty" => c.register = None
  /\ c.do = "pull" => \/ Ready(c.m, "pot hi", n) /\ Ready(c.m, "pot lo", n)
                      \/ Ready(c.m, "encoder", n) /\ Ready(c.m, "ppjr", n)
  /\ c.do = "map with sensor" =>
       c.m \in PotMotors \/ (Ready(c.m, "limit lo", n) /\ Ready(c.m, "limit hi", n))
  /\ Sends(c, c.m, "limit lo") => Ready(c.m, "encoder", n)
InOrder == \A n \in Places : Placed(calls[n], n)
Configured ==
  /\ \A m \in pulled : \/ Told(m, "pot hi") /\ Told(m, "pot lo")
                       \/ Told(m, "encoder") /\ Told(m, "ppjr")
  /\ \A m \in posSensor : m \in PotMotors \/ (Told(m, "limit lo") /\ Told(m, "limit hi"))
  /\ \A m \in Motors : board[m]["limit lo"] # None => Told(m, "encoder")

\* initMotors has come to m in its loop for stage s.
Past(s, m) == StageNo[stage] > StageNo[s] \/ (stage = s /\ m \notin todo)
\* The loop that makes m's object.
MapStage(m) ==
  IF m \in PotMotors THEN "pots" ELSE IF m \in EncMotors THEN "encs"
  ELSE IF m \in Wheels THEN "wheels" ELSE "hand"
\* What a loop has done for m has arrived, or is among the calls. An object is made by the
\* last of the calls, and once.
Progress ==
  /\ \A m \in Motors :
       /\ Past("modes", m) => Promised(m, "mode")
       /\ m \in PidMotors /\ Past("pids", m) =>
            Promised(m, "P") /\ Promised(m, "I") /\ Promised(m, "D")
       /\ Past(MapStage(m), m) <=> m \in motor_ptrs \/ (\E c \in Pending : Maps(c, m))
       /\ m \in pulled \/ (\E c \in Pending : Pulls(c, m))
            <=> m \in posSensor \/ (\E c \in Pending : SensorMaps(c, m))
  /\ \A n \in Places : Maps(calls[n], calls[n].m) =>
       n = Len(calls) /\ calls[n].m \notin motor_ptrs
  /\ stage = "can" => calls = <<>>

\* An object's mode is its board's, or is on the way, or its packet was lost; so is the
\* power that was asked last.
Commanded ==
  \A m \in Motors :
    /\ motor_mode[m] # None =>
         /\ stage = "serving"
         /\ \A c \in Pending : Sends(c, m, "mode") => c.value = motor_mode[m]
         /\ \/ \E c \in Pending : Sends(c, m, "mode")
            \/ <<m, "mode">> \in lost
            \/ board[m]["mode"] = motor_mode[m]
    /\ asked[m] # NoPower =>
         /\ motor_mode[m] = "pwm"
         /\ \/ \E c \in Pending : Duties(c, m)
            \/ <<m, None>> \in lost
            \/ duty[m] = DutyCycle(m, asked[m])
    /\ \A c \in Pending : Duties(c, m) =>
         asked[m] # NoPower /\ c.duty = DutyCycle(m, asked[m])

IInv == Typed /\ InOrder /\ Configured /\ Progress /\ Commanded

(***************************************************************************)
(* The first of the calls is done.                                         *)
(***************************************************************************)
\* It is gone from the calls, and what it tells a board has arrived or was lost.
Popping ==
  /\ calls # <<>> /\ calls' = Tail(calls)
  /\ \A m \in Motors, r \in Registers : Told(m, r) \/ Sends(calls[1], m, r) => Told(m, r)'

LEMMA PopShifts ==
  ASSUME Typed, calls # <<>>, calls' = Tail(calls)
  PROVE  /\ Len(calls) \in Nat \ {0} /\ Len(calls') = Len(calls) - 1 /\ calls' \in Seq(CallTypes)
         /\ \A n \in Places' : n + 1 \in Places /\ calls'[n] = calls[n + 1]
         /\ \A n \in Places : calls[n] \in CallTypes
         /\ Head(calls) = calls[1] /\ 1 \in Places
<1>1. calls \in Seq(CallTypes)
  BY DEF Typed
<1>2. /\ Len(calls) \in Nat \ {0} /\ Len(calls') = Len(calls) - 1 /\ calls' \in Seq(CallTypes)
      /\ \A n \in 1..Len(calls') : calls'[n] = calls[n + 1]
      /\ Head(calls) = calls[1]
  BY <1>1
<1>3. \A n \in Places : calls[n] \in CallTypes
  BY <1>1 DEF Places
<1>4. QED BY <1>2, <1>3 DEF Places

LEMMA PopReady ==
  ASSUME Typed, Popping, NEW m \in Motors, NEW r \in Registers, NEW n \in Places',
         Ready(m, r, n + 1)
  PROVE  Ready(m, r, n)'
<1>1. /\ Len(calls) \in Nat \ {0} /\ Len(calls') = Len(calls) - 1
      /\ \A k \in Places' : k + 1 \in Places /\ calls'[k] = calls[k + 1]
  BY PopShifts DEF Popping
<1>2. CASE Told(m, r)
  BY <1>2 DEF Popping, Ready
<1>3. CASE \E k \in Places : k < n + 1 /\ Sends(calls[k], m, r)
  <2>1. PICK k \in Places : k < n + 1 /\ Sends(calls[k], m, r)
    BY <1>3
  <2>2. CASE k = 1
    BY <2>1, <2>2 DEF Popping, Ready
  <2>3. CASE k # 1
    <3>1. k - 1 \in Places' /\ k - 1 < n /\ calls'[k - 1] = calls[k]
      BY <1>1, <2>1, <2>3 DEF Places
    <3>2. QED BY <2>1, <3>1 DEF Ready, Sends
  <2>4. QED BY <2>2, <2>3
<1>4. QED BY <1>2, <1>3 DEF Ready

LEMMA PopPending ==
  ASSUME Typed, calls # <<>>, calls' = Tail(calls)
  PROVE  Pending = {calls[1]} \cup Pending'
<1>1. /\ Len(calls) \in Nat \ {0} /\ Len(calls') = Len(calls) - 1
      /\ \A k \in Places' : k + 1 \in Places /\ calls'[k] = calls[k + 1]
  BY PopShifts
<1>2. \A k \in Places : k = 1 \/ (k - 1 \in Places' /\ calls'[k - 1] = calls[k])
  BY <1>1 DEF Places
<1>3. 1 \in Places
  BY PopShifts
<1>4. Pending' = {calls'[k] : k \in Places'}
  BY DEF Pending
<1>5. ASSUME NEW c \in Pending
      PROVE  c = calls[1] \/ c \in Pending'
  <2>1. PICK k \in Places : c = calls[k]
    BY <1>5 DEF Pending
  <2>2. CASE k = 1
    BY <2>1, <2>2
  <2>3. CASE k - 1 \in Places' /\ calls'[k - 1] = calls[k]
    BY <1>4, <2>1, <2>3
  <2>4. QED BY <1>2, <2>2, <2>3
<1>6. ASSUME NEW c \in Pending'
      PROVE  c \in Pending
  <2>1. PICK k \in Places' : c = calls'[k]
    BY <1>4
  <2>2. QED BY <1>1, <2>1 DEF Pending
<1>7. QED BY <1>3, <1>5, <1>6 DEF Pending

LEMMA PopPromised ==
  ASSUME Typed, Popping, NEW m \in Motors, NEW r \in Registers, Promised(m, r)
  PROVE  Promised(m, r)'
BY PopPending DEF Popping, Promised

LEMMA PopInOrder ==
  ASSUME Typed, InOrder, Popping
  PROVE  InOrder'
<1> SUFFICES ASSUME NEW n \in Places', NEW c, c = calls'[n]
             PROVE  Placed(c, n)'
  BY DEF InOrder
<1>1. /\ n + 1 \in Places /\ c = calls[n + 1] /\ c \in CallTypes
  BY PopShifts DEF Popping
<1>2. c.m \in Motors /\ Placed(c, n + 1)
  BY <1>1 DEF CallTypes, InOrder
<1>3. \A r \in Registers : Ready(c.m, r, n + 1) => Ready(c.m, r, n)'
  BY <1>2, PopReady
<1>4. {"pot hi", "pot lo", "encoder", "ppjr", "limit lo", "limit hi"} \subseteq Registers
  BY DEF Registers
<1>5. QED BY <1>2, <1>3, <1>4 DEF Placed

LEMMA SendTells ==
  ASSUME RoversMotors, Typed, InOrder, NEW ok \in BOOLEAN, Send(ok)
  PROVE  Popping
<1>1. /\ calls # <<>> /\ calls' = Tail(calls) /\ Head(calls) = calls[1] /\ calls[1] \in CallTypes
      /\ Placed(calls[1], 1)
  BY PopShifts DEF Send, InOrder
<1> DEFINE c == calls[1]
<1>2. /\ c.do \in {"send", "duty"} /\ c.m \in Motors /\ c.register \in Registers \cup {None}
      /\ c.do = "send" => c.register \in Registers /\ c.value \in Values /\ c.value # None
      /\ c.do = "duty" => c.register = None
  BY <1>1 DEF Send, CallTypes, Placed, Values, RoversMotors, PwmScale, None
<1>3. None \notin Registers
  BY DEF None, Registers
<1>4. SUFFICES ASSUME NEW m \in Motors, NEW r \in Registers, Told(m, r) \/ Sends(c, m, r)
               PROVE  Told(m, r)'
  BY <1>1 DEF Popping
<1>5. /\ lost' = IF ok THEN lost \ {<<c.m, c.register>>} ELSE lost \cup {<<c.m, c.register>>}
      /\ board' = IF ok /\ c.do = "send" THEN [board EXCEPT ![c.m][c.register] = c.value] ELSE board
  BY <1>1 DEF Send
<1> HIDE DEF c
<1>6. CASE ok = TRUE /\ c.do = "send"
  BY <1>2, <1>4, <1>5, <1>6 DEF Told, Sends, Typed
<1>7. CASE ok = TRUE /\ c.do = "duty"
  BY <1>2, <1>3, <1>4, <1>5, <1>7 DEF Told, Sends
<1>8. CASE ok = FALSE
  BY <1>2, <1>4, <1>5, <1>8 DEF Told, Sends
<1>9. QED BY <1>2, <1>6, <1>7, <1>8

LEMMA SendKeepsIInv ==
  ASSUME RoversMotors, IInv, NEW ok \in BOOLEAN, Send(ok)
  PROVE  IInv'
<1>1. /\ calls # <<>> /\ calls' = Tail(calls) /\ Head(calls) = calls[1] /\ calls[1] \in CallTypes
      /\ Placed(calls[1], 1) /\ calls' \in Seq(CallTypes)
  BY PopShifts DEF Send, InOrder, IInv
<1> DEFINE c == calls[1]
<1>2. /\ c.do \in {"send", "duty"} /\ c.m \in Motors /\ c.register \in Registers \cup {None}
      /\ c.do = "send" => c.register \in Registers /\ c.value \in Values /\ c.value # None
      /\ c.do = "duty" => c.register = None
      /\ c.duty \in Int
  BY <1>1 DEF Send, CallTypes, Placed, Values, RoversMotors, PwmScale, None
<1>3. None \notin Registers
  BY DEF None, Registers
<1>4. Popping
  BY SendTells DEF IInv
<1>5. /\ lost' = IF ok THEN lost \ {<<c.m, c.register>>} ELSE lost \cup {<<c.m, c.register>>}
      /\ board' = IF ok /\ c.do = "send" THEN [board EXCEPT ![c.m][c.register] = c.value] ELSE board
      /\ duty' = IF ok /\ c.do = "duty" THEN [duty EXCEPT ![c.m] = c.duty] ELSE duty
      /\ UNCHANGED <<stage, todo, motor_ptrs, posSensor, pulled, motor_mode, asked>>
  BY <1>1 DEF Send, objects
<1>6. Pending = {c} \cup Pending'
  BY <1>1, PopPending DEF IInv
<1>7. Placed(c, 1) /\ \A m \in Motors, r \in Registers : ~ Ready(m, r, 1) \/ Told(m, r)
  BY <1>1, PopShifts DEF Ready, Places, IInv
<1> HIDE DEF c
<1>8. Typed'
  <2>1. calls' \in Seq(CallTypes)
    BY <1>1
  <2>2. board' \in [Motors -> [Registers -> Values \cup {None}]]
    BY <1>2, <1>5 DEF IInv, Typed
  <2>3. duty' \in [Motors -> Int] /\ lost' \subseteq Motors \X (Registers \cup {None})
    BY <1>2, <1>5 DEF IInv, Typed
  <2>4. (todo \subseteq IF stage = "can" THEN {} ELSE MotorsOf(stage))'
    BY <1>5 DEF IInv, Typed, MotorsOf
  <2>5. QED BY <1>5, <2>1, <2>2, <2>3, <2>4 DEF IInv, Typed
<1>9. InOrder'
  BY <1>4, PopInOrder DEF IInv
<1>10. Configured'
  <2>1. \A m \in Motors, r \in Registers : Told(m, r) => Told(m, r)'
    BY <1>4 DEF Popping
  <2>2. {"pot hi", "pot lo", "encoder", "ppjr", "limit lo", "limit hi"} \subseteq Registers
    BY DEF Registers
  <2>3. \A m \in Motors : board'[m]["limit lo"] # None =>
           board[m]["limit lo"] # None \/ Sends(c, m, "limit lo")
    BY <1>2, <1>5, <2>2 DEF IInv, Typed, Sends
  <2>4. \A m \in Motors : Sends(c, m, "limit lo") => Told(m, "encoder")
    BY <1>2, <1>7, <2>2 DEF Placed, Sends
  <2>5. QED BY <1>5, <2>1, <2>2, <2>3, <2>4 DEF IInv, Configured, Typed
<1>11. Progress'
  <2>1. {"mode", "P", "I", "D"} \subseteq Registers
    BY DEF Registers
  <2>2. \A m \in Motors, r \in Registers : Promised(m, r) => Promised(m, r)'
    BY <1>4, PopPromised DEF IInv
  <2>3. \A m \in Motors : ~Maps(c, m) /\ ~Pulls(c, m) /\ ~SensorMaps(c, m)
    BY <1>2 DEF Maps, Pulls, SensorMaps
  <2>4. \A s, m : Past(s, m)' <=> Past(s, m)
    BY <1>5 DEF Past
  <2>5. \A n \in Places' : n + 1 \in Places /\ calls'[n] = calls[n + 1]
    BY <1>1, PopShifts DEF IInv
  <2>6. Len(calls') = Len(calls) - 1 /\ Len(calls) \in Nat
    BY <1>1, PopShifts DEF IInv
  <2>7. \A n \in Places' : Maps(calls'[n], calls'[n].m) =>
          n = Len(calls') /\ calls'[n].m \notin motor_ptrs'
    BY <1>5, <2>5, <2>6 DEF IInv, Progress, Places
  <2>8. stage' # "can"
    BY <1>1, <1>5 DEF IInv, Progress
  <2>9. QED BY <1>5, <1>6, <2>1, <2>2, <2>3, <2>4, <2>7, <2>8 DEF IInv, Progress
<1>12. Commanded'
  <2> SUFFICES ASSUME NEW m \in Motors
               PROVE  /\ (motor_mode[m] # None =>
                           /\ stage = "serving"
                           /\ \A d \in Pending : Sends(d, m, "mode") => d.value = motor_mode[m]
                           /\ \/ \E d \in Pending : Sends(d, m, "mode")
                              \/ <<m, "mode">> \in lost
                              \/ board[m]["mode"] = motor_mode[m])'
                      /\ (asked[m] # NoPower =>
                           /\ motor_mode[m] = "pwm"
                           /\ \/ \E d \in Pending : Duties(d, m)
                              \/ <<m, None>> \in lost
                              \/ duty[m] = DutyCycle(m, asked[m]))'
                      /\ (\A d \in Pending : Duties(d, m) =>
                            asked[m] # NoPower /\ d.duty = DutyCycle(m, asked[m]))'
    BY DEF Commanded
  <2>1. Sends(c, m, "mode") =>
          <<m, "mode">> \in lost' \/ board'[m]["mode"] = c.value
    BY <1>2, <1>5 DEF Sends, IInv, Typed
  <2>2. ~Sends(c, m, "mode") =>
          /\ <<m, "mode">> \in lost => <<m, "mode">> \in lost'
          /\ board'[m]["mode"] = board[m]["mode"]
    <3>1. board \in [Motors -> [Registers -> Values \cup {None}]] /\ "mode" \in Registers
      BY DEF IInv, Typed, Registers
    <3>2. ~Sends(c, m, "mode") => c.m # m \/ c.register # "mode"
      BY <1>2, <1>3, <3>1 DEF Sends
    <3>3. ~Sends(c, m, "mode") /\ <<m, "mode">> \in lost => <<m, "mode">> \in lost'
      BY <1>5, <3>2
    <3>4. ~Sends(c, m, "mode") => board'[m]["mode"] = board[m]["mode"]
      BY <1>2, <1>3, <1>5, <3>1 DEF Sends
    <3>5. QED BY <3>3, <3>4
  <2>3. Duties(c, m) => <<m, None>> \in lost' \/ duty'[m] = c.duty
    BY <1>2, <1>5 DEF Duties, IInv, Typed
  <2>4. ~Duties(c, m) => /\ <<m, None>> \in lost => <<m, None>> \in lost'
                         /\ duty'[m] = duty[m]
    BY <1>2, <1>3, <1>5 DEF Duties, IInv, Typed
  <2>5. DutyCycle(m, asked[m])' = DutyCycle(m, asked[m])
    BY <1>5
  <2>6. QED BY <1>5, <1>6, <2>1, <2>2, <2>3, <2>4, <2>5 DEF IInv, Commanded
<1>13. QED BY <1>8, <1>9, <1>10, <1>11, <1>12 DEF IInv

LEMMA PullKeepsIInv ==
  ASSUME IInv, ScheduleTelemetryPull
  PROVE  IInv'
<1>1. /\ calls # <<>> /\ calls' = Tail(calls) /\ Head(calls) = calls[1] /\ calls[1] \in CallTypes
      /\ Placed(calls[1], 1) /\ calls' \in Seq(CallTypes)
  BY PopShifts DEF ScheduleTelemetryPull, InOrder, IInv
<1> DEFINE c == calls[1]
<1>2. /\ c.do = "pull" /\ c.m \in Motors /\ pulled' = pulled \cup {c.m}
      /\ UNCHANGED <<stage, todo, board, duty, motor_ptrs, posSensor, motor_mode, asked, lost>>
  BY <1>1 DEF ScheduleTelemetryPull, boards, CallTypes
<1>3. Popping
  BY <1>1, <1>2 DEF Popping, Told, Sends
<1>4. Pending = {c} \cup Pending'
  BY <1>1, PopPending DEF IInv
<1>5. Placed(c, 1) /\ \A m \in Motors, r \in Registers : ~ Ready(m, r, 1) \/ Told(m, r)
  BY <1>1, PopShifts DEF Ready, Places, IInv
<1>6. \A n \in Places' : n + 1 \in Places /\ calls'[n] = calls[n + 1]
  BY <1>1, PopShifts DEF IInv
<1>7. Len(calls') = Len(calls) - 1 /\ Len(calls) \in Nat
  BY <1>1, PopShifts DEF IInv
<1> HIDE DEF c
<1>8. Typed'
  <2>1. (todo \subseteq IF stage = "can" THEN {} ELSE MotorsOf(stage))'
    BY <1>2 DEF IInv, Typed, MotorsOf
  <2>2. QED BY <1>1, <1>2, <2>1 DEF IInv, Typed
<1>9. InOrder'
  BY <1>3, PopInOrder DEF IInv
<1>10. Configured'
  <2>1. \A m \in Motors, r \in Registers : Told(m, r)' <=> Told(m, r)
    BY <1>2 DEF Told
  <2>2. {"pot hi", "pot lo", "encoder", "ppjr", "limit lo", "limit hi"} \subseteq Registers
    BY DEF Registers
  <2>3. \/ Told(c.m, "pot hi") /\ Told(c.m, "pot lo")
        \/ Told(c.m, "encoder") /\ Told(c.m, "ppjr")
    BY <1>2, <1>5, <2>2 DEF Placed
  <2>4. QED BY <1>2, <2>1, <2>2, <2>3 DEF IInv, Configured, Typed
<1>11. Progress'
  <2>1. {"mode", "P", "I", "D"} \subseteq Registers
    BY DEF Registers
  <2>2. \A m \in Motors, r \in Registers : Promised(m, r) => Promised(m, r)'
    BY <1>3, PopPromised DEF IInv
  <2>3. \A m \in Motors : ~Maps(c, m) /\ ~SensorMaps(c, m) /\ (Pulls(c, m) <=> m = c.m)
    BY <1>2 DEF Maps, Pulls, SensorMaps
  <2>4. \A s, m : Past(s, m)' <=> Past(s, m)
    BY <1>2 DEF Past
  <2>5. \A n \in Places' : Maps(calls'[n], calls'[n].m) =>
          n = Len(calls') /\ calls'[n].m \notin motor_ptrs'
    BY <1>2, <1>6, <1>7 DEF IInv, Progress, Places
  <2>6. stage' # "can"
    BY <1>1, <1>2 DEF IInv, Progress
  <2>7. QED BY <1>2, <1>4, <2>1, <2>2, <2>3, <2>4, <2>5, <2>6 DEF IInv, Progress
<1>12. Commanded'
  <2>1. \A m \in Motors : ~Sends(c, m, "mode") /\ ~Duties(c, m)
    BY <1>2 DEF Sends, Duties
  <2>2. \A m \in Motors : DutyCycle(m, asked[m])' = DutyCycle(m, asked[m])
    BY <1>2
  <2>3. QED BY <1>2, <1>4, <2>1, <2>2 DEF IInv, Commanded
<1>13. QED BY <1>8, <1>9, <1>10, <1>11, <1>12 DEF IInv

LEMMA InsertKeepsIInv ==
  ASSUME IInv, Insert
  PROVE  IInv'
<1>1. /\ calls # <<>> /\ calls' = Tail(calls) /\ Head(calls) = calls[1] /\ calls[1] \in CallTypes
      /\ Placed(calls[1], 1) /\ calls' \in Seq(CallTypes)
  BY PopShifts DEF Insert, InOrder, IInv
<1> DEFINE c == calls[1]
<1>2. /\ c.do \in {"map", "map with sensor"} /\ c.m \in Motors
      /\ motor_ptrs' = motor_ptrs \cup {c.m}
      /\ posSensor' = IF c.do = "map with sensor" /\ c.m \notin motor_ptrs
                      THEN posSensor \cup {c.m} ELSE posSensor
      /\ UNCHANGED <<stage, todo, board, duty, pulled, motor_mode, asked, lost>>
  BY <1>1 DEF Insert, boards, CallTypes
<1>3. Popping
  BY <1>1, <1>2 DEF Popping, Told, Sends
<1>4. Pending = {c} \cup Pending'
  BY <1>1, PopPending DEF IInv
<1>5. Placed(c, 1) /\ \A m \in Motors, r \in Registers : ~ Ready(m, r, 1) \/ Told(m, r)
  BY <1>1, PopShifts DEF Ready, Places, IInv
<1>6. Len(calls) = 1 /\ c.m \notin motor_ptrs
  BY <1>1, <1>2, PopShifts DEF IInv, Progress, Maps
<1>7. Places' = {} /\ calls' = <<>>
  BY <1>1, <1>6, PopShifts, EmptySeq DEF IInv, Places
<1> HIDE DEF c
<1>8. Typed'
  <2>1. (todo \subseteq IF stage = "can" THEN {} ELSE MotorsOf(stage))'
    BY <1>2 DEF IInv, Typed, MotorsOf
  <2>2. QED BY <1>1, <1>2, <2>1 DEF IInv, Typed
<1>9. InOrder'
  BY <1>3, PopInOrder DEF IInv
<1>10. Configured'
  <2>1. \A m \in Motors, r \in Registers : Told(m, r)' <=> Told(m, r)
    BY <1>2 DEF Told
  <2>2. {"pot hi", "pot lo", "encoder", "ppjr", "limit lo", "limit hi"} \subseteq Registers
    BY DEF Registers
  <2>3. c.do = "map with sensor" =>
          c.m \in PotMotors \/ (Told(c.m, "limit lo") /\ Told(c.m, "limit hi"))
    BY <1>2, <1>5, <2>2 DEF Placed
  <2>4. QED BY <1>2, <2>1, <2>2, <2>3 DEF IInv, Configured, Typed
<1>11. Progress'
  <2>1. {"mode", "P", "I", "D"} \subseteq Registers
    BY DEF Registers
  <2>2. \A m \in Motors, r \in Registers : Promised(m, r) => Promised(m, r)'
    BY <1>3, PopPromised DEF IInv
  <2>3. \A m \in Motors : /\ ~Pulls(c, m) /\ (Maps(c, m) <=> m = c.m)
                          /\ SensorMaps(c, m) <=> m = c.m /\ c.do = "map with sensor"
    BY <1>2 DEF Maps, Pulls, SensorMaps
  <2>4. \A s, m : Past(s, m)' <=> Past(s, m)
    BY <1>2 DEF Past
  <2>5. stage' # "can"
    BY <1>1, <1>2 DEF IInv, Progress
  <2>6. QED BY <1>2, <1>4, <1>6, <1>7, <2>1, <2>2, <2>3, <2>4, <2>5 DEF IInv, Progress
<1>12. Commanded'
  <2>1. \A m \in Motors : ~Sends(c, m, "mode") /\ ~Duties(c, m)
    BY <1>2 DEF Sends, Duties
  <2>2. \A m \in Motors : DutyCycle(m, asked[m])' = DutyCycle(m, asked[m])
    BY <1>2
  <2>3. QED BY <1>2, <1>4, <2>1, <2>2 DEF IInv, Commanded
<1>13. QED BY <1>8, <1>9, <1>10, <1>11, <1>12 DEF IInv

(***************************************************************************)
(* initMotors makes the calls for the next motor.                          *)
(***************************************************************************)
\* A sequence that is two others, one after the other.
LEMMA Joined ==
  ASSUME NEW S, NEW s \in Seq(S), NEW t \in Seq(S), NEW u \in Seq(S),
         Len(u) = Len(s) + Len(t), \A i \in 1..Len(s) : u[i] = s[i],
         \A i \in 1..Len(t) : u[Len(s) + i] = t[i]
  PROVE  s \o t = u
<1>1. /\ s \o t \in Seq(S)
      /\ Len(s \o t) = Len(s) + Len(t)
      /\ \A i \in 1 .. Len(s) + Len(t) : (s \o t)[i] =
                     IF i <= Len(s) THEN s[i] ELSE t[i - Len(s)]
  BY ConcatProperties, Zenon
<1>2. ASSUME NEW i \in 1..Len(u)
      PROVE  (s \o t)[i] = u[i]
  <2>1. CASE i <= Len(s)
    BY <1>1, <2>1
  <2>2. CASE i > Len(s)
    <3>1. i - Len(s) \in 1..Len(t) /\ i = Len(s) + (i - Len(s))
      BY <2>2
    <3>2. QED BY <1>1, <2>2, <3>1
  <2>3. QED BY <2>1, <2>2
<1>3. QED BY <1>1, <1>2, SeqEqual

\* The calls of each loop, one after the other.
LEMMA CallsOfLoops ==
  ASSUME NEW m \in Motors
  PROVE  /\ CallsFor("modes", m) = <<Packet(m, "mode", "pwm")>>
         /\ CallsFor("pots", m) =
              <<Packet(m, "pot hi", m), Packet(m, "pot lo", m), Pull(m), AddMotorMapping(m, TRUE)>>
         /\ CallsFor("encs", m) =
              <<Packet(m, "encoder", "zeroed"), Packet(m, "ppjr", m), Pull(m),
                Packet(m, "limit lo", m), Packet(m, "limit hi", m), AddMotorMapping(m, TRUE)>>
         /\ CallsFor("wheels", m) = <<AddMotorMapping(m, FALSE)>>
         /\ CallsFor("pids", m) = <<Packet(m, "P", m), Packet(m, "I", m), Packet(m, "D", m)>>
         /\ CallsFor("hand", m) = <<Packet(m, "mode", "pwm"), AddMotorMapping(m, FALSE)>>
<1>1. ASSUME NEW a, NEW b PROVE <<a>> \o <<b>> = <<a, b>>
  <2> DEFINE S == {a, b}
             s == <<a>>
             t == <<b>>
             u == <<a, b>>
  <2>1. /\ s \in Seq(S) /\ t \in Seq(S) /\ u \in Seq(S)
        /\ Len(s) = 1 /\ Len(t) = 1 /\ Len(u) = 2
    OBVIOUS
  <2>2. /\ \A i \in 1..1 : u[i] = s[i]
        /\ \A i \in 1..1 : u[1 + i] = t[i]
    OBVIOUS
  <2> HIDE DEF S, s, t, u
  <2>3. /\ Len(u) = Len(s) + Len(t) /\ \A i \in 1..Len(s) : u[i] = s[i]
        /\ \A i \in 1..Len(t) : u[Len(s) + i] = t[i]
    BY <2>1, <2>2
  <2>4. s \o t = u
    BY <2>1, <2>3, Joined, Zenon
  <2>5. QED BY <2>4 DEF s, t, u
<1>2. ASSUME NEW a, NEW b, NEW c, NEW d PROVE <<a, b, c>> \o <<d>> = <<a, b, c, d>>
  <2> DEFINE S == {a, b, c, d}
             s == <<a, b, c>>
             t == <<d>>
             u == <<a, b, c, d>>
  <2>1. /\ s \in Seq(S) /\ t \in Seq(S) /\ u \in Seq(S)
        /\ Len(s) = 3 /\ Len(t) = 1 /\ Len(u) = 4
    OBVIOUS
  <2>2. /\ \A i \in 1..3 : u[i] = s[i]
        /\ \A i \in 1..1 : u[3 + i] = t[i]
    OBVIOUS
  <2> HIDE DEF S, s, t, u
  <2>3. /\ Len(u) = Len(s) + Len(t) /\ \A i \in 1..Len(s) : u[i] = s[i]
        /\ \A i \in 1..Len(t) : u[Len(s) + i] = t[i]
    BY <2>1, <2>2
  <2>4. s \o t = u
    BY <2>1, <2>3, Joined, Zenon
  <2>5. QED BY <2>4 DEF s, t, u
<1>3. /\ CallsFor("modes", m) = <<Packet(m, "mode", "pwm")>>
      /\ CallsFor("wheels", m) = <<AddMotorMapping(m, FALSE)>>
      /\ CallsFor("pids", m) = <<Packet(m, "P", m), Packet(m, "I", m), Packet(m, "D", m)>>
  BY DEF CallsFor, InitMotor, SetMotorPIDConstants
<1>4. CallsFor("pots", m) =
        <<Packet(m, "pot hi", m), Packet(m, "pot lo", m), Pull(m), AddMotorMapping(m, TRUE)>>
  <2>1. CallsFor("pots", m) =
          <<Packet(m, "pot hi", m), Packet(m, "pot lo", m), Pull(m)>>
            \o <<AddMotorMapping(m, TRUE)>>
    BY DEF CallsFor, InitPotentiometer
  <2>2. QED BY <1>2, <2>1
<1>5. CallsFor("encs", m) =
        <<Packet(m, "encoder", "zeroed"), Packet(m, "ppjr", m), Pull(m),
          Packet(m, "limit lo", m), Packet(m, "limit hi", m), AddMotorMapping(m, TRUE)>>
  <2> DEFINE a == Packet(m, "encoder", "zeroed")
             b == Packet(m, "ppjr", m)
             c == Pull(m)
             d == Packet(m, "limit lo", m)
             e == Packet(m, "limit hi", m)
             f == AddMotorMapping(m, TRUE)
             S == {a, b, c, d, e, f}
             s == <<a, b, c>>
             t == <<d, e>>
             u == <<a, b, c, d, e>>
             v == <<f>>
             w == <<a, b, c, d, e, f>>
  <2>1. CallsFor("encs", m) = s \o t \o v
    BY DEF CallsFor, InitEncoder, SetLimitSwitchLimits
  <2> HIDE DEF a, b, c, d, e, f
  <2>2. /\ s \in Seq(S) /\ t \in Seq(S) /\ u \in Seq(S) /\ v \in Seq(S) /\ w \in Seq(S)
        /\ Len(s) = 3 /\ Len(t) = 2 /\ Len(u) = 5 /\ Len(v) = 1 /\ Len(w) = 6
    OBVIOUS
  <2>3. /\ \A i \in 1..3 : u[i] = s[i]
        /\ \A i \in 1..2 : u[3 + i] = t[i]
        /\ \A i \in 1..5 : w[i] = u[i]
        /\ \A i \in 1..1 : w[5 + i] = v[i]
    OBVIOUS
  <2> HIDE DEF S, s, t, u, v, w
  <2>4. /\ Len(u) = Len(s) + Len(t) /\ \A i \in 1..Len(s) : u[i] = s[i]
        /\ \A i \in 1..Len(t) : u[Len(s) + i] = t[i]
    BY <2>2, <2>3
  <2>5. /\ Len(w) = Len(u) + Len(v) /\ \A i \in 1..Len(u) : w[i] = u[i]
        /\ \A i \in 1..Len(v) : w[Len(u) + i] = v[i]
    BY <2>2, <2>3
  <2>6. s \o t = u
    BY <2>2, <2>4, Joined, Zenon
  <2>7. u \o v = w
    BY <2>2, <2>5, Joined, Zenon
  <2>8. CallsFor("encs", m) = w
    BY <2>1, <2>6, <2>7, Zenon
  <2>9. QED BY <2>8 DEF a, b, c, d, e, f, w
<1>6. CallsFor("hand", m) = <<Packet(m, "mode", "pwm"), AddMotorMapping(m, FALSE)>>
  <2>1. CallsFor("hand", m) = <<Packet(m, "mode", "pwm")>> \o <<AddMotorMapping(m, FALSE)>>
    BY DEF CallsFor, InitMotor
  <2>2. QED BY <1>1, <2>1
<1>7. QED BY <1>3, <1>4, <1>5, <1>6

LEMMA Stagewise ==
  ASSUME RoversMotors
  PROVE  /\ StageNo \in
              [{"can", "modes", "pots", "encs", "wheels", "pids", "hand", "serving"} -> Nat]
         /\ MotorsOf("modes") = Motors /\ MotorsOf("pots") = Motors \cap PotMotors
         /\ MotorsOf("encs") = Motors \cap EncMotors /\ MotorsOf("wheels") = Motors \cap Wheels
         /\ MotorsOf("pids") = Motors \cap PidMotors /\ MotorsOf("hand") = Motors \cap {"hand"}
         /\ MotorsOf("serving") = {}
         /\ \A m \in Motors : m \in MotorsOf(MapStage(m))
         /\ \A s \in DOMAIN StageNo \ {"can", "serving"} :
              After(s) \in DOMAIN StageNo /\ StageNo[After(s)] = StageNo[s] + 1
         /\ \A s, t \in DOMAIN StageNo : StageNo[s] = StageNo[t] => s = t
<1>1. StageNo \in [{"can", "modes", "pots", "encs", "wheels", "pids", "hand", "serving"} -> Nat]
  BY DEF StageNo
<1>2. /\ MotorsOf("modes") = Motors /\ MotorsOf("pots") = Motors \cap PotMotors
      /\ MotorsOf("encs") = Motors \cap EncMotors /\ MotorsOf("wheels") = Motors \cap Wheels
      /\ MotorsOf("pids") = Motors \cap PidMotors /\ MotorsOf("hand") = Motors \cap {"hand"}
      /\ MotorsOf("serving") = {}
  BY DEF MotorsOf
<1>3. \A m \in Motors : m \in MotorsOf(MapStage(m))
  BY <1>2 DEF MapStage, RoversMotors, PwmScale, PotMotors, EncMotors, Wheels
<1>4. /\ After("modes") = "pots" /\ After("pots") = "encs" /\ After("encs") = "wheels"
      /\ After("wheels") = "pids" /\ After("pids") = "hand" /\ After("hand") = "serving"
  BY DEF After, Stages
<1>5. \A s \in DOMAIN StageNo \ {"can", "serving"} :
        After(s) \in DOMAIN StageNo /\ StageNo[After(s)] = StageNo[s] + 1
  BY <1>1, <1>4 DEF StageNo
<1>6. \A s, t \in DOMAIN StageNo : StageNo[s] = StageNo[t] => s = t
  BY DEF StageNo
<1>7. QED BY <1>1, <1>2, <1>3, <1>5, <1>6

LEMMA FourInSeq ==
  ASSUME NEW S, NEW a \in S, NEW b \in S, NEW c \in S, NEW d \in S
  PROVE  <<a, b, c, d>> \in Seq(S)
OBVIOUS

LEMMA SixInSeq ==
  ASSUME NEW S, NEW a \in S, NEW b \in S, NEW c \in S, NEW d \in S, NEW e \in S, NEW f \in S
  PROVE  <<a, b, c, d, e, f>> \in Seq(S)
OBVIOUS

LEMMA CallFields ==
  ASSUME RoversMotors, NEW m \in Motors
  PROVE  /\ \A r \in Registers, v \in Values :
              /\ Packet(m, r, v) \in CallTypes /\ Packet(m, r, v).value = v
              /\ Sends(Packet(m, r, v), m, r)
         /\ Pull(m) \in CallTypes /\ Pulls(Pull(m), m)
         /\ AddMotorMapping(m, TRUE) \in CallTypes /\ SensorMaps(AddMotorMapping(m, TRUE), m)
         /\ AddMotorMapping(m, FALSE) \in CallTypes /\ AddMotorMapping(m, FALSE).do = "map"
         /\ AddMotorMapping(m, FALSE).m = m
         /\ m \in Values /\ "pwm" \in Values /\ "zeroed" \in Values
<1>1. ASSUME NEW r \in Registers, NEW v \in Values
      PROVE  /\ Packet(m, r, v) \in CallTypes /\ Packet(m, r, v).value = v
             /\ Sends(Packet(m, r, v), m, r)
  <2> DEFINE c == Call("send", m)
  <2>1. Packet(m, r, v) = [c EXCEPT !.register = r, !.value = v]
    BY DEF Packet
  <2>2. c \in CallTypes /\ c.do = "send" /\ c.m = m
    BY DEF Call, CallTypes, NoDuty
  <2> HIDE DEF c
  <2>3. Packet(m, r, v) \in CallTypes
    BY <2>1, <2>2 DEF CallTypes
  <2>4. QED BY <2>1, <2>2, <2>3 DEF CallTypes, Sends
<1>2. Pull(m) \in CallTypes /\ Pulls(Pull(m), m)
  BY DEF Pull, Call, CallTypes, NoDuty, Pulls
<1>3. /\ AddMotorMapping(m, TRUE) \in CallTypes /\ SensorMaps(AddMotorMapping(m, TRUE), m)
      /\ AddMotorMapping(m, FALSE) \in CallTypes /\ AddMotorMapping(m, FALSE).m = m
      /\ AddMotorMapping(m, FALSE).do = "map"
  BY DEF AddMotorMapping, Call, CallTypes, NoDuty, SensorMaps
<1>4. m \in Values /\ "pwm" \in Values /\ "zeroed" \in Values
  BY DEF Values
<1>5. QED BY <1>1, <1>2, <1>3, <1>4

\* What the six loops have in common.
LEMMA LoopCalls ==
  ASSUME RoversMotors, NEW m \in Motors,
         stage \in DOMAIN StageNo \ {"can", "serving"}, m \in MotorsOf(stage),
         calls' = CallsFor(stage, m)
  PROVE  /\ calls' \in Seq(CallTypes)
         /\ InOrder'
         /\ \A c \in Pending' : c.m = m /\ c.do # "duty"
         /\ \A n \in Places' : Maps(calls'[n], m) => n = Len(calls')
         /\ stage = MapStage(m) <=> \E c \in Pending' : Maps(c, m)
         /\ (\E c \in Pending' : Pulls(c, m)) <=> (\E c \in Pending' : SensorMaps(c, m))
         /\ stage = "modes" => \E c \in Pending' : Sends(c, m, "mode")
         /\ stage = "pids" => /\ \E c \in Pending' : Sends(c, m, "P")
                              /\ \E c \in Pending' : Sends(c, m, "I")
                              /\ \E c \in Pending' : Sends(c, m, "D")
<1>a. /\ \A r \in Registers, v \in Values :
           /\ Packet(m, r, v) \in CallTypes /\ Packet(m, r, v).value = v
           /\ Sends(Packet(m, r, v), m, r)
      /\ Pull(m) \in CallTypes /\ Pulls(Pull(m), m)
      /\ AddMotorMapping(m, TRUE) \in CallTypes /\ SensorMaps(AddMotorMapping(m, TRUE), m)
      /\ AddMotorMapping(m, FALSE) \in CallTypes /\ AddMotorMapping(m, FALSE).do = "map"
      /\ AddMotorMapping(m, FALSE).m = m
      /\ m \in Values /\ "pwm" \in Values /\ "zeroed" \in Values
  BY CallFields
<1>b. /\ Packet(m, "mode", "pwm") \in CallTypes /\ Packet(m, "mode", "pwm").value \in Values
      /\ Sends(Packet(m, "mode", "pwm"), m, "mode")
  <2>1. "mode" \in Registers
    BY DEF Registers
  <2>2. QED BY <1>a, <2>1
<1>1. CASE stage = "modes"
  <2> DEFINE a == Packet(m, "mode", "pwm")
  <2>1. calls' = <<a>>
    BY <1>1, CallsOfLoops
  <2>2. a \in CallTypes /\ Sends(a, m, "mode") /\ a.value \in Values
    BY <1>a, <1>b DEF Registers
  <2> HIDE DEF a
  <2>3. /\ Len(calls') = 1
        /\ calls'[1] = a
    BY <2>1
  <2>4. calls' \in Seq(CallTypes)
    BY <2>1, <2>2
  <2>5. Places' = {1}
    BY <2>3 DEF Places
  <2>6. Pending' = {a}
    BY <2>3, <2>5 DEF Pending
  <2>a. Placed(a, 1)'
    BY <2>2 DEF Placed, Sends, Pulls, SensorMaps, Registers
  <2>8. InOrder'
    BY <2>3, <2>5, <2>a DEF InOrder
  <2>9. stage # MapStage(m)
    BY <1>1 DEF MapStage
  <2>10. QED
    BY <1>1, <2>2, <2>3, <2>4, <2>5, <2>6, <2>8, <2>9 DEF Sends, Maps, Pulls, SensorMaps
<1>2. CASE stage = "pots"
  <2> DEFINE a == Packet(m, "pot hi", m)
             b == Packet(m, "pot lo", m)
             c == Pull(m)
             d == AddMotorMapping(m, TRUE)
  <2>1. calls' = <<a, b, c, d>>
    BY <1>2, CallsOfLoops
  <2>2. /\ a \in CallTypes /\ Sends(a, m, "pot hi") /\ a.value \in Values
        /\ b \in CallTypes /\ Sends(b, m, "pot lo") /\ b.value \in Values
        /\ c \in CallTypes /\ Pulls(c, m)
        /\ d \in CallTypes /\ SensorMaps(d, m)
    <3>1. a \in CallTypes /\ Sends(a, m, "pot hi") /\ a.value \in Values
      BY <1>a, <1>b DEF Registers
    <3>2. b \in CallTypes /\ Sends(b, m, "pot lo") /\ b.value \in Values
      BY <1>a, <1>b DEF Registers
    <3>3. c \in CallTypes /\ Pulls(c, m)
      BY <1>a, <1>b
    <3>4. d \in CallTypes /\ SensorMaps(d, m)
      BY <1>a, <1>b
    <3>5. QED BY <3>1, <3>2, <3>3, <3>4
  <2> HIDE DEF a, b, c, d
  <2>3. /\ Len(calls') = 4
        /\ calls'[1] = a /\ calls'[2] = b /\ calls'[3] = c /\ calls'[4] = d
    BY <2>1
  <2>4. calls' \in Seq(CallTypes)
    <3>1. a \in CallTypes /\ b \in CallTypes /\ c \in CallTypes /\ d \in CallTypes
      BY <2>2
    <3>2. <<a, b, c, d>> \in Seq(CallTypes)
      BY <3>1, FourInSeq, Zenon
    <3>3. QED BY <2>1, <3>2
  <2>5. Places' = {1, 2, 3, 4}
    BY <2>3 DEF Places
  <2>6. Pending' = {a, b, c, d}
    BY <2>3, <2>5 DEF Pending
  <2>7. /\ Ready(m, "pot hi", 3)'
        /\ Ready(m, "pot lo", 3)'
    <3>1. /\ 1 \in Places' /\ Sends(calls'[1], m, "pot hi")
          /\ 2 \in Places' /\ Sends(calls'[2], m, "pot lo")
      BY <2>2, <2>3, <2>5
    <3>2. ASSUME NEW k \in Places', NEW q \in Places', NEW r, k < q, Sends(calls'[k], m, r)
          PROVE  Ready(m, r, q)'
      BY <3>2 DEF Ready
    <3>3. 1 \in Places' /\ 2 \in Places' /\ 3 \in Places' /\ 4 \in Places'
      BY <2>5
    <3>4. 1 < 3 /\ 2 < 3
      OBVIOUS
    <3>5. QED BY <3>1, <3>2, <3>3, <3>4, Zenon
  <2>a. Placed(a, 1)'
    BY <2>2, <2>7 DEF Placed, Sends, Pulls, SensorMaps, Registers
  <2>b. Placed(b, 2)'
    BY <2>2, <2>7 DEF Placed, Sends, Pulls, SensorMaps, Registers
  <2>c. Placed(c, 3)'
    BY <2>2, <2>7 DEF Placed, Sends, Pulls, SensorMaps, Registers
  <2>p. m \in PotMotors
    BY <1>2, Stagewise
  <2>d. Placed(d, 4)'
    BY <2>2, <2>7, <2>p DEF Placed, Sends, Pulls, SensorMaps, Registers
  <2>8. InOrder'
    BY <2>3, <2>5, <2>a, <2>b, <2>c, <2>d DEF InOrder
  <2>9. stage = MapStage(m)
    BY <1>2, Stagewise DEF MapStage, PotMotors, EncMotors, Wheels
  <2>10. \A e \in Pending' : e.m = m /\ e.do # "duty"
    BY <2>2, <2>6 DEF Sends, Pulls, SensorMaps
  <2>11. \A n \in Places' : Maps(calls'[n], m) => n = Len(calls')
    BY <2>2, <2>3, <2>5 DEF Sends, Maps, Pulls
  <2>12. (\E e \in Pending' : Maps(e, m)) /\ (\E e \in Pending' : Pulls(e, m))
         /\ (\E e \in Pending' : SensorMaps(e, m))
    BY <2>2, <2>6 DEF Maps, SensorMaps
  <2>13. QED BY <1>2, <2>4, <2>8, <2>9, <2>10, <2>11, <2>12
<1>3. CASE stage = "encs"
  <2> DEFINE a == Packet(m, "encoder", "zeroed")
             b == Packet(m, "ppjr", m)
             c == Pull(m)
             d == Packet(m, "limit lo", m)
             e == Packet(m, "limit hi", m)
             f == AddMotorMapping(m, TRUE)
  <2>1. calls' = <<a, b, c, d, e, f>>
    BY <1>3, CallsOfLoops
  <2>2. /\ a \in CallTypes /\ Sends(a, m, "encoder") /\ a.value \in Values
        /\ b \in CallTypes /\ Sends(b, m, "ppjr") /\ b.value \in Values
        /\ c \in CallTypes /\ Pulls(c, m)
        /\ d \in CallTypes /\ Sends(d, m, "limit lo") /\ d.value \in Values
        /\ e \in CallTypes /\ Sends(e, m, "limit hi") /\ e.value \in Values
        /\ f \in CallTypes /\ SensorMaps(f, m)
    <3>1. a \in CallTypes /\ Sends(a, m, "encoder") /\ a.value \in Values
      BY <1>a, <1>b DEF Registers
    <3>2. b \in CallTypes /\ Sends(b, m, "ppjr") /\ b.value \in Values
      BY <1>a, <1>b DEF Registers
    <3>3. c \in CallTypes /\ Pulls(c, m)
      BY <1>a, <1>b
    <3>4. d \in CallTypes /\ Sends(d, m, "limit lo") /\ d.value \in Values
      BY <1>a, <1>b DEF Registers
    <3>5. e \in CallTypes /\ Sends(e, m, "limit hi") /\ e.value \in Values
      BY <1>a, <1>b DEF Registers
    <3>6. f \in CallTypes /\ SensorMaps(f, m)
      BY <1>a, <1>b
    <3>7. QED BY <3>1, <3>2, <3>3, <3>4, <3>5, <3>6
  <2> HIDE DEF a, b, c, d, e, f
  <2>3. /\ Len(calls') = 6
        /\ calls'[1] = a /\ calls'[2] = b /\ calls'[3] = c 
        /\ calls'[4] = d /\ calls'[5] = e /\ calls'[6] = f
    BY <2>1
  <2>4. calls' \in Seq(CallTypes)
    <3>1. /\ a \in CallTypes /\ b \in CallTypes /\ c \in CallTypes
          /\ d \in CallTypes /\ e \in CallTypes /\ f \in CallTypes
      BY <2>2
    <3>2. <<a, b, c, d, e, f>> \in Seq(CallTypes)
      BY <3>1, SixInSeq, Zenon
    <3>3. QED BY <2>1, <3>2
  <2>5. Places' = {1, 2, 3, 4, 5, 6}
    BY <2>3 DEF Places
  <2>6. Pending' = {a, b, c, d, e, f}
    BY <2>3, <2>5 DEF Pending
  <2>7. /\ Ready(m, "encoder", 3)'
        /\ Ready(m, "ppjr", 3)'
        /\ Ready(m, "encoder", 4)'
        /\ Ready(m, "limit lo", 6)'
        /\ Ready(m, "limit hi", 6)'
    <3>1. /\ 1 \in Places' /\ Sends(calls'[1], m, "encoder")
          /\ 2 \in Places' /\ Sends(calls'[2], m, "ppjr")
          /\ 4 \in Places' /\ Sends(calls'[4], m, "limit lo")
          /\ 5 \in Places' /\ Sends(calls'[5], m, "limit hi")
      BY <2>2, <2>3, <2>5
    <3>2. ASSUME NEW k \in Places', NEW q \in Places', NEW r, k < q, Sends(calls'[k], m, r)
          PROVE  Ready(m, r, q)'
      BY <3>2 DEF Ready
    <3>3. /\ 1 \in Places' /\ 2 \in Places' /\ 3 \in Places'
          /\ 4 \in Places' /\ 5 \in Places' /\ 6 \in Places'
      BY <2>5
    <3>4. 1 < 3 /\ 2 < 3 /\ 1 < 4 /\ 4 < 6 /\ 5 < 6
      OBVIOUS
    <3>5. QED BY <3>1, <3>2, <3>3, <3>4, Zenon
  <2>a. Placed(a, 1)'
    BY <2>2, <2>7 DEF Placed, Sends, Pulls, SensorMaps, Registers
  <2>b. Placed(b, 2)'
    BY <2>2, <2>7 DEF Placed, Sends, Pulls, SensorMaps, Registers
  <2>c. Placed(c, 3)'
    BY <2>2, <2>7 DEF Placed, Sends, Pulls, SensorMaps, Registers
  <2>d. Placed(d, 4)'
    BY <2>2, <2>7 DEF Placed, Sends, Pulls, SensorMaps, Registers
  <2>e. Placed(e, 5)'
    BY <2>2, <2>7 DEF Placed, Sends, Pulls, SensorMaps, Registers
  <2>f. Placed(f, 6)'
    BY <2>2, <2>7 DEF Placed, Sends, Pulls, SensorMaps, Registers
  <2>8. InOrder'
    BY <2>3, <2>5, <2>a, <2>b, <2>c, <2>d, <2>e, <2>f DEF InOrder
  <2>9. stage = MapStage(m)
    BY <1>3, Stagewise DEF MapStage, PotMotors, EncMotors, Wheels
  <2>x. /\ Maps(f, m) /\ ~Maps(a, m) /\ ~Maps(b, m) /\ ~Maps(c, m) /\ ~Maps(d, m) /\ ~Maps(e, m)
        /\ a.m = m /\ b.m = m /\ c.m = m /\ d.m = m /\ e.m = m /\ f.m = m
        /\ a.do # "duty" /\ b.do # "duty" /\ c.do # "duty" /\ d.do # "duty" /\ e.do # "duty"
        /\ f.do # "duty"
    BY <2>2 DEF Sends, Maps, Pulls, SensorMaps
  <2>y. /\ \A q \in Pending' : q.m = m /\ q.do # "duty"
        /\ \A q \in Places' : Maps(calls'[q], m) => q = Len(calls')
        /\ f \in Pending' /\ c \in Pending'
    BY <2>x, <2>3, <2>5, <2>6
  <2>10. QED BY <1>3, <2>2, <2>4, <2>8, <2>9, <2>x, <2>y
<1>4. CASE stage = "wheels"
  <2> DEFINE a == AddMotorMapping(m, FALSE)
  <2>1. calls' = <<a>>
    BY <1>4, CallsOfLoops
  <2>2. a \in CallTypes /\ a.do = "map" /\ a.m = m
    BY <1>a, <1>b DEF Registers
  <2> HIDE DEF a
  <2>3. /\ Len(calls') = 1
        /\ calls'[1] = a
    BY <2>1
  <2>4. calls' \in Seq(CallTypes)
    BY <2>1, <2>2
  <2>5. Places' = {1}
    BY <2>3 DEF Places
  <2>6. Pending' = {a}
    BY <2>3, <2>5 DEF Pending
  <2>a. Placed(a, 1)'
    BY <2>2 DEF Placed, Sends, Pulls, SensorMaps, Registers
  <2>8. InOrder'
    BY <2>3, <2>5, <2>a DEF InOrder
  <2>9. stage = MapStage(m)
    BY <1>4, Stagewise DEF MapStage, PotMotors, EncMotors, Wheels
  <2>10. QED
    BY <1>4, <2>2, <2>3, <2>4, <2>5, <2>6, <2>8, <2>9 DEF Sends, Maps, Pulls, SensorMaps
<1>5. CASE stage = "pids"
  <2> DEFINE a == Packet(m, "P", m)
             b == Packet(m, "I", m)
             c == Packet(m, "D", m)
  <2>1. calls' = <<a, b, c>>
    BY <1>5, CallsOfLoops
  <2>2. /\ a \in CallTypes /\ Sends(a, m, "P") /\ a.value \in Values
        /\ b \in CallTypes /\ Sends(b, m, "I") /\ b.value \in Values
        /\ c \in CallTypes /\ Sends(c, m, "D") /\ c.value \in Values
    <3>1. a \in CallTypes /\ Sends(a, m, "P") /\ a.value \in Values
      BY <1>a, <1>b DEF Registers
    <3>2. b \in CallTypes /\ Sends(b, m, "I") /\ b.value \in Values
      BY <1>a, <1>b DEF Registers
    <3>3. c \in CallTypes /\ Sends(c, m, "D") /\ c.value \in Values
      BY <1>a, <1>b DEF Registers
    <3>4. QED BY <3>1, <3>2, <3>3
  <2> HIDE DEF a, b, c
  <2>3. /\ Len(calls') = 3
        /\ calls'[1] = a /\ calls'[2] = b /\ calls'[3] = c
    BY <2>1
  <2>4. calls' \in Seq(CallTypes)
    BY <2>1, <2>2
  <2>5. Places' = {1, 2, 3}
    BY <2>3 DEF Places
  <2>6. Pending' = {a, b, c}
    BY <2>3, <2>5 DEF Pending
  <2>a. Placed(a, 1)'
    BY <2>2 DEF Placed, Sends, Pulls, SensorMaps, Registers
  <2>b. Placed(b, 2)'
    BY <2>2 DEF Placed, Sends, Pulls, SensorMaps, Registers
  <2>c. Placed(c, 3)'
    BY <2>2 DEF Placed, Sends, Pulls, SensorMaps, Registers
  <2>8. InOrder'
    BY <2>3, <2>5, <2>a, <2>b, <2>c DEF InOrder
  <2>9. stage # MapStage(m)
    BY <1>5 DEF MapStage
  <2>x. \A q \in {a, b, c} : /\ q.m = m /\ q.do # "duty"
                            /\ ~Maps(q, m) /\ ~Pulls(q, m) /\ ~SensorMaps(q, m)
    BY <2>2 DEF Sends, Maps, Pulls, SensorMaps
  <2>y. \A q \in Places' : ~Maps(calls'[q], m)
    BY <2>x, <2>3, <2>5
  <2>z. a \in Pending' /\ b \in Pending' /\ c \in Pending'
    BY <2>6
  <2>u. \A q \in Pending' : /\ q.m = m /\ q.do # "duty"
                           /\ ~Maps(q, m) /\ ~Pulls(q, m) /\ ~SensorMaps(q, m)
    BY <2>x, <2>6
  <2>v. /\ \E q \in Pending' : Sends(q, m, "P")
        /\ \E q \in Pending' : Sends(q, m, "I")
        /\ \E q \in Pending' : Sends(q, m, "D")
    BY <2>2, <2>z
  <2>w. stage # "modes"
    BY <1>5
  <2>10. QED
    BY <2>4, <2>8, <2>9, <2>u, <2>v, <2>w, <2>y, Zenon
<1>6. CASE stage = "hand"
  <2> DEFINE a == Packet(m, "mode", "pwm")
             b == AddMotorMapping(m, FALSE)
  <2>1. calls' = <<a, b>>
    BY <1>6, CallsOfLoops
  <2>2. /\ a \in CallTypes /\ Sends(a, m, "mode") /\ a.value \in Values
        /\ b \in CallTypes /\ b.do = "map" /\ b.m = m
    <3>1. a \in CallTypes /\ Sends(a, m, "mode") /\ a.value \in Values
      BY <1>a, <1>b DEF Registers
    <3>2. b \in CallTypes /\ b.do = "map" /\ b.m = m
      BY <1>a, <1>b
    <3>3. QED BY <3>1, <3>2
  <2> HIDE DEF a, b
  <2>3. /\ Len(calls') = 2
        /\ calls'[1] = a /\ calls'[2] = b
    BY <2>1
  <2>4. calls' \in Seq(CallTypes)
    BY <2>1, <2>2
  <2>5. Places' = {1, 2}
    BY <2>3 DEF Places
  <2>6. Pending' = {a, b}
    BY <2>3, <2>5 DEF Pending
  <2>a. Placed(a, 1)'
    BY <2>2 DEF Placed, Sends, Pulls, SensorMaps, Registers
  <2>b. Placed(b, 2)'
    BY <2>2 DEF Placed, Sends, Pulls, SensorMaps, Registers
  <2>8. InOrder'
    BY <2>3, <2>5, <2>a, <2>b DEF InOrder
  <2>9. stage = MapStage(m)
    BY <1>6, Stagewise DEF MapStage, PotMotors, EncMotors, Wheels
  <2>10. QED
    BY <1>6, <2>2, <2>3, <2>4, <2>5, <2>6, <2>8, <2>9 DEF Sends, Maps, Pulls, SensorMaps
<1>7. stage \in {"modes", "pots", "encs", "wheels", "pids", "hand"}
  BY Stagewise
<1>8. QED BY <1>1, <1>2, <1>3, <1>4, <1>5, <1>6, <1>7

LEMMA InitOneKeepsIInv ==
  ASSUME RoversMotors, IInv, NEW m \in Motors, InitOne(m)
  PROVE  IInv'
<1>1. /\ stage \in DOMAIN StageNo \ {"can", "serving"} /\ calls = <<>> /\ m \in todo
      /\ todo' = todo \ {m} /\ calls' = CallsFor(stage, m) /\ m \in MotorsOf(stage)
      /\ UNCHANGED <<stage, board, duty, motor_ptrs, posSensor, pulled, motor_mode, asked, lost>>
  BY DEF InitOne, IInv, Typed, boards, objects
<1>2. /\ calls' \in Seq(CallTypes)
      /\ InOrder'
      /\ \A c \in Pending' : c.m = m /\ c.do # "duty"
      /\ \A n \in Places' : Maps(calls'[n], m) => n = Len(calls')
      /\ stage = MapStage(m) <=> \E c \in Pending' : Maps(c, m)
      /\ (\E c \in Pending' : Pulls(c, m)) <=> (\E c \in Pending' : SensorMaps(c, m))
      /\ stage = "modes" => \E c \in Pending' : Sends(c, m, "mode")
      /\ stage = "pids" => /\ \E c \in Pending' : Sends(c, m, "P")
                           /\ \E c \in Pending' : Sends(c, m, "I")
                           /\ \E c \in Pending' : Sends(c, m, "D")
  BY <1>1, LoopCalls
<1>3. Pending = {} /\ Places = {}
  BY <1>1, EmptySeq DEF Pending, Places
<1>4. \A x \in Motors, r \in Registers : Told(x, r)' <=> Told(x, r)
  BY <1>1 DEF Told
<1>5. /\ \A s \in DOMAIN StageNo, x \in Motors \ {m} : Past(s, x)' <=> Past(s, x)
      /\ \A s \in DOMAIN StageNo : Past(s, m)' <=> Past(s, m) \/ s = stage
      /\ ~Past(stage, m)
  BY <1>1, Stagewise DEF Past
<1>6. Typed'
  <2>1. (todo \subseteq IF stage = "can" THEN {} ELSE MotorsOf(stage))'
    BY <1>1 DEF IInv, Typed, MotorsOf
  <2>2. QED BY <1>1, <1>2, <2>1 DEF IInv, Typed
<1>7. Configured'
  <2>1. {"pot hi", "pot lo", "encoder", "ppjr", "limit lo", "limit hi"} \subseteq Registers
    BY DEF Registers
  <2>2. QED BY <1>1, <1>4, <2>1 DEF IInv, Configured, Typed
<1>8. Progress'
  <2>1. {"mode", "P", "I", "D"} \subseteq Registers
    BY DEF Registers
  <2>2. {"modes", "pids", "pots", "encs", "wheels", "hand"} \subseteq DOMAIN StageNo
    BY DEF StageNo
  <2>3. \A x \in Motors : MapStage(x) \in DOMAIN StageNo
    BY <2>2 DEF MapStage
  <2>4. \A x \in Motors, r \in Registers : Promised(x, r) => Promised(x, r)'
    BY <1>3, <1>4 DEF Promised
  <2>5. \A x \in Motors \ {m} : \A c \in Pending' : ~Maps(c, x) /\ ~Pulls(c, x) /\ ~SensorMaps(c, x)
    BY <1>2 DEF Maps, Pulls, SensorMaps
  <2>6. ASSUME NEW x \in Motors, x # m
        PROVE  /\ (Past("modes", x) => Promised(x, "mode"))'
               /\ (x \in PidMotors /\ Past("pids", x) =>
                     Promised(x, "P") /\ Promised(x, "I") /\ Promised(x, "D"))'
               /\ (Past(MapStage(x), x) <=> x \in motor_ptrs \/ (\E c \in Pending : Maps(c, x)))'
               /\ (x \in pulled \/ (\E c \in Pending : Pulls(c, x))
                     <=> x \in posSensor \/ (\E c \in Pending : SensorMaps(c, x)))'
    <3>1. /\ Past("modes", x) => Promised(x, "mode")
          /\ x \in PidMotors /\ Past("pids", x) =>
               Promised(x, "P") /\ Promised(x, "I") /\ Promised(x, "D")
          /\ Past(MapStage(x), x) <=> x \in motor_ptrs
          /\ x \in pulled <=> x \in posSensor
      BY <1>3 DEF IInv, Progress
    <3>2. /\ Past("modes", x)' <=> Past("modes", x)
          /\ Past("pids", x)' <=> Past("pids", x)
          /\ Past(MapStage(x), x)' <=> Past(MapStage(x), x)
      BY <1>5, <2>2, <2>3, <2>6
    <3>3. MapStage(x)' = MapStage(x)
      OBVIOUS
    <3>4. QED BY <1>1, <2>1, <2>4, <2>5, <2>6, <3>1, <3>2
  <2>7. /\ (Past("modes", m) => Promised(m, "mode"))'
        /\ (m \in PidMotors /\ Past("pids", m) =>
              Promised(m, "P") /\ Promised(m, "I") /\ Promised(m, "D"))'
        /\ (Past(MapStage(m), m) <=> m \in motor_ptrs \/ (\E c \in Pending : Maps(c, m)))'
        /\ (m \in pulled \/ (\E c \in Pending : Pulls(c, m))
              <=> m \in posSensor \/ (\E c \in Pending : SensorMaps(c, m)))'
    <3>1. /\ Past("modes", m) => Promised(m, "mode")
          /\ m \in PidMotors /\ Past("pids", m) =>
               Promised(m, "P") /\ Promised(m, "I") /\ Promised(m, "D")
          /\ Past(MapStage(m), m) <=> m \in motor_ptrs
          /\ m \in pulled <=> m \in posSensor
      BY <1>3 DEF IInv, Progress
    <3>2. /\ Past("modes", m)' <=> Past("modes", m) \/ "modes" = stage
          /\ Past("pids", m)' <=> Past("pids", m) \/ "pids" = stage
          /\ Past(MapStage(m), m)' <=> Past(MapStage(m), m) \/ MapStage(m) = stage
      BY <1>5, <2>2, <2>3
    <3>3. /\ stage = "modes" => Promised(m, "mode")'
          /\ stage = "pids" => Promised(m, "P")' /\ Promised(m, "I")' /\ Promised(m, "D")'
      BY <1>2 DEF Promised
    <3>4. QED BY <1>1, <1>2, <2>1, <2>4, <3>1, <3>2, <3>3
  <2>8. \A n \in Places' : Maps(calls'[n], calls'[n].m) =>
          n = Len(calls') /\ calls'[n].m \notin motor_ptrs'
    <3>1. SUFFICES ASSUME NEW n \in Places', Maps(calls'[n], calls'[n].m)
                   PROVE  n = Len(calls') /\ calls'[n].m \notin motor_ptrs'
      OBVIOUS
    <3>2. calls'[n] \in Pending'
      BY DEF Pending
    <3>3. calls'[n].m = m
      BY <1>2, <3>2
    <3>4. stage = MapStage(m)
      BY <1>2, <3>1, <3>2, <3>3
    <3>5. m \notin motor_ptrs
      BY <1>3, <1>5, <3>4 DEF IInv, Progress
    <3>6. QED BY <1>1, <1>2, <3>1, <3>3, <3>5
  <2>9. QED BY <1>1, <2>6, <2>7, <2>8 DEF Progress
<1>9. Commanded'
  <2>1. \A x \in Motors : motor_mode[x] = None /\ asked[x] = NoPower
    BY <1>1 DEF IInv, Commanded, Typed, None
  <2>2. QED BY <1>1, <1>2, <2>1 DEF Commanded, Duties
<1>10. QED BY <1>2, <1>6, <1>7, <1>8, <1>9 DEF IInv

LEMMA NextStageKeepsIInv ==
  ASSUME RoversMotors, IInv, NextStage
  PROVE  IInv'
<1>1. /\ stage \in DOMAIN StageNo \ {"can", "serving"} /\ calls = <<>> /\ todo = {}
      /\ stage' = After(stage) /\ todo' = MotorsOf(stage')
      /\ UNCHANGED <<calls, board, duty, motor_ptrs, posSensor, pulled, motor_mode, asked, lost>>
  BY DEF NextStage, IInv, Typed, boards, objects
<1>2. /\ stage' \in DOMAIN StageNo /\ StageNo[stage'] = StageNo[stage] + 1 /\ stage' # "can"
      /\ StageNo[stage] > 0
  BY <1>1, Stagewise DEF StageNo
<1>3. Pending = {} /\ Places = {} /\ Pending' = {} /\ Places' = {}
  BY <1>1, EmptySeq DEF Pending, Places
<1>4. \A x \in Motors, r \in Registers : Promised(x, r)' <=> Promised(x, r)
  BY <1>1, <1>3 DEF Told, Promised
<1>5. ASSUME NEW x \in Motors, NEW s \in DOMAIN StageNo, s = stage' => x \in MotorsOf(s)
      PROVE  Past(s, x)' <=> Past(s, x)
  <2>1. StageNo[s] \in Nat /\ StageNo[stage] \in Nat
    BY <1>1, Stagewise
  <2>2. stage = s <=> StageNo[stage] = StageNo[s]
    BY <1>1, Stagewise
  <2>3. Past(s, x) <=> StageNo[stage] >= StageNo[s]
    BY <1>1, <2>1, <2>2 DEF Past
  <2>4. Past(s, x)' <=> StageNo[stage'] > StageNo[s]
    BY <1>1, <1>5 DEF Past
  <2>5. QED BY <1>2, <2>1, <2>3, <2>4
<1>6. Typed'
  BY <1>1, <1>2 DEF IInv, Typed
<1>7. InOrder'
  BY <1>3 DEF InOrder
<1>8. Configured'
  BY <1>1 DEF IInv, Configured, Told
<1>9. Progress'
  <2>1. {"mode", "P", "I", "D"} \subseteq Registers
    BY DEF Registers
  <2>2. {"modes", "pids", "pots", "encs", "wheels", "hand"} \subseteq DOMAIN StageNo
    BY DEF StageNo
  <2>3. \A x \in Motors : MapStage(x) \in DOMAIN StageNo /\ x \in MotorsOf(MapStage(x))
    BY <2>2, Stagewise DEF MapStage
  <2>4. MotorsOf("modes") = Motors /\ MotorsOf("pids") = Motors \cap PidMotors
    BY Stagewise
  <2>5. \A x \in Motors : /\ Past("modes", x)' <=> Past("modes", x)
                          /\ x \in PidMotors => (Past("pids", x)' <=> Past("pids", x))
                          /\ Past(MapStage(x), x)' <=> Past(MapStage(x), x)
    BY <1>5, <2>2, <2>3, <2>4
  <2>6. QED BY <1>1, <1>2, <1>3, <1>4, <2>1, <2>5 DEF IInv, Progress
<1>10. Commanded'
  <2>1. \A x \in Motors : motor_mode[x] = None /\ asked[x] = NoPower
    BY <1>1 DEF IInv, Commanded, Typed, None
  <2>2. QED BY <1>1, <1>3, <2>1 DEF Commanded
<1>11. QED BY <1>6, <1>7, <1>8, <1>9, <1>10 DEF IInv

(***************************************************************************)
(* Commands, the socket, and the whole.                                    *)
(***************************************************************************)
\* The conversion to an int16_t is within half a unit.
LEMMA RoundedWithinHalf ==
  ASSUME NEW x \in Int, -10000 <= x, x <= 10000
  PROVE  /\ Rounded(x) \in Int /\ -32767 <= Rounded(x) /\ Rounded(x) <= 32767
         /\ -5000 <= Rounded(x) * 10000 - x * 32767
         /\ Rounded(x) * 10000 - x * 32767 <= 5000
<1>1. CASE x < 0
  <2> DEFINE q == (-x * 2 * 32767 + 10000) \div 20000
  <2>1. q \in Int /\ 20000 * q <= -x * 65534 + 10000 /\ -x * 65534 + 10000 < 20000 * q + 20000
    OBVIOUS
  <2>2. Rounded(x) = -q
    BY <1>1 DEF Rounded
  <2> HIDE DEF q
  <2>3. q >= 0 /\ q <= 32767
    BY <1>1, <2>1
  <2>4. -5000 <= -q * 10000 - x * 32767 /\ -q * 10000 - x * 32767 <= 5000
    BY <2>1
  <2>5. QED BY <2>1, <2>2, <2>3, <2>4
<1>2. CASE x >= 0
  <2> DEFINE q == (x * 2 * 32767 + 10000) \div 20000
  <2>1. q \in Int /\ 20000 * q <= x * 65534 + 10000 /\ x * 65534 + 10000 < 20000 * q + 20000
    OBVIOUS
  <2>2. Rounded(x) = q
    BY <1>2 DEF Rounded
  <2> HIDE DEF q
  <2>3. q >= 0 /\ q <= 32767
    BY <1>2, <2>1
  <2>4. -5000 <= q * 10000 - x * 32767 /\ q * 10000 - x * 32767 <= 5000
    BY <2>1
  <2>5. QED BY <2>1, <2>2, <2>3, <2>4
<1>3. QED BY <1>1, <1>2

\* The scales are at most full power.
LEMMA ScalesArePercent ==
  ASSUME RoversMotors, NEW m \in Motors
  PROVE  PwmScale[m] \in Int /\ -100 <= PwmScale[m] /\ PwmScale[m] <= 100
BY DEF RoversMotors, PwmScale

LEMMA ProductOfPercents ==
  ASSUME NEW a \in Int, -100 <= a, a <= 100, NEW b \in Int, -100 <= b, b <= 100
  PROVE  a * b \in Int /\ -10000 <= a * b /\ a * b <= 10000
<1>1. CASE a >= 0
  <2>1. a * b <= a * 100 /\ a * b >= a * (-100)
    BY <1>1
  <2>2. QED BY <2>1
<1>2. CASE a < 0
  <2>1. a * b <= (-a) * 100 /\ a * b >= (-a) * (-100)
    BY <1>2
  <2>2. QED BY <1>2, <2>1
<1>3. QED BY <1>1, <1>2

\* The int16_t that is sent is the power scaled, within half a unit.
LEMMA PowersScaled ==
  ASSUME RoversMotors, UpToFullPower, NEW m \in Motors, NEW power \in Powers
  PROVE  LET d == DutyCycle(m, power)
             error == d * 10000 - power * PwmScale[m] * 32767
         IN d \in Int /\ -32767 <= d /\ d <= 32767 /\ -5000 <= error /\ error <= 5000
<1> DEFINE x == power * PwmScale[m]
           d == DutyCycle(m, power)
<1>1. power \in Int /\ -100 <= power /\ power <= 100
  BY DEF UpToFullPower
<1>2. PwmScale[m] \in Int /\ -100 <= PwmScale[m] /\ PwmScale[m] <= 100
  BY ScalesArePercent
<1>3. x \in Int /\ -10000 <= x /\ x <= 10000
  <2> DEFINE b == PwmScale[m]
  <2> HIDE DEF b
  <2>1. power * b \in Int /\ -10000 <= power * b /\ power * b <= 10000
    BY <1>1, <1>2, ProductOfPercents DEF b
  <2>2. QED BY <2>1 DEF b
<1>4. d = Rounded(Clamp(x))
  BY DEF DutyCycle
<1> HIDE DEF x, d
<1>5. Clamp(x) = x
  BY <1>3 DEF Clamp
<1>6. /\ d \in Int /\ -32767 <= d /\ d <= 32767
      /\ -5000 <= d * 10000 - x * 32767 /\ d * 10000 - x * 32767 <= 5000
  BY <1>3, <1>4, <1>5, RoundedWithinHalf
<1>7. QED BY <1>6 DEF x, d
\* A command's two calls.
LEMMA AppendMakesTwo ==
  ASSUME NEW S, NEW s \in Seq(S), NEW t \in Seq(S), NEW b \in S,
         Len(s) = 1, Len(t) = 2, t[1] = s[1], t[2] = b
  PROVE  Append(s, b) = t
OBVIOUS

LEMMA AppendToOne ==
  ASSUME NEW a, NEW b
  PROVE  Append(<<a>>, b) = <<a, b>>
<1> DEFINE S == {a, b}
           s == <<a>>
           t == <<a, b>>
<1>1. /\ s \in Seq(S) /\ t \in Seq(S) /\ b \in S
      /\ Len(s) = 1 /\ Len(t) = 2 /\ t[1] = s[1] /\ t[2] = b
  OBVIOUS
<1> HIDE DEF S, s, t
<1>2. Append(s, b) = t
  BY <1>1, AppendMakesTwo, Zenon
<1>3. QED BY <1>2 DEF s, t

\* A command: the mode's packet, unless the object holds that mode, and what it is for.
LEMMA CommandCalls ==
  ASSUME RoversMotors, NEW m \in Motors, NEW mode \in {"pwm", "pid"}, NEW last \in CallTypes,
         last.m = m,
         \/ last.do = "duty" /\ last.register = None
         \/ last.do = "send" /\ last.register = "target" /\ last.value \in Values,
         calls' = Append(EnsureMotorMode(m, mode), last)
  PROVE  /\ calls' \in Seq(CallTypes)
         /\ InOrder'
         /\ \A c \in Pending' : c.m = m /\ c.do \in {"send", "duty"}
         /\ last \in Pending'
         /\ \A c \in Pending' : c # last => Sends(c, m, "mode") /\ c.value = mode
         /\ motor_mode[m] # mode => \E c \in Pending' : Sends(c, m, "mode") /\ c.value = mode
<1> DEFINE p == Packet(m, "mode", mode)
<1>0. "mode" \in Registers /\ mode \in Values
  BY DEF Registers, Values
<1>1. p \in CallTypes /\ Sends(p, m, "mode") /\ p.value = mode /\ p.value \in Values
  <2>1. \A r \in Registers, v \in Values :
          Packet(m, r, v) \in CallTypes /\ Packet(m, r, v).value = v /\ Sends(Packet(m, r, v), m, r)
    BY CallFields
  <2> HIDE DEF p
  <2>2. p \in CallTypes /\ p.value = mode /\ Sends(p, m, "mode")
    BY <1>0, <2>1, Zenon DEF p
  <2>3. QED BY <1>0, <2>2
<1>2. CASE motor_mode[m] = mode
  <2>1. calls' = <<last>>
    BY <1>2 DEF EnsureMotorMode
  <2>2. calls' \in Seq(CallTypes) /\ Len(calls') = 1 /\ calls'[1] = last
    BY <2>1
  <2>3. Places' = {1} /\ Pending' = {last}
    BY <2>2 DEF Places, Pending
  <2>4. Placed(last, 1)'
    BY DEF Placed, Registers, Sends
  <2>5. InOrder'
    BY <2>2, <2>3, <2>4 DEF InOrder
  <2>6. QED BY <1>2, <2>2, <2>3, <2>5
<1>3. CASE motor_mode[m] # mode
  <2> HIDE DEF p
  <2>1. EnsureMotorMode(m, mode) = <<p>>
    BY <1>3 DEF EnsureMotorMode, p
  <2>2. Append(<<p>>, last) = <<p, last>>
    BY AppendToOne, Zenon
  <2>3. calls' = <<p, last>>
    BY <2>1, <2>2, Zenon
  <2>4. calls' \in Seq(CallTypes) /\ Len(calls') = 2 /\ calls'[1] = p /\ calls'[2] = last
    BY <1>1, <2>3
  <2>5. Places' = {1, 2}
    BY <2>4 DEF Places
  <2>6. Pending' = {p, last}
    BY <2>4, <2>5 DEF Pending
  <2>7. Placed(last, 2)'
    BY DEF Placed, Registers, Sends
  <2>8. Placed(p, 1)'
    BY <1>1 DEF Placed, Registers, Sends
  <2>9. InOrder'
    BY <2>4, <2>5, <2>7, <2>8 DEF InOrder
  <2>10. QED BY <1>1, <2>4, <2>6, <2>9 DEF Sends
<1>4. QED BY <1>2, <1>3

\* What commands have in common: they leave what initMotors did.
LEMMA CommandKeepsBoards ==
  ASSUME RoversMotors, IInv, NEW m \in Motors, NEW mode \in {"pwm", "pid"}, NEW last \in CallTypes,
         last.m = m,
         \/ last.do = "duty" /\ last.register = None
         \/ last.do = "send" /\ last.register = "target" /\ last.value \in Values,
         calls' = Append(EnsureMotorMode(m, mode), last),
         stage = "serving", calls = <<>>, motor_mode' = [motor_mode EXCEPT ![m] = mode],
         asked' \in [Motors -> Powers \cup {NoPower}],
         UNCHANGED <<stage, todo, boards, motor_ptrs, posSensor, pulled, lost>>
  PROVE  Typed' /\ InOrder' /\ Configured' /\ Progress'
<1>1. /\ calls' \in Seq(CallTypes) /\ InOrder'
      /\ \A c \in Pending' : c.m = m /\ c.do \in {"send", "duty"}
  BY CommandCalls
<1>2. Pending = {} /\ Places = {}
  BY EmptySeq DEF Pending, Places
<1>3. UNCHANGED <<board, duty>>
  BY DEF boards
<1>4. Typed'
  <2>1. (todo \subseteq IF stage = "can" THEN {} ELSE MotorsOf(stage))'
    BY DEF IInv, Typed, MotorsOf
  <2>2. QED BY <1>1, <1>3, <2>1 DEF IInv, Typed
<1>5. Configured'
  BY <1>3 DEF IInv, Configured, Told
<1>6. Progress'
  <2>1. {"mode", "P", "I", "D"} \subseteq Registers
    BY DEF Registers
  <2>2. \A x \in Motors, r \in Registers : Promised(x, r) => Promised(x, r)'
    BY <1>2, <1>3 DEF Promised, Told
  <2>3. \A c \in Pending' : \A x : ~Maps(c, x) /\ ~Pulls(c, x) /\ ~SensorMaps(c, x)
    BY <1>1 DEF Maps, Pulls, SensorMaps
  <2>4. \A s, x : Past(s, x)' <=> Past(s, x)
    BY DEF Past
  <2>5. \A n \in Places' : calls'[n] \in Pending'
    BY DEF Pending
  <2>6. QED BY <1>2, <2>1, <2>2, <2>3, <2>4, <2>5 DEF IInv, Progress
<1>7. QED BY <1>1, <1>4, <1>5, <1>6

LEMMA PowerKeepsIInv ==
  ASSUME RoversMotors, UpToFullPower, IInv, NEW m \in Motors, NEW power \in Powers,
         SetMotorPower(m, power)
  PROVE  IInv' /\ \A c \in Pending' : c.do \in {"send", "duty"}
<1> DEFINE last == Duty(m, DutyCycle(m, power))
<1>1. /\ stage = "serving" /\ calls = <<>> /\ calls' = Append(EnsureMotorMode(m, "pwm"), last)
      /\ motor_mode' = [motor_mode EXCEPT ![m] = "pwm"] /\ asked' = [asked EXCEPT ![m] = power]
      /\ UNCHANGED <<stage, todo, boards, motor_ptrs, posSensor, pulled, lost>>
  BY DEF SetMotorPower
<1>2. DutyCycle(m, power) \in Int
  BY PowersScaled
<1>3. /\ last \in CallTypes /\ last.m = m /\ last.do = "duty" /\ last.register = None
      /\ last.duty = DutyCycle(m, power)
  <2> DEFINE c == Call("duty", m)
  <2>1. c \in CallTypes /\ c.m = m /\ c.do = "duty" /\ c.register = None
    BY DEF Call, CallTypes, NoDuty
  <2>2. last = [c EXCEPT !.duty = DutyCycle(m, power)]
    BY DEF Duty
  <2> HIDE DEF c, last
  <2>3. QED BY <1>2, <2>1, <2>2 DEF CallTypes
<1> HIDE DEF last
<1>4. asked' \in [Motors -> Powers \cup {NoPower}]
  BY <1>1 DEF IInv, Typed
<1>5. Typed' /\ InOrder' /\ Configured' /\ Progress'
  BY <1>1, <1>3, <1>4, CommandKeepsBoards
<1>6. /\ \A c \in Pending' : c.m = m /\ c.do \in {"send", "duty"}
      /\ last \in Pending'
      /\ \A c \in Pending' : c # last => Sends(c, m, "mode") /\ c.value = "pwm"
      /\ motor_mode[m] # "pwm" => \E c \in Pending' : Sends(c, m, "mode") /\ c.value = "pwm"
  BY <1>1, <1>3, CommandCalls
<1>7. Pending = {}
  BY <1>1, EmptySeq DEF Pending, Places
<1>8. UNCHANGED <<stage, board, duty, lost>>
  BY <1>1 DEF boards
<1>9. power # NoPower
  BY DEF UpToFullPower, NoPower
<1>10. Commanded'
  <2>1. ASSUME NEW x \in Motors, x # m
        PROVE  /\ motor_mode'[x] = motor_mode[x] /\ asked'[x] = asked[x]
               /\ \A c \in Pending' : ~Sends(c, x, "mode") /\ ~Duties(c, x)
    BY <1>1, <1>6, <2>1 DEF IInv, Typed, Sends, Duties
  <2>2. /\ motor_mode'[m] = "pwm" /\ asked'[m] = power
        /\ \A c \in Pending' : Sends(c, m, "mode") => c.value = "pwm"
        /\ \A c \in Pending' : Duties(c, m) => c.duty = DutyCycle(m, power)
        /\ Duties(last, m)
    BY <1>1, <1>3, <1>6 DEF IInv, Typed, Sends, Duties
  <2>3. ASSUME NEW x \in Motors, x # m
        PROVE  /\ (motor_mode[x] # None =>
                     /\ stage = "serving"
                     /\ \A c \in Pending : Sends(c, x, "mode") => c.value = motor_mode[x]
                     /\ \/ \E c \in Pending : Sends(c, x, "mode")
                        \/ <<x, "mode">> \in lost
                        \/ board[x]["mode"] = motor_mode[x])'
               /\ (asked[x] # NoPower =>
                     /\ motor_mode[x] = "pwm"
                     /\ \/ \E c \in Pending : Duties(c, x)
                        \/ <<x, None>> \in lost
                        \/ duty[x] = DutyCycle(x, asked[x]))'
               /\ (\A c \in Pending : Duties(c, x) =>
                     asked[x] # NoPower /\ c.duty = DutyCycle(x, asked[x]))'
    BY <1>1, <1>7, <1>8, <2>1, <2>3 DEF IInv, Commanded
  <2>4. /\ (motor_mode[m] # None =>
              /\ stage = "serving"
              /\ \A c \in Pending : Sends(c, m, "mode") => c.value = motor_mode[m]
              /\ \/ \E c \in Pending : Sends(c, m, "mode")
                 \/ <<m, "mode">> \in lost
                 \/ board[m]["mode"] = motor_mode[m])'
        /\ (asked[m] # NoPower =>
              /\ motor_mode[m] = "pwm"
              /\ \/ \E c \in Pending : Duties(c, m)
                 \/ <<m, None>> \in lost
                 \/ duty[m] = DutyCycle(m, asked[m]))'
        /\ (\A c \in Pending : Duties(c, m) =>
              asked[m] # NoPower /\ c.duty = DutyCycle(m, asked[m]))'
    <3>1. motor_mode[m] = "pwm" => <<m, "mode">> \in lost \/ board[m]["mode"] = "pwm"
      BY <1>7 DEF IInv, Commanded, None
    <3>2. QED BY <1>1, <1>6, <1>8, <1>9, <2>2, <3>1
  <2>5. QED BY <2>3, <2>4 DEF Commanded
<1>11. QED BY <1>5, <1>6, <1>10 DEF IInv

LEMMA PosKeepsIInv ==
  ASSUME RoversMotors, IInv, NEW m \in Motors, SetMotorPos(m)
  PROVE  IInv' /\ \A c \in Pending' : c.do \in {"send", "duty"}
<1> DEFINE last == Packet(m, "target", m)
<1>1. /\ stage = "serving" /\ calls = <<>> /\ calls' = Append(EnsureMotorMode(m, "pid"), last)
      /\ motor_mode' = [motor_mode EXCEPT ![m] = "pid"] /\ asked' = [asked EXCEPT ![m] = NoPower]
      /\ UNCHANGED <<stage, todo, boards, motor_ptrs, posSensor, pulled, lost>>
  BY DEF SetMotorPos
<1>2. "target" \in Registers /\ m \in Values
  BY DEF Registers, Values
<1>3. /\ last \in CallTypes /\ last.m = m /\ last.do = "send" /\ last.register = "target"
      /\ last.value \in Values
  <2>1. last \in CallTypes /\ Sends(last, m, "target") /\ last.value = m
    BY <1>2, CallFields
  <2>2. QED BY <1>2, <2>1 DEF Sends
<1> HIDE DEF last
<1>4. asked' \in [Motors -> Powers \cup {NoPower}]
  BY <1>1 DEF IInv, Typed
<1>5. Typed' /\ InOrder' /\ Configured' /\ Progress'
  BY <1>1, <1>3, <1>4, CommandKeepsBoards
<1>6. /\ \A c \in Pending' : c.m = m /\ c.do \in {"send", "duty"}
      /\ \A c \in Pending' : c # last => Sends(c, m, "mode") /\ c.value = "pid"
      /\ motor_mode[m] # "pid" => \E c \in Pending' : Sends(c, m, "mode") /\ c.value = "pid"
  BY <1>1, <1>3, CommandCalls
<1>7. Pending = {}
  BY <1>1, EmptySeq DEF Pending, Places
<1>8. UNCHANGED <<stage, board, duty, lost>>
  BY <1>1 DEF boards
<1>9. Commanded'
  <2>1. ASSUME NEW x \in Motors, x # m
        PROVE  /\ motor_mode'[x] = motor_mode[x] /\ asked'[x] = asked[x]
               /\ \A c \in Pending' : ~Sends(c, x, "mode") /\ ~Duties(c, x)
    BY <1>1, <1>6, <2>1 DEF IInv, Typed, Sends, Duties
  <2>2. /\ motor_mode'[m] = "pid" /\ asked'[m] = NoPower
        /\ \A c \in Pending' : Sends(c, m, "mode") => c.value = "pid"
        /\ \A c \in Pending' : ~Duties(c, m)
    BY <1>1, <1>3, <1>6 DEF IInv, Typed, Sends, Duties
  <2>3. ASSUME NEW x \in Motors, x # m
        PROVE  /\ (motor_mode[x] # None =>
                     /\ stage = "serving"
                     /\ \A c \in Pending : Sends(c, x, "mode") => c.value = motor_mode[x]
                     /\ \/ \E c \in Pending : Sends(c, x, "mode")
                        \/ <<x, "mode">> \in lost
                        \/ board[x]["mode"] = motor_mode[x])'
               /\ (asked[x] # NoPower =>
                     /\ motor_mode[x] = "pwm"
                     /\ \/ \E c \in Pending : Duties(c, x)
                        \/ <<x, None>> \in lost
                        \/ duty[x] = DutyCycle(x, asked[x]))'
               /\ (\A c \in Pending : Duties(c, x) =>
                     asked[x] # NoPower /\ c.duty = DutyCycle(x, asked[x]))'
    BY <1>1, <1>7, <1>8, <2>1, <2>3 DEF IInv, Commanded
  <2>4. (motor_mode[m] # None =>
           /\ stage = "serving"
           /\ \A c \in Pending : Sends(c, m, "mode") => c.value = motor_mode[m]
           /\ \/ \E c \in Pending : Sends(c, m, "mode")
              \/ <<m, "mode">> \in lost
              \/ board[m]["mode"] = motor_mode[m])'
    <3>1. motor_mode[m] = "pid" => <<m, "mode">> \in lost \/ board[m]["mode"] = "pid"
      BY <1>7 DEF IInv, Commanded, None
    <3>2. QED BY <1>1, <1>6, <1>8, <2>2, <3>1
  <2>5. QED BY <2>2, <2>3, <2>4 DEF Commanded
<1>10. QED BY <1>5, <1>6, <1>9 DEF IInv

\* Once initMotors is done, every object is there and every board was told all it needs.
Serving ==
  /\ motor_ptrs = Motors /\ posSensor = pulled
  /\ \A m \in Motors : Told(m, "mode")
  /\ \A m \in Motors \cap PidMotors : Told(m, "P") /\ Told(m, "I") /\ Told(m, "D")
  /\ \A c \in Pending : c.do \in {"send", "duty"}
BoardsInv == IInv /\ (stage = "serving" => Serving)

LEMMA BoardsInit ==
  ASSUME RoversMotors, Init
  PROVE  BoardsInv
<1>1. /\ stage = "can" /\ todo = {} /\ calls = <<>> /\ motor_ptrs = {} /\ posSensor = {}
      /\ pulled = {} /\ lost = {}
      /\ board = [m \in Motors |-> [r \in Registers |-> None]]
      /\ duty = [m \in Motors |-> NoDuty]
      /\ motor_mode = [m \in Motors |-> None] /\ asked = [m \in Motors |-> NoPower]
  BY DEF Init
<1>2. Pending = {} /\ Places = {}
  BY <1>1, EmptySeq DEF Pending, Places
<1>3. Typed
  <2>1. calls \in Seq(CallTypes)
    BY <1>1
  <2>2. QED BY <1>1, <2>1 DEF Typed, StageNo, NoDuty
<1>4. InOrder
  BY <1>2 DEF InOrder
<1>5. Configured
  <2>1. "limit lo" \in Registers
    BY DEF Registers
  <2>2. \A m \in Motors : board[m]["limit lo"] = None
    BY <1>1, <2>1
  <2>3. QED BY <1>1, <2>2 DEF Configured
<1>6. Progress
  <2>1. ASSUME NEW m \in Motors, NEW s \in DOMAIN StageNo \ {"can"}
        PROVE  ~Past(s, m)
    BY <1>1 DEF Past, StageNo
  <2>2. \A m \in Motors : {"modes", "pids", MapStage(m)} \subseteq DOMAIN StageNo \ {"can"}
    BY DEF StageNo, MapStage
  <2>3. QED BY <1>1, <1>2, <2>1, <2>2 DEF Progress
<1>7. Commanded
  BY <1>1, <1>2 DEF Commanded
<1>8. QED BY <1>1, <1>3, <1>4, <1>5, <1>6, <1>7 DEF BoardsInv, IInv

LEMMA InitCANKeepsIInv ==
  ASSUME RoversMotors, IInv, NEW c, NEW r, InitCAN(c, r)
  PROVE  IInv'
<1>1. /\ stage = "can" /\ stage' = "modes" /\ todo' = Motors
      /\ UNCHANGED <<calls, board, duty, motor_ptrs, posSensor, pulled, motor_mode, asked, lost>>
  BY DEF InitCAN, boards, objects
<1>2. calls = <<>> /\ todo = {}
  BY <1>1 DEF IInv, Typed, Progress
<1>3. Pending = {} /\ Places = {} /\ Pending' = {} /\ Places' = {}
  BY <1>1, <1>2, EmptySeq DEF Pending, Places
<1>4. Typed'
  <2>1. MotorsOf("modes") = Motors
    BY Stagewise
  <2>2. QED BY <1>1, <2>1 DEF IInv, Typed, StageNo
<1>5. InOrder'
  BY <1>3 DEF InOrder
<1>6. Configured'
  BY <1>1 DEF IInv, Configured, Told
<1>7. Progress'
  <2>1. ASSUME NEW m \in Motors, NEW s \in DOMAIN StageNo \ {"can"}
        PROVE  ~Past(s, m) /\ ~Past(s, m)'
    BY <1>1 DEF Past, StageNo
  <2>2. \A m \in Motors : {"modes", "pids", MapStage(m)} \subseteq DOMAIN StageNo \ {"can"}
    BY DEF StageNo, MapStage
  <2>3. QED BY <1>1, <1>2, <1>3, <2>1, <2>2 DEF IInv, Progress
<1>8. Commanded'
  <2>1. \A x \in Motors : motor_mode[x] = None /\ asked[x] = NoPower
    BY <1>1 DEF IInv, Commanded, Typed, None
  <2>2. QED BY <1>1, <1>3, <2>1 DEF Commanded
<1>9. QED BY <1>4, <1>5, <1>6, <1>7, <1>8 DEF IInv

LEMMA StutterKeepsBoardsInv ==
  ASSUME BoardsInv, UNCHANGED vars
  PROVE  BoardsInv'
<1>1. UNCHANGED <<stage, todo, calls, board, duty, motor_ptrs, posSensor, pulled, motor_mode,
                  asked, lost>>
  BY DEF vars, boards, objects
<1>2. UNCHANGED <<Pending, Places>>
  BY <1>1 DEF Pending, Places
<1>3. \A m, r : Told(m, r)' <=> Told(m, r)
  BY <1>1 DEF Told
<1>4. Typed'
  BY <1>1 DEF BoardsInv, IInv, Typed, MotorsOf
<1>5. InOrder'
  <2>1. \A m, r, n : Ready(m, r, n)' <=> Ready(m, r, n)
    BY <1>1, <1>2, <1>3 DEF Ready
  <2>2. ASSUME NEW c, NEW n
        PROVE  Placed(c, n)' <=> Placed(c, n)
    <3>1. /\ Ready(c.m, "pot hi", n)' <=> Ready(c.m, "pot hi", n)
          /\ Ready(c.m, "pot lo", n)' <=> Ready(c.m, "pot lo", n)
          /\ Ready(c.m, "encoder", n)' <=> Ready(c.m, "encoder", n)
          /\ Ready(c.m, "ppjr", n)' <=> Ready(c.m, "ppjr", n)
          /\ Ready(c.m, "limit lo", n)' <=> Ready(c.m, "limit lo", n)
          /\ Ready(c.m, "limit hi", n)' <=> Ready(c.m, "limit hi", n)
      BY <2>1, Zenon
    <3>2. QED BY <3>1, Zenon DEF Placed, Sends
  <2>3. QED BY <1>1, <1>2, <2>2 DEF BoardsInv, IInv, InOrder
<1>6. Configured'
  BY <1>1, <1>3 DEF BoardsInv, IInv, Configured
<1>7. Progress'
  <2>1. \A m, r : Promised(m, r)' <=> Promised(m, r)
    BY <1>2, <1>3 DEF Promised
  <2>2. \A s, m : Past(s, m)' <=> Past(s, m)
    BY <1>1 DEF Past
  <2>3. QED BY <1>1, <1>2, <2>1, <2>2 DEF BoardsInv, IInv, Progress
<1>8. Commanded'
  BY <1>1, <1>2 DEF BoardsInv, IInv, Commanded
<1>9. QED BY <1>1, <1>2, <1>3, <1>4, <1>5, <1>6, <1>7, <1>8 DEF BoardsInv, IInv, Serving

\* The step that ends initMotors is where its promises are kept.
LEMMA ServingBegins ==
  ASSUME RoversMotors, IInv, NextStage, stage' = "serving"
  PROVE  Serving'
<1>1. /\ stage \in DOMAIN StageNo /\ calls = <<>> /\ stage' = After(stage)
      /\ stage \notin {"can", "serving"}
      /\ UNCHANGED <<calls, board, motor_ptrs, posSensor, pulled, lost>>
  BY DEF NextStage, IInv, Typed, boards, objects
<1>2. IInv'
  BY NextStageKeepsIInv
<1>3. Pending' = {} /\ Places' = {}
  BY <1>1, EmptySeq DEF Pending, Places
<1>4. \A m \in Motors : Past("modes", m)' /\ Past("pids", m)' /\ Past(MapStage(m), m)'
  BY DEF Past, StageNo, MapStage
<1>5. ASSUME NEW m \in Motors
      PROVE  /\ m \in motor_ptrs' /\ Promised(m, "mode")'
             /\ m \in PidMotors => (Promised(m, "P") /\ Promised(m, "I") /\ Promised(m, "D"))'
             /\ m \in pulled' <=> m \in posSensor'
  BY <1>2, <1>3, <1>4 DEF IInv, Progress
<1>6. \A m \in Motors, r \in Registers : Promised(m, r)' => Told(m, r)'
  BY <1>3 DEF Promised
<1>7. {"mode", "P", "I", "D"} \subseteq Registers
  BY DEF Registers
<1>8. motor_ptrs' \subseteq Motors /\ posSensor' \subseteq Motors /\ pulled' \subseteq Motors
  BY <1>2 DEF IInv, Typed
<1>9. QED BY <1>3, <1>5, <1>6, <1>7, <1>8 DEF Serving

LEMMA PopServing ==
  ASSUME IInv, Serving, Popping, UNCHANGED <<motor_ptrs, posSensor, pulled>>
  PROVE  Serving'
<1>1. Pending = {calls[1]} \cup Pending'
  BY PopPending DEF IInv, Popping
<1>2. {"mode", "P", "I", "D"} \subseteq Registers
  BY DEF Registers
<1>3. \A m \in Motors, r \in Registers : Told(m, r) => Told(m, r)'
  BY DEF Popping
<1>4. QED BY <1>1, <1>2, <1>3 DEF Serving

LEMMA CommandServing ==
  ASSUME Serving, \A c \in Pending' : c.do \in {"send", "duty"},
         UNCHANGED <<motor_ptrs, posSensor, pulled, boards, lost>>
  PROVE  Serving'
BY DEF Serving, Told, boards

LEMMA BoardsStep ==
  ASSUME RoversMotors, UpToFullPower, BoardsInv, [Next]_vars
  PROVE  BoardsInv'
<1>1. ASSUME NEW c \in Circumstances, NEW r \in Circumstances, InitCAN(c, r)
      PROVE  BoardsInv'
  BY <1>1, InitCANKeepsIInv DEF InitCAN, BoardsInv
<1>2. CASE NextStage
  BY <1>2, NextStageKeepsIInv, ServingBegins DEF BoardsInv
<1>3. ASSUME NEW ok \in BOOLEAN, Send(ok)
      PROVE  BoardsInv'
  <2>1. IInv'
    BY <1>3, SendKeepsIInv DEF BoardsInv
  <2>2. Popping
    BY <1>3, SendTells DEF BoardsInv, IInv
  <2>3. UNCHANGED <<stage, motor_ptrs, posSensor, pulled>>
    BY <1>3 DEF Send, objects
  <2>4. QED BY <2>1, <2>2, <2>3, PopServing DEF BoardsInv
<1>4. CASE ScheduleTelemetryPull \/ Insert
  <2>1. IInv'
    BY <1>4, PullKeepsIInv, InsertKeepsIInv DEF BoardsInv
  <2>2. /\ calls # <<>> /\ calls' = Tail(calls) /\ stage' = stage
        /\ Head(calls).do \in {"pull", "map", "map with sensor"}
    BY <1>4 DEF ScheduleTelemetryPull, Insert
  <2>3. Head(calls) \in Pending
    BY <2>2, PopShifts DEF BoardsInv, IInv, Pending
  <2>4. stage # "serving"
    BY <2>2, <2>3 DEF BoardsInv, Serving
  <2>5. QED BY <2>1, <2>2, <2>4 DEF BoardsInv
<1>5. ASSUME NEW m \in Motors, InitOne(m)
      PROVE  BoardsInv'
  BY <1>5, InitOneKeepsIInv DEF InitOne, BoardsInv
<1>6. ASSUME NEW m \in Motors, SetMotorPos(m)
      PROVE  BoardsInv'
  <2>1. IInv' /\ \A c \in Pending' : c.do \in {"send", "duty"}
    BY <1>6, PosKeepsIInv DEF BoardsInv
  <2>2. stage = "serving" /\ UNCHANGED <<stage, motor_ptrs, posSensor, pulled, boards, lost>>
    BY <1>6 DEF SetMotorPos
  <2>3. QED BY <2>1, <2>2, CommandServing DEF BoardsInv
<1>7. ASSUME NEW m \in Motors, NEW power \in Powers, SetMotorPower(m, power)
      PROVE  BoardsInv'
  <2>1. IInv' /\ \A c \in Pending' : c.do \in {"send", "duty"}
    BY <1>7, PowerKeepsIInv DEF BoardsInv
  <2>2. stage = "serving" /\ UNCHANGED <<stage, motor_ptrs, posSensor, pulled, boards, lost>>
    BY <1>7 DEF SetMotorPower
  <2>3. QED BY <2>1, <2>2, CommandServing DEF BoardsInv
<1>8. CASE UNCHANGED vars
  BY <1>8, StutterKeepsBoardsInv
<1>9. QED BY <1>1, <1>2, <1>3, <1>4, <1>5, <1>6, <1>7, <1>8 DEF Next

LEMMA InvIsConfigured ==
  ASSUME RoversMotors, BoardsInv
  PROVE  BoardsAreConfigured
<1>1. pulled \subseteq Motors /\ posSensor \subseteq Motors
  BY DEF BoardsInv, IInv, Typed
<1>2. ASSUME NEW m \in Motors
      PROVE  /\ Told(m, "pot hi") /\ Told(m, "pot lo") => Arrived(m, {"pot hi", "pot lo"})
             /\ Told(m, "encoder") /\ Told(m, "ppjr") => Arrived(m, {"encoder", "ppjr"})
             /\ Told(m, "limit lo") /\ Told(m, "limit hi")
                  => Arrived(m, {"limit lo", "limit hi"})
             /\ Told(m, "encoder") => Arrived(m, {"encoder"})
             /\ Told(m, "mode") => Arrived(m, {"mode"})
             /\ Told(m, "P") /\ Told(m, "I") /\ Told(m, "D") => Arrived(m, {"P", "I", "D"})
  BY DEF Told, Arrived
<1>3. QED BY <1>1, <1>2 DEF BoardsInv, IInv, Configured, Serving, BoardsAreConfigured

LEMMA InvIsAsked ==
  ASSUME RoversMotors, UpToFullPower, BoardsInv
  PROVE  DutyIsAsked
<1>1. ASSUME calls = <<>>, NEW m \in Motors
      PROVE  InDuty(m)
  <2>1. Pending = {}
    BY <1>1, EmptySeq DEF Pending, Places
  <2>2. motor_mode[m] # None /\ <<m, "mode">> \notin lost => board[m]["mode"] = motor_mode[m]
    BY <2>1 DEF BoardsInv, IInv, Commanded
  <2>3. ASSUME asked[m] # NoPower, <<m, None>> \notin lost
        PROVE  motor_mode[m] = "pwm" /\ duty[m] = DutyCycle(m, asked[m]) /\ asked[m] \in Powers
    BY <2>1, <2>3 DEF BoardsInv, IInv, Commanded, Typed
  <2>4. QED BY <2>2, <2>3, PowersScaled DEF Error, InDuty
<1>2. QED BY <1>1 DEF DutyIsAsked

\* real_world_interface.cpp: whichever packets are lost, no motor is pulled or has a sensor
\* before its board was told how to measure, and all are configured when initMotors is done.
THEOREM ConfiguredAlways ==
  ASSUME RoversMotors, UpToFullPower
  PROVE  Spec => []BoardsAreConfigured
<1>1. Init => BoardsInv
  BY BoardsInit
<1>2. BoardsInv /\ [Next]_vars => BoardsInv'
  BY BoardsStep
<1>3. BoardsInv => BoardsAreConfigured
  BY InvIsConfigured
<1>4. QED BY <1>1, <1>2, <1>3, PTL DEF Spec

\* can_motor.cpp: between commands a board that lost no packet has its object's mode, and a
\* duty cycle within half a unit of the power that was asked last.
THEOREM DutyIsAskedAlways ==
  ASSUME RoversMotors, UpToFullPower
  PROVE  Spec => []DutyIsAsked
<1>1. Init => BoardsInv
  BY BoardsInit
<1>2. BoardsInv /\ [Next]_vars => BoardsInv'
  BY BoardsStep
<1>3. BoardsInv => DutyIsAsked
  BY InvIsAsked
<1>4. QED BY <1>1, <1>2, <1>3, PTL DEF Spec
=============================================================================
