------------------------------ MODULE Odometry ------------------------------
(***************************************************************************)
(* A drive request, setCmdVel and readOdom (MissionControlProtocol.cpp,    *)
(* kinematic_common_interface.cpp, DiffDriveKinematics.cpp, transform.cpp):*)
(* the powers of the wheels, and the transform that is multiplied up from  *)
(* the wheels' velocities. Units are such that wheels whose velocities     *)
(* differ by two turn the rover by a quarter turn in a millisecond: turns  *)
(* are counted in quarters, the whole ones that a matrix forgets included. *)
(* Lengths are doubled, to stay whole.                                     *)
(***************************************************************************)
EXTENDS Integers

CONSTANTS Sticks,     \* inputs <<straight, steer>>, as numbers up to Unit with whole norms
          Unit, MaxWheelVel,
          MaxTurnVel, \* half the wheel base times MAX_DTHETA
          WheelBase,
          Millisecond,  \* in ticks of the clock
          MaxTime, MaxReads   \* bounds on the clock and on the readings of the odometry

None == <<>>
VARIABLES now, stop,          \* the time, Globals::E_STOP
          lastOdom,           \* None or [time, data], a transform
          commandedWheelVel,  \* [l, r]
          power,              \* of the wheels: [l, r] divided by unit
          reads, driven       \* history: readings, and where the velocities led until the last
vars == <<now, stop, lastOdom, commandedWheelVel, power, reads, driven>>

Abs(i) == IF i < 0 THEN -i ELSE i
Larger(i, j) == IF i > j THEN i ELSE j
Sqrt(v) == CHOOSE r \in 0..v : r * r <= v /\ v < (r + 1) * (r + 1)
Zero == [l |-> 0, r |-> 0]

\* handleDriveRequest and robotVelToWheelVel: the stick is scaled back to the unit circle.
WheelVel(stick) ==
  LET scale == Larger(Unit, Sqrt(stick[1] * stick[1] + stick[2] * stick[2]))
      dx == (MaxWheelVel * stick[1]) \div scale
      turn == -(MaxTurnVel * stick[2]) \div scale
  IN [l |-> dx - turn, r |-> dx + turn]
\* The powers are scaled down together. Mistake: only a wheel that turns ahead counts.
MaxPWM_Ahead(vel) == Larger(MaxWheelVel, Larger(vel.l, vel.r))
MaxPWM(vel) == Larger(MaxWheelVel, Larger(Abs(vel.l), Abs(vel.r)))

(***************************************************************************)
(* Poses [at, turn], and transforms [turn, shift] that take a point p to   *)
(* the point Rotated(-turn, p) + shift.                                    *)
(***************************************************************************)
Cos(turn) == IF turn % 2 = 1 THEN 0 ELSE IF turn % 4 = 0 THEN 1 ELSE -1
Sin(turn) == IF turn % 2 = 0 THEN 0 ELSE IF turn % 4 = 1 THEN 1 ELSE -1
Rotated(turn, p) ==
  <<Cos(turn) * p[1] - Sin(turn) * p[2], Sin(turn) * p[1] + Cos(turn) * p[2]>>
Sum(p, q) == <<p[1] + q[1], p[2] + q[2]>>
Negative(p) == <<-p[1], -p[2]>>

ToTransformRotateFirst(at, turn) == [turn |-> turn, shift |-> Negative(at)]
Product(a, b) == [turn |-> a.turn + b.turn, shift |-> Sum(Rotated(-a.turn, b.shift), a.shift)]
ToTransform(pose) ==
  Product(ToTransformRotateFirst(<<0, 0>>, pose.turn), ToTransformRotateFirst(pose.at, 0))
ToPose(trf) == [at |-> Rotated(trf.turn, Negative(trf.shift)), turn |-> trf.turn]
Origin == [at |-> <<0, 0>>, turn |-> 0]

\* The radius of the circle on which the wheels lead the rover.
TurnRadius(vel) ==
  LET ahead == WheelBase * (vel.l + vel.r)
      turn == vel.r - vel.l
  IN IF turn > 0 THEN ahead \div turn ELSE (-ahead) \div (-turn)
Whole(dt) == dt \div Millisecond
GetLocalPoseUpdate(vel, dt) ==
  LET turn == ((vel.r - vel.l) \div 2) * Whole(dt)
      radius == TurnRadius(vel)
  IN [at |-> IF vel.l = vel.r THEN <<(vel.l + vel.r) * (Millisecond * Whole(dt)), 0>>
             ELSE <<radius * Sin(turn), radius * (1 - Cos(turn))>>,
      turn |-> turn]
GetNextPose(vel, pose, dt) ==
  LET update == GetLocalPoseUpdate(vel, dt)
  IN [at |-> Sum(pose.at, Rotated(pose.turn, update.at)), turn |-> pose.turn + update.turn]

\* What readOdom returns while the velocities are vel: whole milliseconds are counted.
ReadOdom(vel) ==
  [time |-> now,
   data |-> IF lastOdom = None THEN ToTransform(Origin)
            ELSE Product(lastOdom.data, ToTransform(GetLocalPoseUpdate(vel, now - lastOdom.time)))]

Init ==
  /\ now = 0 /\ stop = FALSE /\ lastOdom = None
  /\ commandedWheelVel = Zero /\ power = [l |-> 0, r |-> 0, unit |-> 1]
  /\ reads = 0 /\ driven = [time |-> 0, way |-> 0, turn |-> 0, pose |-> Origin, paths |-> {}]
Tick ==
  /\ now < MaxTime /\ now' = now + 1
  /\ UNCHANGED <<stop, lastOdom, commandedWheelVel, power, reads, driven>>
EmergencyStop ==
  /\ stop' = ~stop
  /\ UNCHANGED <<now, lastOdom, commandedWheelVel, power, reads, driven>>

\* The line or the circle on which velocities lead.
Straight == <<>>
Path(vel) == IF vel.l = vel.r THEN Straight ELSE <<TurnRadius(vel)>>
\* History: the way and the turn that were driven until now, the pose to which getNextPose leads
\* in the milliseconds that readings count, and the paths that lead there.
Count ==
  LET dt == now - driven.time
      vel == commandedWheelVel
  IN /\ reads < MaxReads /\ reads' = reads + 1
     /\ driven' = [time |-> now, way |-> driven.way + (vel.l + vel.r) * dt,
                   turn |-> driven.turn + (vel.r - vel.l) * dt,
                   pose |-> GetNextPose(vel, driven.pose, dt),
                   paths |-> driven.paths \cup
                               IF vel = Zero \/ Whole(dt) = 0 THEN {} ELSE {Path(vel)}]
\* A call of readOdom stores what it returns once a velocity was set.
Read ==
  /\ lastOdom # None
  /\ lastOdom' = ReadOdom(commandedWheelVel)
  /\ Count
  /\ UNCHANGED <<now, stop, commandedWheelVel, power>>
\* setCmdVel, as a drive request or as the stop of the power repeater calls it.
\* Mistake: the new velocity is stored before the odometry is read.
SetCmdVel_ReadsLate(vel) ==
  /\ ~(stop /\ vel # Zero)
  /\ lastOdom' = ReadOdom(vel)
  /\ commandedWheelVel' = vel
  /\ power' = [l |-> vel.l, r |-> vel.r, unit |-> MaxPWM(vel)]
  /\ Count
  /\ UNCHANGED <<now, stop>>
SetCmdVel(vel) ==
  /\ ~(stop /\ vel # Zero)
  /\ lastOdom' = ReadOdom(commandedWheelVel)
  /\ commandedWheelVel' = vel
  /\ power' = [l |-> vel.l, r |-> vel.r, unit |-> MaxPWM(vel)]
  /\ Count
  /\ UNCHANGED <<now, stop>>

Next == Tick \/ EmergencyStop \/ Read \/ \E stick \in Sticks : SetCmdVel(WheelVel(stick))
Spec == Init /\ [][Next]_vars

\* "Calculates the current transform in the frame of the starting pose based purely on forward
\* kinematics" (world_interface.h:186): readOdom has the rover where getNextPose leads it with
\* the velocities of the wheels. It does not: readOdom multiplies an update on the wrong side.
OdomFollowsPath == lastOdom # None => ToPose(lastOdom.data) = driven.pose
\* What is left of it. The odometry was last read when it says; its heading is the one to which
\* the commanded velocities turn the rover, each in its own time, but for less than a
\* millisecond of motion a reading; and so is the way of a rover that went straight on and back.
\* As long as the rover kept to one line or one circle, updates commute and the pose is right.
OdomFollowsWheels ==
  lastOdom # None =>
    LET rest == reads * (Millisecond - 1) * 2 * (MaxWheelVel + MaxTurnVel)
        pose == ToPose(lastOdom.data)
    IN /\ lastOdom.time = driven.time
       /\ Abs(2 * Millisecond * pose.turn - driven.turn) <= rest
       /\ driven.paths \subseteq {Straight} =>
            pose.at[2] = 0 /\ Abs(pose.at[1] - driven.way) <= rest
       /\ (\A p, q \in driven.paths : p = q) => OdomFollowsPath
\* No wheel is given more than full power, ahead or back, and the wheels keep their ratio.
PowersAreScaled ==
  /\ Abs(power.l) <= power.unit /\ Abs(power.r) <= power.unit
  /\ power.l * commandedWheelVel.r = power.r * commandedWheelVel.l
=============================================================================
