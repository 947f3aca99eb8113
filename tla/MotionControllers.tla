------------------------- MODULE MotionControllers -------------------------
(***************************************************************************)
(* control/: a mechanism of one axis under a JacobianPosController, which  *)
(* follows a TrapezoidalVelocityProfile, or under a JacobianVelController  *)
(* (one of them has a target at a time, as their users keep it). The       *)
(* kinematics are the identity, as base_motor uses them. MaxAccel is even  *)
(* and profiles are those whose ramps end at whole times, so that every    *)
(* command at a whole time is an integer.                                  *)
(***************************************************************************)
EXTENDS Integers

CONSTANTS MaxVel, MaxAccel,
          Dists,       \* the lengths of moves
          Vels,        \* target velocities
          MaxPos,      \* bound on |positions|
          MaxTime      \* bound on the clock

None == <<>>
VARIABLES now, pos,   \* the time, and where the mechanism is
          profile,    \* the position controller's profile_t, or None
          velState,   \* the velocity controller's state_t, or None
          base        \* history: the first target and its time since the velocity was set
vars == <<now, pos, profile, velState, base>>

Abs(i) == IF i < 0 THEN -i ELSE i
Sign(i) == IF i < 0 THEN -1 ELSE IF i = 0 THEN 0 ELSE 1
Sqrt(v) == CHOOSE r \in 0..v : r * r <= v /\ v < (r + 1) * (r + 1)

RampUpTime == MaxVel \div MaxAccel
RampUpDist == (MaxVel * MaxVel) \div (2 * MaxAccel)
\* setTarget: a trapezoid when there is room to get to top speed, a triangle when not.
ProfileFor(t, startPos, endPos) ==
  LET dist == Abs(endPos - startPos)
      hasRoom == 2 * RampUpDist < dist
      coast == IF hasRoom THEN (dist - 2 * RampUpDist) \div MaxVel ELSE 0
      ramp == IF hasRoom THEN RampUpTime ELSE Sqrt(dist \div MaxAccel)
  IN [startTime |-> t, startPos |-> startPos, endPos |-> endPos,
      stopAccel |-> ramp, startDecel |-> ramp + coast, total |-> coast + 2 * ramp]

\* The distance while coasting, the area below the velocity. Mistake: the ramp's is left out.
Coasted_WithoutRamp(p, t) == (t - p.stopAccel) * MaxVel
Coasted(p, t) == ((2 * t - p.stopAccel) * MaxVel) \div 2
ProfileAt(p, t) ==
  LET dir == Sign(p.endPos - p.startPos)
      elapsed == t - p.startTime
      rest == p.total - elapsed
  IN IF elapsed < 0 THEN p.startPos
     ELSE IF elapsed < p.stopAccel THEN p.startPos + dir * ((MaxAccel * elapsed * elapsed) \div 2)
     ELSE IF elapsed < p.startDecel THEN p.startPos + dir * Coasted(p, elapsed)
     ELSE IF elapsed < p.total THEN p.endPos - dir * ((MaxAccel * rest * rest) \div 2)
     ELSE p.endPos

Init == now = 0 /\ pos = 0 /\ profile = None /\ velState = None /\ base = None

Tick == now < MaxTime /\ now' = now + 1 /\ UNCHANGED <<pos, profile, velState, base>>

\* The mechanism goes to the command, or lags behind it.
Command(c) == pos' = c \/ UNCHANGED pos

PosSetTarget(target) ==
  /\ velState = None
  /\ profile' = ProfileFor(now, pos, target)
  /\ UNCHANGED <<now, pos, velState, base>>
PosGetCommand ==
  /\ Command(IF profile = None THEN pos ELSE pos + (ProfileAt(profile, now) - pos))
  /\ UNCHANGED <<now, profile, velState, base>>
PosReset == profile' = None /\ UNCHANGED <<now, pos, velState, base>>

VelSetTarget(v) ==
  /\ profile = None
  /\ velState' = [timestamp |-> now, targetVel |-> v, lastTarget |-> None]
  /\ base' = None
  /\ UNCHANGED <<now, pos, profile>>
\* Mistake: the time of the last command is not stored.
NewState_OldTime(target) == [velState EXCEPT !.lastTarget = <<target>>]
NewState(target) == [velState EXCEPT !.lastTarget = <<target>>, !.timestamp = now]
VelGetCommand ==
  LET last == IF velState.lastTarget = None THEN pos ELSE velState.lastTarget[1]
      target == last + (now - velState.timestamp) * velState.targetVel
  IN /\ IF velState = None THEN Command(pos) /\ UNCHANGED <<velState, base>>
        ELSE /\ Abs(target) <= MaxPos
             /\ Command(pos + (target - pos))
             /\ velState' = NewState(target)
             /\ base' = IF base = None THEN <<target, now>> ELSE base
     /\ UNCHANGED <<now, profile>>
VelReset == velState' = None /\ base' = None /\ UNCHANGED <<now, pos, profile>>

Next ==
  \/ Tick \/ PosGetCommand \/ PosReset \/ VelGetCommand \/ VelReset
  \/ \E d \in Dists, dir \in {-1, 1} : Abs(pos + dir * d) <= MaxPos /\ PosSetTarget(pos + dir * d)
  \/ \E v \in Vels : VelSetTarget(v)
Spec == Init /\ [][Next]_vars

\* The branches of a profile meet: from one whole time to the next it never runs back, never
\* exceeds the top speed, never changes speed by more than the acceleration, starts and
\* ends at rest and ends at its target.
ProfileIsSmooth ==
  profile # None =>
    LET dir == IF profile.endPos < profile.startPos THEN -1 ELSE 1
        At(t) == ProfileAt(profile, profile.startTime + t)
        Vel(t) == dir * (At(t + 1) - At(t))
    IN /\ At(0) = profile.startPos /\ At(profile.total) = profile.endPos
       /\ \A t \in 0..profile.total : Vel(t) \in 0..MaxVel
       /\ \A t \in -1..profile.total : Abs(Vel(t + 1) - Vel(t)) <= MaxAccel

\* However often the velocity controller is asked and however far the mechanism lags, its
\* target moves at the velocity: no interval of time is lost or counted twice.
TargetFollowsVelocity ==
  base # None =>
    velState.lastTarget[1] = base[1] + velState.targetVel * (velState.timestamp - base[2])
============================================================================
