-------------------------- MODULE LimitCalibration --------------------------
(***************************************************************************)
(* LimitCalib.cpp and util::latch (utils/threading.h, .cpp): main powers the     *)
(* motors until the latch has counted as many limit alerts as there are    *)
(* motors; the CAN receive thread runs the callbacks. A motor at its limit *)
(* alerts again when it is powered again.                                  *)
(***************************************************************************)
EXTENDS Integers, FiniteSets

CONSTANTS Motors,    \* encMotors
          MaxAlerts  \* bound on the alerts

VARIABLES powered,   \* the motors that are driven to their limits
          alerts,    \* alerts that the receive thread has not handled yet
          nAlerts,   \* alerts so far
          stopped,   \* the motor whose callback has stopped it and is about to count down
          count,     \* of the latch
          main, todo \* main: "power" (then motors are left to power), "wait" or "done"
vars == <<powered, alerts, nAlerts, stopped, count, main, todo>>

Init ==
  /\ powered = {} /\ alerts = {} /\ nAlerts = 0 /\ stopped = {}
  /\ count = Cardinality(Motors) /\ main = "power" /\ todo = Motors

PowerOne(m) ==
  /\ main = "power" /\ m \in todo
  /\ powered' = powered \cup {m} /\ todo' = todo \ {m}
  /\ UNCHANGED <<alerts, nAlerts, stopped, count, main>>
BeginWait ==
  /\ main = "power" /\ todo = {} /\ main' = "wait"
  /\ UNCHANGED <<powered, alerts, nAlerts, stopped, count, todo>>
\* wait_for returns: the latch is unlocked, or 500 ms have passed.
EndWait ==
  /\ main = "wait"
  /\ IF count = 0 THEN main' = "done" /\ UNCHANGED todo
     ELSE main' = "power" /\ todo' = Motors
  /\ UNCHANGED <<powered, alerts, nAlerts, stopped, count>>

\* External: a powered motor reaches its limit, and its board sends an alert.
Alert(m) ==
  /\ m \in powered \ alerts /\ nAlerts < MaxAlerts
  /\ alerts' = alerts \cup {m} /\ nAlerts' = nAlerts + 1
  /\ UNCHANGED <<powered, stopped, count, main, todo>>
StopMotor(m) ==
  /\ m \in alerts /\ stopped = {}
  /\ alerts' = alerts \ {m} /\ stopped' = {m} /\ powered' = powered \ {m}
  /\ UNCHANGED <<nAlerts, count, main, todo>>
\* Mistake: more alerts than motors count below zero.
CountDown_Below ==
  /\ stopped # {} /\ stopped' = {} /\ count' = count - 1
  /\ UNCHANGED <<powered, alerts, nAlerts, main, todo>>
CountDown ==
  /\ stopped # {} /\ stopped' = {}
  /\ count' = IF 1 > count THEN 0 ELSE count - 1
  /\ UNCHANGED <<powered, alerts, nAlerts, main, todo>>

MainStep == BeginWait \/ EndWait \/ \E m \in Motors : PowerOne(m)
Callback == CountDown \/ \E m \in Motors : StopMotor(m)
Next == MainStep \/ Callback \/ \E m \in Motors : Alert(m)
\* The threads are scheduled, and motors that are powered reach their limits.
Spec == Init /\ [][Next]_vars /\ WF_vars(MainStep) /\ WF_vars(Callback)
        /\ SF_vars(\E m \in Motors : Alert(m))

\* "run motors until latch unlatches" (LimitCalib.cpp:48): the calibration ends, although
\* alerts may come while main powers the motors again, and after the latch is unlocked.
CalibrationEnds == <>[](main = "done")
=============================================================================
