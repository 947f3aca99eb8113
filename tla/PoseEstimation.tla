--------------------------- MODULE PoseEstimation ---------------------------
(***************************************************************************)
(* The pose estimators of filters/: FullPoseEstimator on MultiSensorEKF,   *)
(* PoseEstimator on ExtendedKalmanFilter and PoseEstimatorLinear on        *)
(* KalmanFilter, while the rover turns on the spot. Its heading is then    *)
(* independent of where it is, and the model holds the heading alone:      *)
(* vectors and matrices are numbers, as fractions. Angles are in degrees   *)
(* and a step takes one second. The rover turns as its wheels are told:    *)
(* predictions are exact, and only what is measured is off.                *)
(***************************************************************************)
EXTENDS Fractions

CONSTANTS ThetaVels,   \* how fast the rover turns
          Error,       \* bound on the error of a measured heading
          StdDev,      \* given for it, and for the model of the linear filter
          NoiseGain, WheelBase,
          InitialVar,  \* 1e5 in the code
          MaxSteps     \* bound on the predictions, corrections and resets

(***************************************************************************)
(* Headings and the differential drive.                                    *)
(***************************************************************************)
Turned(a, n) == Plus(a, Whole(360 * n))
\* What atan2 makes of an angle.
Wrapped(a) == Turned(a, -Ceiling(Frac(a[1] - 180 * a[2], 360 * a[2])))
\* Mistake: a heading is used as it was measured.
ClosestHeading_AsMeasured(theta, prev) == theta
ClosestHeading(theta, prev) ==
  LET up == Ceiling(Over(Minus(Minus(prev, Whole(180)), theta), Whole(360)))
      raised == IF up > 0 THEN Turned(theta, up) ELSE theta
      down == Ceiling(Over(Minus(Minus(raised, prev), Whole(180)), Whole(360)))
  IN IF down > 0 THEN Turned(raised, -down) ELSE raised
ToPose(theta, prev) == ClosestHeading(Wrapped(theta), prev)
RobotVelToWheelVel(thetaVel) == <<Frac(-WheelBase * thetaVel, 2), Frac(WheelBase * thetaVel, 2)>>
GetNextPose(wheelVel, theta) ==
  Plus(theta, Over(Minus(wheelVel[2], wheelVel[1]), Whole(WheelBase)))

(***************************************************************************)
(* StateSpaceUtil. NoiseCovMatX has the standard deviations themselves on  *)
(* its diagonal, where NoiseCovMat has their squares.                      *)
(***************************************************************************)
CreateCovarianceMatrix(stdDev) == Times(stdDev, stdDev)
NoiseCovMat(stdDev) == CreateCovarianceMatrix(stdDev)
NoiseCovMatX(stdDev) == stdDev
\* The systems that are made discrete have the identity for A, which stays.
DiscretizeQ(contQ) == contQ
DiscretizeR(contR) == contR
\* One step of DARE, where only <<A, G, P>> of the last one count.
Doubled(s) ==
  LET inv == Over(One, Plus(One, Times(s[2], s[3])))
  IN <<Times(Times(s[1], inv), s[1]),
       Plus(s[2], Times(Times(Times(s[1], inv), s[2]), s[1])),
       Plus(s[3], Times(Times(Times(s[1], s[3]), inv), s[1]))>>
\* The steps end with the first error above the tolerance, which is 1e-4; without one they
\* do not end.
AboveTolerance(p, lastP) == Less(<<1, 10000>>, Over(Norm(Minus(p, lastP)), Norm(p)))
LastStep(p0, p1, p2) ==
  CHOOSE p \in {p1, p2} :
    IF AboveTolerance(p1, p0) THEN p = p1 ELSE p = p2 /\ AboveTolerance(p2, p1)
DARE(a, b, q, r) ==
  LET first == Doubled(<<a, Over(Times(b, b), r), q>>)
  IN LastStep(q, first[3], Doubled(first)[3])
\* From the values of a function one ahead and one behind: exact for functions that are
\* linear.
NumericalJacobian(ahead, behind) == Over(Minus(ahead, behind), Whole(2))

VARIABLES est,     \* the estimator: "full", "single" or "linear"
          xHat, P, \* of its filter
          truth,   \* the rover's heading, counted through
          base, corrections,   \* history: P at the last prediction or reset, and the
                               \* corrections since
          steps
vars == <<est, xHat, P, truth, base, corrections, steps>>

Init ==
  /\ est \in {"full", "single", "linear"} /\ xHat = Zero /\ P = Whole(InitialVar)
  /\ truth = 0 /\ base = P /\ corrections = 0 /\ steps = 0

(***************************************************************************)
(* The filters.                                                            *)
(***************************************************************************)
StateFunc(x, u, w) == GetNextPose(<<Plus(u[1], w[1]), Plus(u[2], w[2])>>, x)
ProcessNoiseFunc(u) ==   \* (gain * sqrt(abs(u)))^2
  [i \in 1..2 |-> Times(Whole(NoiseGain * NoiseGain), Norm(u[i]))]
StateFuncJacobianX(x, u) ==
  LET f(s) == StateFunc(s, u, <<Zero, Zero>>)
  IN NumericalJacobian(f(Plus(x, One)), f(Minus(x, One)))
StateFuncJacobianW(x, u) ==
  LET left(w) == StateFunc(x, u, <<w, Zero>>)
      right(w) == StateFunc(x, u, <<Zero, w>>)
  IN <<NumericalJacobian(left(One), left(Minus(Zero, One))),
       NumericalJacobian(right(One), right(Minus(Zero, One)))>>
PredictEKF(u) ==
  LET F == StateFuncJacobianX(xHat, u)
      L == StateFuncJacobianW(xHat, u)
      Q == ProcessNoiseFunc(u)
  IN /\ xHat' = StateFunc(xHat, u, <<Zero, Zero>>)
     /\ P' = Plus(Times(Times(F, P), F),
                  Plus(Times(Times(L[1], Q[1]), L[1]), Times(Times(L[2], Q[2]), L[2])))
OutputFuncJacobianX == One
OutputFuncJacobianV == One
\* Mistake: the variance is scaled by the gain, and not by what the gain leaves.
CorrectEKF_ByGain(measurement, R) ==
  LET K == Over(P, Plus(P, R))
  IN xHat' = Plus(xHat, Times(K, Minus(measurement, xHat))) /\ P' = Times(K, P)
CorrectEKF(measurement, R) ==
  LET H == OutputFuncJacobianX
      M == OutputFuncJacobianV
      S == Plus(Times(Times(H, P), H), Times(Times(M, R), M))
      K == Over(Times(H, P), S)
  IN /\ xHat' = Plus(xHat, Times(K, Minus(measurement, xHat)))
     /\ P' = Times(Minus(One, Times(K, H)), P)

\* createDiscrete of the linear filter, whose matrices are all the identity.
ModelQ == DiscretizeQ(CreateCovarianceMatrix(Whole(StdDev)))
ModelR == DiscretizeR(CreateCovarianceMatrix(Whole(StdDev)))
GainMatrix == LET p == DARE(One, One, ModelQ, ModelR) IN Over(p, Plus(p, ModelR))
GetPoseDiff(theta, thetaVel) ==
  Minus(ToPose(Plus(Whole(thetaVel), theta), theta), theta)
PredictKF(u) == xHat' = Plus(xHat, u) /\ P' = Plus(P, ModelQ)
CorrectKF(measurement) ==
  /\ xHat' = Plus(xHat, Times(GainMatrix, Minus(measurement, xHat)))
  /\ P' = Times(Minus(One, GainMatrix), P)

(***************************************************************************)
(* The estimators.                                                         *)
(***************************************************************************)
Step == steps < MaxSteps /\ steps' = steps + 1 /\ UNCHANGED est
Predict(thetaVel) ==
  /\ Step /\ truth' = truth + thetaVel
  /\ IF est = "linear" THEN PredictKF(GetPoseDiff(xHat, thetaVel))
     ELSE PredictEKF(RobotVelToWheelVel(thetaVel))
  /\ base' = P' /\ corrections' = 0
CorrectHeading(heading) ==
  CorrectEKF(ClosestHeading(heading, xHat), NoiseCovMatX(Whole(StdDev)))
Correct(heading) ==
  /\ Step /\ corrections' = corrections + 1 /\ UNCHANGED <<truth, base>>
  /\ \/ est = "full" /\ CorrectHeading(heading)
     \/ est = "single" /\ CorrectEKF(ToPose(heading, xHat), NoiseCovMat(Whole(StdDev)))
     \/ est = "linear" /\ CorrectKF(ToPose(heading, xHat))
Reset(pose, newP) ==
  /\ Step /\ xHat' = pose /\ P' = newP /\ base' = P' /\ corrections' = 0 /\ UNCHANGED truth

Errors == {-Error, 0, Error}
Next ==
  \/ \E w \in ThetaVels : Predict(w)
  \/ \E e \in Errors : Correct(Wrapped(Whole(truth + e)))
  \/ \E e \in Errors, p \in {Whole(InitialVar), CreateCovarianceMatrix(Whole(StdDev))} :
       Reset(Whole(truth + e), p)
Spec == Init /\ [][Next]_vars

(***************************************************************************)
(* Properties.                                                             *)
(***************************************************************************)
\* closestHeading keeps a correction from turning the estimate the long way round: however
\* often the rover passes the half turn where a measured heading jumps, and in whatever
\* order it turns, measures and resets, the estimate is as close to the heading as the
\* measurements are, where the rover turns as its wheels are told.
HeadingFollowsRover == ~ Less(Whole(Error), Norm(Minus(xHat, Whole(truth))))

\* The variance of an extended filter e is what its measurements leave: their weights, the
\* inverses of their variances, add up. The variance of a measurement is the square of the
\* standard deviation that was given for it: "Create a time-invariant noise covariance matrix
\* modelling independent noise with the given standard deviations" (StateSpaceUtil.h:257, 321).
\* PoseEstimator keeps to it, FullPoseEstimator does not.
WeightsAddUp(e) ==
  est = e =>
    LET R == CreateCovarianceMatrix(Whole(StdDev))
    IN Times(P, Plus(R, Times(Whole(corrections), base))) = Times(base, R)
=============================================================================
