----------------------------- MODULE GraphSolver -----------------------------
(***************************************************************************)
(* Graph and its factors (filters/pose_graph): the least squares problem   *)
(* that they pose, and Newton's method that solves it. The graph that is   *)
(* solved has two values on a line, tied by GPSFactor and OdomFactor; the  *)
(* factors of the plane, whose headings are quarter turns here, are        *)
(* compared with their Jacobians.                                          *)
(***************************************************************************)
EXTENDS Fractions, SequencesExt

CONSTANTS Measured, Weights,   \* measurements, and the inverses of their variances
          Alphas, Guesses,     \* for solve
          MaxIters, Tol,       \* 1000 and 1e-8 in the code
          Quarters,            \* of a turn: headings
          MaxFactors           \* bound on the factors ever added

VARIABLES factors, factorCounter, x0, sol, alpha, solved  \* of the last solve, if nothing changed since
vars == <<factors, factorCounter, x0, sol, alpha, solved>>

Idx == {0, 1}
Vec(a, b) == [i \in Idx |-> IF i = 0 THEN a ELSE b]
NaN == [i \in {} |-> Zero]
Init ==
  /\ factors = {} /\ factorCounter = 0 /\ x0 = Vec(Zero, Zero) /\ sol = x0
  /\ alpha = One /\ solved = FALSE

(***************************************************************************)
(* Factors on the line: from is -1 in a GPSFactor.                         *)
(***************************************************************************)
Factor(to, from, weight, m) ==
  [id |-> factorCounter, to |-> to, from |-> from, weight |-> Whole(weight), m |-> Whole(m)]
GPSFactorF(f, x) == x[f.to]
OdomFactorF(f, x) == Minus(x[f.to], x[f.from])
F(f, x) == IF f.from = -1 THEN GPSFactorF(f, x) ELSE OdomFactorF(f, x)
GPSFactorJf(f) == [i \in Idx |-> IF i = f.to THEN One ELSE Zero]
OdomFactorJf(f) == [i \in Idx |-> IF i = f.to THEN One ELSE Whole(-1)]
\* Mistake: the pose that the odometry starts from is left where it is.
Jf_NotFrom(f) == GPSFactorJf(f)
Jf(f) == IF f.from = -1 THEN GPSFactorJf(f) ELSE OdomFactorJf(f)
Diff(f, x) == Minus(F(f, x), f.m)
Eval(f, x) == Over(Times(f.weight, Times(Diff(f, x), Diff(f, x))), Whole(2))
GradientAt(f, x) == [i \in Idx |-> Times(Jf(f)[i], Times(f.weight, Diff(f, x)))]
HessianAt(f) == [i \in Idx |-> [j \in Idx |-> Times(Times(Jf(f)[i], f.weight), Jf(f)[j])]]

(***************************************************************************)
(* Graph.                                                                  *)
(***************************************************************************)
\* The sum of a function from factors to numbers.
SumOver(e) == FoldFunction(Plus, Zero, e)
GraphEval(x) == SumOver([f \in factors |-> Eval(f, x)])
Gradient(x) == [i \in Idx |-> SumOver([f \in factors |-> GradientAt(f, x)[i]])]
\* A value without factors gets 0.001 on the diagonal, "to avoid singular matrix".
Hessian ==
  [i \in Idx |-> [j \in Idx |->
     LET sum == SumOver([f \in factors |-> HessianAt(f)[i][j]])
     IN IF i = j /\ sum = Zero THEN Frac(1, 1000) ELSE sum]]
Det(H) == Minus(Times(H[0][0], H[1][1]), Times(H[0][1], H[1][0]))
\* hess.inverse() * g, on a Hessian that has an inverse.
Newton(H, g) ==
  [i \in Idx |-> LET j == 1 - i
                 IN Over(Minus(Times(H[j][j], g[i]), Times(H[i][j], g[j])), Det(H))]
\* While the gradient, before the step, is not small. The Hessian does not change.
Solution(start, a) ==
  LET H == Hessian
      Iterate(acc, n) ==
        IF acc.small THEN acc
        ELSE LET g == Gradient(acc.x)
                 step == Newton(H, g)
             IN [x |-> [k \in Idx |-> Minus(acc.x[k], Times(a, step[k]))],
                 small |-> ~ Less(Times(Tol, Tol), Plus(Times(g[0], g[0]), Times(g[1], g[1])))]
  IN FoldLeft(Iterate, [x |-> start, small |-> FALSE], [n \in 1..MaxIters |-> n]).x
\* Two values that only odometry ties have a Hessian without zeros on its diagonal, and
\* without an inverse.
Solve(start, a) ==
  /\ ~ solved /\ solved' = TRUE /\ x0' = start /\ alpha' = a
  /\ sol' = IF Det(Hessian) = Zero THEN NaN ELSE Solution(start, a)
  /\ UNCHANGED <<factors, factorCounter>>
\* What was solved before no longer counts.
Changed(F2) ==
  factors' = F2 /\ solved' = FALSE /\ x0' = Vec(Zero, Zero) /\ sol' = x0' /\ alpha' = One
Add(f) ==
  /\ factorCounter < MaxFactors /\ factorCounter' = factorCounter + 1
  /\ Changed(factors \cup {f})
DeleteFactor(id) ==
  /\ Changed({f \in factors : f.id # id}) /\ UNCHANGED factorCounter
\* The first value is dropped; both kinds of factor go with a value that they act on.
ShiftIndices ==
  /\ factors # {}
  /\ LET shifted == {[f EXCEPT !.to = @ - 1, !.from = IF @ = -1 THEN -1 ELSE @ - 1] :
                       f \in {g \in factors : g.to > 0 /\ g.from # 0}}
     IN Changed(shifted)
  /\ UNCHANGED factorCounter

Next ==
  \/ \E i \in Idx, w \in Weights, m \in Measured :
       Add(Factor(i, -1, w, m)) \/ Add(Factor(i, 1 - i, w, m))
  \/ \E id \in {f.id : f \in factors} : DeleteFactor(id)
  \/ ShiftIndices
  \/ \E a \in Alphas, g \in Guesses : Solve(Vec(Whole(g[1]), Whole(g[2])), a)
Spec == Init /\ [][Next]_vars

(***************************************************************************)
(* Factors in the plane. A heading is in quarter turns, and its derivative *)
(* is by the angle.                                                        *)
(***************************************************************************)
Cos(q) == (<<1, 0, -1, 0>>)[(q % 4) + 1]
Sin(q) == Cos(q + 3)
Rotated(dx, dy, q) == <<dx * Cos(q) + dy * Sin(q), dx * (-Sin(q)) + dy * Cos(q)>>
LandmarkFactor2DF(lm, p) == Rotated(lm[1] - p[1], lm[2] - p[2], p[3])
OdomFactor2DF(p2, p1) ==
  LET r == Rotated(p2[1] - p1[1], p2[2] - p1[2], p1[3]) IN <<r[1], r[2], p2[3] - p1[3]>>
\* Rows: x and y of the landmark; x, y and heading of the sensor.
LandmarkFactor2DJf(lm, p) ==
  LET dx == lm[1] - p[1]
      dy == lm[2] - p[2]
      c == Cos(p[3])
      s == Sin(p[3])
  IN << <<c, -s>>, <<s, c>>, <<-c, s>>, <<-s, -c>>,
        <<dx * (-s) + dy * c, dx * (-c) + dy * (-s)>> >>
\* Rows: the pose that the odometry leads to, and the one it starts from.
OdomFactor2DJf(p2, p1) ==
  LET l == LandmarkFactor2DJf(p2, p1)
  IN << <<l[1][1], l[1][2], 0>>, <<l[2][1], l[2][2], 0>>, <<0, 0, 1>>,
        <<l[3][1], l[3][2], 0>>, <<l[4][1], l[4][2], 0>>, <<l[5][1], l[5][2], -1>> >>

(***************************************************************************)
(* Properties.                                                             *)
(***************************************************************************)
\* Newton's method with a whole step finds a least error from whatever guess; with a smaller step it never makes the error larger.
\* Values without factors stay as guessed.
SolutionIsLeast ==
  sol # NaN /\ solved =>
    /\ ~ Less(GraphEval(x0), GraphEval(sol))
    /\ alpha = One =>
         \A g, h \in Measured : ~ Less(GraphEval(Vec(Whole(g), Whole(h))), GraphEval(sol))
    /\ \A i \in Idx \ UNION {{f.to, f.from} : f \in factors} : sol[i] = x0[i]

\* The Jacobians of the factors in the plane are their derivatives: by a place, the
\* difference that one step makes, and by the heading the same vector a quarter turn on.
JacobiansAreExact ==
  factorCounter = 0 => \A dx, dy \in Measured, q1, q2 \in Quarters :
    LET p == <<1, -1, q1>>
        lm == <<1 + dx, dy - 1>>
        lj == LandmarkFactor2DJf(lm, p)
        oj == OdomFactor2DJf(<<lm[1], lm[2], q2>>, p)
        Minus2(a, b) == <<a[1] - b[1], a[2] - b[2]>>
        at == LandmarkFactor2DF(lm, p)
    IN /\ lj[1] = Minus2(LandmarkFactor2DF(<<lm[1] + 1, lm[2]>>, p), at)
       /\ lj[2] = Minus2(LandmarkFactor2DF(<<lm[1], lm[2] + 1>>, p), at)
       /\ lj[3] = Minus2(LandmarkFactor2DF(lm, <<2, -1, q1>>), at)
       /\ lj[4] = Minus2(LandmarkFactor2DF(lm, <<1, 0, q1>>), at)
       /\ lj[5] = LandmarkFactor2DF(lm, <<1, -1, q1 + 1>>)
       /\ oj[6][3] = OdomFactor2DF(<<lm[1], lm[2], q2>>, <<1, -1, q1 + 1>>)[3]
                       - OdomFactor2DF(<<lm[1], lm[2], q2>>, p)[3]
=============================================================================
