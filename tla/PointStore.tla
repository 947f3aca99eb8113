----------------------------- MODULE PointStore -----------------------------
(***************************************************************************)
(* What worldmap/GlobalMap.h and worldmap/QuadTree.h promise of the map: a *)
(* bag of points in a square, and queries that answer from all of the bag. *)
(***************************************************************************)
EXTENDS Integers, FiniteSets, Sequences, SequencesExt, Bags, BagsExt

CONSTANTS MapWidth,    \* the side of the square, which is centred on <<0, 0>>
          Points, Queries, Reaches,  \* arguments of the operations
          Scans, Shifts,  \* scans, corrections that ICP may find for them
          ScanStride,     \* of each scan, the points 1, 1 + ScanStride, ... are kept
          Asserts         \* whether assert evaluates its argument (no NDEBUG)

NoPoint == <<>>  \* {0, 0, 0}: no point

VARIABLES bag,     \* the points of the map
          answer   \* the last operation, its argument, its result
vars == <<bag, answer>>

Answered(op, arg, result) == answer' = <<op, arg, result>>

Sq(n) == n * n
Dist2(p, q) == Sq(p[1] - q[1]) + Sq(p[2] - q[2])
\* p is in the square around q whose half side has the square half2.
InBox(q, half2, p) == \A i \in {1, 2} : Sq(p[i] - q[i]) <= half2
InMap(p) == InBox(<<0, 0>>, Sq(MapWidth \div 2), p)
Nearest(q, B) == {p \in BagToSet(B) : \A r \in BagToSet(B) : Dist2(p, q) <= Dist2(r, q)}
Within(q, reach) == [p \in {r \in BagToSet(bag) : Dist2(q, r) <= Sq(reach)} |-> bag[p]]

\* The points of a scan that addPoints keeps, moved by shift.
Registered(scan, shift) ==
  LET valid == SelectSeq([i \in 1..((Len(scan) + ScanStride - 1) \div ScanStride) |->
                            scan[1 + (i - 1) * ScanStride]],
                         LAMBDA p : p # NoPoint)
  IN [i \in DOMAIN valid |-> <<valid[i][1] + shift[1], valid[i][2] + shift[2]>>]

Init == bag = EmptyBag /\ answer = <<"start", 0, TRUE>>

Add(p) ==
  /\ bag' = IF InMap(p) THEN BagAdd(bag, p) ELSE bag
  /\ Answered("add", p, InMap(p))
RemovePoint(p) ==
  /\ bag' = BagRemove(bag, p)
  /\ Answered("remove", p, BagIn(p, bag))
\* A scan is added whole, unless a point of it is outside: then the assertion fails.
AddPoints(scan, shift) ==
  LET new == Registered(scan, shift) IN
  /\ Answered("addPoints", scan, Asserts => \A i \in DOMAIN new : InMap(new[i]))
  /\ IF ~Asserts THEN UNCHANGED bag
     ELSE \E n \in 0..Len(new) :
            /\ \A i \in 1..n : InMap(new[i])
            /\ n < Len(new) => ~InMap(new[n + 1])
            /\ bag' = bag (+) ToBag(SubSeq(new, 1, n))
GetClosest(q) ==
  /\ \E p \in IF bag = EmptyBag THEN {NoPoint} ELSE Nearest(q, bag) :
       Answered("getClosest", q, p)
  /\ UNCHANGED bag
GetPointsWithin(q, reach) ==
  /\ Answered("getPointsWithin", <<q, reach>>, Within(q, reach))
  /\ UNCHANGED bag
HasPointWithin(q, reach) ==
  /\ Answered("hasPointWithin", <<q, reach>>, Within(q, reach) # EmptyBag)
  /\ UNCHANGED bag

Next ==
  \/ \E p \in Points : Add(p) \/ RemovePoint(p)
  \/ \E scan \in Scans, shift \in Shifts : AddPoints(scan, shift)
  \/ \E q \in Queries : GetClosest(q)
  \/ \E q \in Queries, reach \in Reaches : GetPointsWithin(q, reach) \/ HasPointWithin(q, reach)
Spec == Init /\ [][Next]_vars
============================================================================
