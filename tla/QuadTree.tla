------------------------------ MODULE QuadTree ------------------------------
(***************************************************************************)
(* worldmap/QuadTree.cpp and its client GlobalMap.cpp. A node is named by  *)
(* the indices of the children on the way to it; tree maps the nodes there *)
(* are to their points and to the count of the points at and below them.   *)
(* Coordinates are integers on a grid the children's centres lie on.       *)
(***************************************************************************)
EXTENDS Integers, FiniteSets, Sequences, SequencesExt, Bags, BagsExt

CONSTANTS MapWidth, Points, Queries, Reaches, Scans, Shifts, ScanStride, Asserts,
          NodeCapacity,
          MaxDepth, MaxPoints   \* bounds on the depth of nodes, on the points added

VARIABLES tree, answer

vars == <<tree, answer>>

Contents == FoldSet(LAMBDA n, B : B (+) ToBag(tree[n].points), EmptyBag, DOMAIN tree)
Store == INSTANCE PointStore WITH bag <- Contents

NoPoint == <<>>
NoNode == <<-1>>
Root == <<>>
Children == 0..3   \* 0 SW, 1 SE, 2 NW, 3 NE

Abs(i) == IF i < 0 THEN -i ELSE i
Width(n) == MapWidth \div 2^Len(n)
\* subdivide: a child's centre is a quarter of the width away, to the side its bits say.
Center(n) ==
  LET Offset(bit) == MapThenSumSet(
        LAMBDA i : (IF (n[i] \div bit) % 2 = 0 THEN -1 ELSE 1) * (MapWidth \div 2^(i + 1)),
        DOMAIN n)
  IN <<Offset(1), Offset(2)>>
InBounds(n, p) == \A i \in {1, 2} : 2 * Abs(p[i] - Center(n)[i]) <= Width(n)
\* For the search square around q whose half side has the square half2.
BoundsIntersect(n, q, half2) ==
  \A i \in {1, 2} : LET gap == 2 * Abs(Center(n)[i] - q[i]) - Width(n)
                    IN gap <= 0 \/ gap * gap <= 4 * half2
PointsOf(t, n) == IF n \in DOMAIN t THEN t[n].points ELSE <<>>
HasChildren(t, n) == Append(n, 0) \in DOMAIN t
FirstFound(f) == LET found == {i \in DOMAIN f : f[i] # NoNode}
                 IN IF found = {} THEN NoNode ELSE f[Min(found)]

(***************************************************************************)
(* add and remove. The node that takes a point is the first, in the order  *)
(* of the recursion, that has room; the counts change on the way back.     *)
(***************************************************************************)
RECURSIVE AddPlace(_, _, _)
AddPlace(t, n, p) ==
  IF ~InBounds(n, p) THEN NoNode
  ELSE IF Len(PointsOf(t, n)) < NodeCapacity /\ ~HasChildren(t, n) THEN n
  ELSE FirstFound([i \in Children |-> AddPlace(t, Append(n, i), p)])
Added(t, p) ==
  LET n == AddPlace(t, Root, p)
      siblings == IF n = Root THEN {} ELSE {Append(Front(n), i) : i \in Children}
  IN IF n = NoNode THEN t
     ELSE [m \in DOMAIN t \cup siblings |->
             [points |-> IF m = n THEN Append(PointsOf(t, n), p) ELSE PointsOf(t, m),
              size |-> (IF m \in DOMAIN t THEN t[m].size ELSE 0)
                       + (IF IsPrefix(m, n) THEN 1 ELSE 0)]]

RECURSIVE RemovePlace(_, _, _)
RemovePlace(t, n, p) ==
  IF ~InBounds(n, p) THEN NoNode
  ELSE IF Contains(PointsOf(t, n), p) THEN n
  ELSE IF ~HasChildren(t, n) THEN NoNode
  ELSE FirstFound([i \in Children |-> RemovePlace(t, Append(n, i), p)])
\* Mistake: only the node that held the point counts it out.
RemovedFrom_OneCount(t, n, p) ==
  [t EXCEPT ![n] = [points |-> RemoveFirst(@.points, p), size |-> @.size - 1]]
RemovedFrom(t, n, p) ==
  [m \in DOMAIN t |-> [points |-> IF m = n THEN RemoveFirst(t[m].points, p) ELSE t[m].points,
                       size |-> t[m].size - (IF IsPrefix(m, n) THEN 1 ELSE 0)]]

(***************************************************************************)
(* Queries.                                                                *)
(***************************************************************************)
RECURSIVE PointsWithin(_, _, _)
PointsWithin(n, q, half2) ==
  IF ~BoundsIntersect(n, q, half2) THEN <<>>
  ELSE SelectSeq(tree[n].points, LAMBDA p : Store!InBox(q, half2, p))
       \o (IF HasChildren(tree, n)
           THEN FlattenSeq([i \in 1..4 |-> PointsWithin(Append(n, i - 1), q, half2)])
           ELSE <<>>)
RECURSIVE HasPoint(_, _, _)
HasPoint(n, q, reach) ==
  /\ tree[n].size # 0
  /\ BoundsIntersect(n, q, reach * reach)
  /\ \/ \E p \in ToSet(tree[n].points) : Store!Dist2(p, q) <= reach * reach
     \/ HasChildren(tree, n) /\ \E i \in Children : HasPoint(Append(n, i), q, reach)
RECURSIVE ArbitraryPoint(_)
ArbitraryPoint(n) ==
  IF tree[n].points # <<>> THEN Head(tree[n].points)
  ELSE LET found == {i \in Children : HasChildren(tree, n)
                                      /\ ArbitraryPoint(Append(n, i)) # NoPoint}
       IN IF found = {} THEN NoPoint ELSE ArbitraryPoint(Append(n, Min(found)))
ChildIdx(n, q) == (IF q[2] >= Center(n)[2] THEN 2 ELSE 0) + (IF q[1] >= Center(n)[1] THEN 1 ELSE 0)
RECURSIVE LeafOf(_, _)
LeafOf(n, q) == IF HasChildren(tree, n) THEN LeafOf(Append(n, ChildIdx(n, q)), q) ELSE n
FirstNearest(ps, q) ==
  IF ps = <<>> THEN NoPoint
  ELSE ps[Min({i \in DOMAIN ps : \A j \in DOMAIN ps : Store!Dist2(ps[i], q) <= Store!Dist2(ps[j], q)})]
\* The search square reaches as far as a point of the smallest nonempty node around q.
\* Mistake: a square of that side, which reaches half as far.
SearchHalf2_Narrow(p, q) == Store!Dist2(p, q) \div 4
SearchHalf2(p, q) == Store!Dist2(p, q)
Closest(q) ==
  LET around == {m \in Prefixes(LeafOf(Root, q)) : tree[m].size # 0}
      p == ArbitraryPoint(CHOOSE m \in around : \A k \in around : Len(k) <= Len(m))
  IN IF ~HasChildren(tree, Root) THEN FirstNearest(tree[Root].points, q)
     ELSE IF around = {} THEN NoPoint
     ELSE FirstNearest(PointsWithin(Root, q, SearchHalf2(p, q)), q)

(***************************************************************************)
(* The operations. A failed assertion ends the process.                    *)
(***************************************************************************)
Init == /\ tree = (Root :> [points |-> <<>>, size |-> 0])
        /\ answer = <<"start", 0, TRUE>>

Alive == ~(answer[1] = "addPoints" /\ ~answer[3])
RoomFor(k) == tree[Root].size + k <= MaxPoints
Shallow(t) == \A n \in DOMAIN t : Len(n) <= MaxDepth

Add(p) ==
  /\ RoomFor(1) /\ Shallow(Added(tree, p))
  /\ tree' = Added(tree, p)
  /\ Store!Answered("add", p, AddPlace(tree, Root, p) # NoNode)
RemovePoint(p) ==
  LET n == RemovePlace(tree, Root, p) IN
  /\ tree' = IF n = NoNode THEN tree ELSE RemovedFrom(tree, n, p)
  /\ Store!Answered("remove", p, n # NoNode)
\* addPoints: ICP corrects the scan only when there is a map to fit it to.
AddPoints(scan, shift) ==
  LET new == Store!Registered(scan, IF tree[Root].size = 0 THEN <<0, 0>> ELSE shift)
      outside == {i \in DOMAIN new : AddPlace(tree, Root, new[i]) = NoNode}
      upTo == IF outside = {} THEN Len(new) ELSE Min(outside) - 1
      after == FoldLeft(Added, tree, SubSeq(new, 1, upTo))
  IN /\ RoomFor(Len(new)) /\ Shallow(after)
     /\ tree' = IF Asserts THEN after ELSE tree
     /\ Store!Answered("addPoints", scan, Asserts => outside = {})
GetClosest(q) == Store!Answered("getClosest", q, Closest(q)) /\ UNCHANGED tree
GetPointsWithin(q, reach) ==
  /\ Store!Answered("getPointsWithin", <<q, reach>>,
       ToBag(SelectSeq(PointsWithin(Root, q, reach * reach),
                       LAMBDA p : Store!Dist2(p, q) <= reach * reach)))
  /\ UNCHANGED tree
HasPointWithin(q, reach) ==
  /\ Store!Answered("hasPointWithin", <<q, reach>>, HasPoint(Root, q, reach))
  /\ UNCHANGED tree

Next ==
  /\ Alive
  /\ \/ \E p \in Points : Add(p) \/ RemovePoint(p)
     \/ \E scan \in Scans, shift \in Shifts : AddPoints(scan, shift)
     \/ \E q \in Queries : GetClosest(q)
     \/ \E q \in Queries, reach \in Reaches : GetPointsWithin(q, reach) \/ HasPointWithin(q, reach)
Spec == Init /\ [][Next]_vars

(***************************************************************************)
(* Properties.                                                             *)
(***************************************************************************)
\* The tree is a bag of points: add, remove and the queries of GlobalMap answer as the
\* bag would, wherever the points lie, boundaries of nodes included.
ImplementsPointStore == Store!Spec

\* The count of a node, which getClosest and hasPointWithin skip empty nodes by, is the
\* number of points at and below it after any sequence of additions and removals.
SizesCount ==
  \A n \in DOMAIN tree :
    tree[n].size = MapThenSumSet(LAMBDA m : Len(tree[m].points),
                                 {m \in DOMAIN tree : IsPrefix(n, m)})
============================================================================
