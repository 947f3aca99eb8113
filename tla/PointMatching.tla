---------------------------- MODULE PointMatching ----------------------------
(***************************************************************************)
(* TrICP: the rigid transformation that GlobalMap applies to a scan before *)
(* it adds the scan to the map. The points lie on a line, so that a        *)
(* rotation is by no turn or by a half turn, 1 or -1.                      *)
(***************************************************************************)
EXTENDS Fractions, SequencesExt

CONSTANTS Maps, Samples,       \* sets of points, and sequences of points
          MaxIter, RelErrChangeThresh,
          InitialMSE           \* 1e9 in the code

VARIABLES reference,   \* the map
          sample, N,   \* as given, and how many of its points have to match
          points, i, mse, oldMSE, trf, step
vars == <<reference, sample, N, points, i, mse, oldMSE, trf, step>>
Identity == [r |-> 1, t |-> Zero]
Apply(f, p) == Plus(IF f.r = 1 THEN p ELSE Minus(Zero, p), f.t)
Compose(f, g) == [r |-> f.r * g.r, t |-> Apply(f, g.t)]

Init ==
  /\ reference \in Maps /\ sample \in {[k \in DOMAIN s |-> Whole(s[k])] : s \in Samples}
  /\ N \in 0..Len(sample) /\ points = sample /\ i = 0 /\ mse = InitialMSE /\ oldMSE = InitialMSE
  /\ trf = Identity /\ step = "begin"

(***************************************************************************)
(* getMinN, on arrays that start at 1.                                     *)
(***************************************************************************)
Swap(arr, k, l) == [arr EXCEPT ![k] = arr[l], ![l] = arr[k]]
RECURSIVE Heapify(_, _, _)
Heapify(arr, len, k) ==
  LET Least(a, b) == IF b <= len /\ Less(arr[b].dist, arr[a].dist) THEN b ELSE a
      smallest == Least(Least(k, 2 * k), 2 * k + 1)
  IN IF smallest = k THEN arr ELSE Heapify(Swap(arr, k, smallest), len, smallest)
Heap(arr) ==
  FoldLeft(LAMBDA a, k : Heapify(a, Len(arr), k), arr,
           [k \in 1..Len(arr) \div 2 |-> Len(arr) \div 2 + 1 - k])
\* Mistake: the array is taken for a heap.
GetMinN_NoHeap(arr, minNum) ==
  LET Pop(acc, k) == <<Heapify(Swap(acc[1], 1, k), k - 1, 1), Append(acc[2], acc[1][1])>>
  IN FoldLeft(Pop, <<arr, <<>> >>, [k \in 1..minNum |-> Len(arr) + 1 - k])[2]
GetMinN(arr, minNum) ==
  LET Pop(acc, k) == <<Heapify(Swap(acc[1], 1, k), k - 1, 1), Append(acc[2], acc[1][1])>>
  IN FoldLeft(Pop, <<Heap(arr), <<>> >>, [k \in 1..minNum |-> Len(arr) + 1 - k])[2]

(***************************************************************************)
(* One iteration.                                                          *)
(***************************************************************************)
Dist(p, q) == Norm(Minus(p, q))
\* What GlobalMap::getClosest is for.
GetClosest(p) ==
  CHOOSE q \in {Whole(m) : m \in reference} :
    \A m \in reference : ~ Less(Dist(p, Whole(m)), Dist(p, q))
Pairs ==
  [k \in DOMAIN points |-> LET q == GetClosest(points[k])
                           IN [map |-> q, sample |-> points[k], dist |-> Dist(points[k], q)]]
Sum(s) == FoldLeft(Plus, Zero, s)
\* The algorithm of Kabsch.
ComputeTransformation(pairs) ==
  LET size == Whole(Len(pairs))
      mapCentroid == Over(Sum([k \in DOMAIN pairs |-> pairs[k].map]), size)
      sampleCentroid == Over(Sum([k \in DOMAIN pairs |-> pairs[k].sample]), size)
      products == [k \in DOMAIN pairs |-> Times(Minus(pairs[k].sample, sampleCentroid),
                                                Minus(pairs[k].map, mapCentroid))]
      r == IF Less(Sum(products), Zero) THEN -1 ELSE 1
  IN [r |-> r, t |-> Minus(mapCentroid, Times(Whole(r), sampleCentroid))]
MSE(pairs) ==
  Over(Sum([k \in DOMAIN pairs |-> Times(pairs[k].dist, pairs[k].dist)]), Whole(N))
IsDone(numIter, new, old) ==
  \/ new = Zero
  \/ numIter >= MaxIter
  \/ ~ Less(RelErrChangeThresh, Over(Norm(Minus(new, old)), new))

\* An overlap of 0, or a sample without points, is left as it is.
Correct ==
  /\ step = "begin" /\ step' \in IF sample = <<>> THEN {"done"}
                                 ELSE IF N = 0 THEN {"done", "loop"} ELSE {"loop"}
  /\ UNCHANGED <<reference, sample, N, points, i, mse, oldMSE, trf>>
Iterate ==
  /\ step = "loop" /\ N > 0 /\ i' = i + 1 /\ oldMSE' = mse
  /\ LET closestPairs == GetMinN(Pairs, N)
         t == ComputeTransformation(closestPairs)
     IN /\ mse' = MSE(closestPairs)
        /\ points' = [k \in DOMAIN points |-> Apply(t, points[k])]
        /\ trf' = Compose(t, trf)
  /\ step' = IF IsDone(i', mse', oldMSE') THEN "done" ELSE "loop"
  /\ UNCHANGED <<reference, sample, N>>
\* The overlap is too small for one point: the mean of none is not a number, and so are the
\* error, which is never small, and the points.
IterateNone ==
  /\ step = "loop" /\ N = 0 /\ i' = i + 1 /\ step' = IF i' >= MaxIter THEN "not a number" ELSE "loop"
  /\ UNCHANGED <<reference, sample, N, points, mse, oldMSE, trf>>
Next == Correct \/ Iterate \/ IterateNone
Spec == Init /\ [][Next]_vars

(***************************************************************************)
(* Properties.                                                             *)
(***************************************************************************)
\* getMinN finds "some of the point pairs with the least distance" (TrICP.cpp:32).
LeastAreKept ==
  \A n \in 0..N :
    LET kept == GetMinN(Pairs, n)
    IN \A d \in {p.dist : p \in ToSet(Pairs)} :
         LET Closer(s) == Len(SelectSeq(s, LAMBDA p : ~ Less(d, p.dist)))
         IN Closer(kept) = IF Closer(Pairs) < n THEN Closer(Pairs) ELSE n

\* Matching again the points that match best never makes the error larger, and what is
\* returned takes the sample to where the last iteration left it.
MatchImproves ==
  /\ i > 0 /\ N > 0 => ~ Less(oldMSE, mse)
  /\ points = [k \in DOMAIN sample |-> Apply(trf, sample[k])]
=============================================================================
