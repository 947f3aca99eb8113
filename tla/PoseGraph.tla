----------------------------- MODULE PoseGraph -----------------------------
(***************************************************************************)
(* FriendlyGraph and Graph (filters/pose_graph): the window of the last    *)
(* poses, whose oldest one is trimmed when the graph is solved, and the    *)
(* indices by which factors, guess and covariance speak of poses. An index *)
(* counts landmarks and poses, not numbers; what is kept at an index is    *)
(* the thing that it is the value of.                                      *)
(***************************************************************************)
EXTENDS Integers

CONSTANTS NumLandmarks, MaxNumPoses,
          MaxPoseID, MaxFactors  \* bounds on the ids of poses and of factors

VARIABLES minPoseID, maxPoseID,
          currentGuess, solCov,  \* from indices to what their values are of
          factors, factorCounter,
          landmarkFactorIDs
ids == <<minPoseID, maxPoseID>>
graph == <<factors, factorCounter>>
vars == <<ids, currentGuess, solCov, graph, landmarkFactorIDs>>

Landmarks == 0..(NumLandmarks - 1)
None == -1
Lm(l) == <<"landmark", l>>
Pose(p) == <<"pose", p>>
Init ==
  /\ minPoseID = 0 /\ maxPoseID = 0
  /\ currentGuess = [i \in Landmarks |-> Lm(i)] /\ solCov = [i \in {} |-> None]
  /\ factors = {} /\ factorCounter = 0
  /\ landmarkFactorIDs = [l \in Landmarks |-> None]

\* nonincrementingPoseIdx in a window that begins with the pose first.
PoseIdxFrom(first, p) == NumLandmarks + (p - first)
PoseIdx(p) == PoseIdxFrom(minPoseID, p)
Window == minPoseID..(maxPoseID - 1)
Room == maxPoseID - minPoseID < MaxNumPoses \/ PoseIdx(maxPoseID - 1) \in DOMAIN solCov
\* Callers use poses of the window, or the next one, which makes room for itself; when
\* the window is full they have solved it.
MayUse(p) == p \in Window \/ (p = maxPoseID /\ p < MaxPoseID /\ Room)
Use(p, value) ==
  /\ maxPoseID' = (IF p = maxPoseID THEN p + 1 ELSE maxPoseID)
  /\ currentGuess' = [i \in DOMAIN currentGuess \cup {PoseIdx(p)} |->
                        IF i = PoseIdx(p) THEN value ELSE currentGuess[i]]

\* A factor acts on the indices to and from; on and by: history, what it was added for.
Factor(kind, to, from, on, by) ==
  [id |-> factorCounter, kind |-> kind, to |-> to, from |-> from, on |-> on, by |-> by]
AddTo(F, f) ==
  /\ factorCounter < MaxFactors
  /\ factors' = F \cup {f} /\ factorCounter' = factorCounter + 1

AddPosePrior(p) ==
  /\ MayUse(p) /\ Use(p, Pose(p))
  /\ AddTo(factors, Factor("odom", PoseIdx(p), None, Pose(p), Pose(p)))
  /\ UNCHANGED <<minPoseID, solCov, landmarkFactorIDs>>
AddGPSMeasurement(p) ==
  /\ p \in Window
  /\ AddTo(factors, Factor("odom", PoseIdx(p), None, Pose(p), Pose(p)))
  /\ UNCHANGED <<ids, currentGuess, solCov, landmarkFactorIDs>>
AddOdomMeasurement(p2, p1) ==
  /\ p1 \in Window /\ p2 # p1 /\ MayUse(p2) /\ Use(p2, Pose(p2))
  /\ AddTo(factors, Factor("odom", PoseIdx(p2), PoseIdx(p1), Pose(p2), Pose(p1)))
  /\ UNCHANGED <<minPoseID, solCov, landmarkFactorIDs>>
\* Mistake: the id of the new factor is not remembered.
AddLandmarkMeasurement_Forgotten(p, l, overwrite) ==
  /\ p \in Window
  /\ LET old == {f \in factors : overwrite /\ f.id = landmarkFactorIDs[l]}
     IN AddTo(factors \ old, Factor("landmark", l, PoseIdx(p), Lm(l), Pose(p)))
  /\ landmarkFactorIDs' = [landmarkFactorIDs EXCEPT ![l] = IF @ = None THEN factorCounter ELSE @]
  /\ UNCHANGED <<ids, currentGuess, solCov>>
AddLandmarkMeasurement(p, l, overwrite) ==
  /\ p \in Window
  /\ LET old == {f \in factors : overwrite /\ f.id = landmarkFactorIDs[l]}
     IN AddTo(factors \ old, Factor("landmark", l, PoseIdx(p), Lm(l), Pose(p)))
  /\ landmarkFactorIDs' = [landmarkFactorIDs EXCEPT ![l] = factorCounter]
  /\ UNCHANGED <<ids, currentGuess, solCov>>
AddLandmarkPrior(l) ==
  /\ AddTo(factors, Factor("landmark", l, None, Lm(l), Lm(l)))
  /\ UNCHANGED <<ids, currentGuess, solCov, landmarkFactorIDs>>

\* Graph::shiftIndices: the factors that are kept, those whose poses stay in the window.
\* Mistake: an index of a landmark will do too.
Kept_AnyIndex(f) == (f.kind = "odom" => f.to - 1 >= 0) /\ (f.from >= 0 => f.from - 1 >= 0)
Kept(f) ==
  /\ f.kind = "odom" => f.to - 1 >= NumLandmarks
  /\ f.from >= 0 => f.from - 1 >= NumLandmarks
Shifted(f) == [f EXCEPT !.to = IF f.kind = "odom" THEN @ - 1 ELSE @,
                        !.from = IF @ >= 0 THEN @ - 1 ELSE @]
\* The values of the window move down by one pose.
TrimmedGuess ==
  [i \in 0..(PoseIdxFrom(minPoseID + 1, maxPoseID) - 1) |->
     currentGuess[IF i < NumLandmarks THEN i ELSE i + 1]]
\* trimToMaxNumPoses: a prior with the covariance of the last solution holds the new base.
Solve_Trim ==
  LET base == minPoseID + 1
      prior == [Factor("odom", NumLandmarks, None, Pose(base), Pose(base))
                  EXCEPT !.by = solCov[PoseIdx(base)]]
  IN /\ maxPoseID - minPoseID > MaxNumPoses
     /\ AddTo({Shifted(f) : f \in {g \in factors : Kept(g)}}, prior)
     /\ minPoseID' = base
     /\ currentGuess' = TrimmedGuess
Solve ==
  /\ \/ maxPoseID - minPoseID <= MaxNumPoses /\ UNCHANGED <<minPoseID, currentGuess, graph>>
     \/ Solve_Trim
  /\ solCov' = currentGuess'
  /\ UNCHANGED <<maxPoseID, landmarkFactorIDs>>

Next ==
  \/ \E p \in 0..maxPoseID : AddPosePrior(p) \/ AddGPSMeasurement(p)
                             \/ \E p1 \in Window : AddOdomMeasurement(p, p1)
  \/ \E l \in Landmarks : AddLandmarkPrior(l)
                          \/ \E p \in Window, b \in BOOLEAN : AddLandmarkMeasurement(p, l, b)
  \/ Solve
Spec == Init /\ [][Next]_vars

(***************************************************************************)
(* Properties.                                                             *)
(***************************************************************************)
\* Whatever was trimmed since, every factor acts on the values of the landmark and the poses
\* that it was added for, and the prior that holds the base of the window was computed
\* from the covariance of that pose.
FactorsFollowPoses ==
  \A f \in factors :
    /\ currentGuess[f.to] = f.on
    /\ f.from # None => currentGuess[f.from] = f.by
    /\ f.from = None => f.by = f.on
\* The smoothed trajectory is that of the window's poses, in order, and no longer than
\* max_num_poses once the graph is solved.
TrajectoryInOrder ==
  /\ DOMAIN currentGuess = Landmarks \cup {PoseIdx(p) : p \in Window}
  /\ \A p \in Window : currentGuess[PoseIdx(p)] = Pose(p)
  /\ solCov = currentGuess => maxPoseID - minPoseID <= MaxNumPoses
\* The id kept for a landmark is that of its last sight, or of one that was trimmed: a sight
\* that overwrites takes the place of the one before it, and of no other factor.
SightsAreReplaced ==
  \A f \in factors, l \in Landmarks :
    /\ f.kind = "landmark" /\ f.to = l /\ f.from # None => f.id <= landmarkFactorIDs[l]
    /\ f.id = landmarkFactorIDs[l] => f.kind = "landmark" /\ f.to = l /\ f.from # None
=============================================================================
