----------------------------- MODULE Landmarks -----------------------------
(***************************************************************************)
(* ar/read_landmarks.cpp: the thread that detects tags in the camera's     *)
(* frames and keeps the last sight of every landmark, and the readers of   *)
(* readLandmarks. What runs under landmark_lock is one step. A sight is    *)
(* told apart by the time of its frame.                                    *)
(***************************************************************************)
EXTENDS Integers

CONSTANTS Tags,         \* the landmarks
          Readers,      \* threads that call readLandmarks
          FreshPeriod,  \* LANDMARK_FRESH_PERIOD, in ticks
          MaxTime       \* bound on the clock

None == -1
Nothing == [i \in Tags |-> None]  \* zero_landmarks
VARIABLES now,
          frameTime, output,  \* the loop's frame and the sights in it, while detecting
          detecting,
          current_landmarks, fresh_data,
          reading,    \* the readers that found fresh data and wait for the lock
          answer,     \* what readLandmarks last returned to each reader
          seen, returned  \* history: the last sight of each tag, what the last copy returned
vars == <<now, frameTime, output, detecting, current_landmarks, fresh_data, reading, answer, seen, returned>>

Init ==
  /\ now = 0 /\ frameTime = 0 /\ output = Nothing /\ detecting = FALSE
  /\ current_landmarks = Nothing /\ fresh_data = FALSE
  /\ reading = {} /\ answer = [r \in Readers |-> Nothing] /\ seen = Nothing /\ returned = Nothing

Tick == now < MaxTime /\ now' = now + 1
        /\ UNCHANGED <<frameTime, output, detecting, current_landmarks, fresh_data, reading, answer, seen, returned>>

\* A new frame, taken now, shows some of the tags.
DetectTags(tags) ==
  /\ ~detecting
  /\ detecting' = TRUE /\ frameTime' = now
  /\ output' = [i \in Tags |-> IF i \in tags THEN now ELSE None]
  /\ UNCHANGED <<now, current_landmarks, fresh_data, reading, answer, seen, returned>>
IsFresh(time) == time # None /\ now - FreshPeriod <= time
\* Mistake: a sight is only replaced by another one.
Overwrites_Valid(i) == output[i] # None
Overwrites(i) == output[i] # None \/ ~IsFresh(current_landmarks[i])
Store ==
  /\ detecting /\ detecting' = FALSE
  /\ current_landmarks' = [i \in Tags |-> IF Overwrites(i) THEN output[i] ELSE current_landmarks[i]]
  /\ fresh_data' = TRUE
  /\ seen' = [i \in Tags |-> IF output[i] # None THEN output[i] ELSE seen[i]]
  /\ UNCHANGED <<now, frameTime, output, reading, answer, returned>>

\* readLandmarks tests fresh_data before it takes the lock.
TestFresh(r) ==
  /\ r \notin reading
  /\ IF fresh_data THEN reading' = reading \cup {r} /\ UNCHANGED answer
     ELSE answer' = [answer EXCEPT ![r] = Nothing] /\ UNCHANGED reading
  /\ UNCHANGED <<now, frameTime, output, detecting, current_landmarks, fresh_data, seen, returned>>
\* Mistake: the flag is reset by a statement after the lock is released: a store may
\* come in between, here in the same step.
Copy_ResetsLate(r) ==
  /\ r \in reading /\ reading' = reading \ {r}
  /\ answer' = [answer EXCEPT ![r] = current_landmarks] /\ returned' = current_landmarks
  /\ IF detecting
     THEN /\ detecting' = FALSE
          /\ current_landmarks' = [i \in Tags |-> IF Overwrites(i) THEN output[i] ELSE current_landmarks[i]]
          /\ seen' = [i \in Tags |-> IF output[i] # None THEN output[i] ELSE seen[i]]
     ELSE UNCHANGED <<detecting, current_landmarks, seen>>
  /\ fresh_data' = FALSE
  /\ UNCHANGED <<now, frameTime, output>>
Copy(r) ==
  /\ r \in reading /\ reading' = reading \ {r}
  /\ answer' = [answer EXCEPT ![r] = current_landmarks] /\ returned' = current_landmarks
  /\ fresh_data' = FALSE
  /\ UNCHANGED <<now, frameTime, output, detecting, current_landmarks, seen>>

Next ==
  \/ Tick \/ Store \/ (\E tags \in SUBSET Tags : DetectTags(tags))
  \/ \E r \in Readers : TestFresh(r) \/ Copy(r)
Spec == Init /\ [][Next]_vars

(***************************************************************************)
(* Properties.                                                             *)
(***************************************************************************)
\* "detection is a bit spotty, so we don't want to overwrite good data" (read_landmarks.cpp:85):
\* after a frame is processed a landmark is the last sight of its tag, or nothing when that
\* is older than the period and not of this frame.
LastSights == \A i \in Tags :
  current_landmarks'[i] = IF output[i] # None \/ IsFresh(seen[i]) THEN seen'[i] ELSE None
KeepsFreshSights == [][Store => LastSights]_vars

\* What was stored last is marked as fresh until a copy of it was returned: no sight is lost
\* between the flag, which is tested without the lock, and the lock.
NoSightLost == [][fresh_data' \/ current_landmarks' = returned']_vars
============================================================================
