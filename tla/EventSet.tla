------------------------------ MODULE EventSet ------------------------------
(***************************************************************************)
(* What util::PeriodicScheduler promises of its events, times left out: an *)
(* event runs only while it is scheduled, and one at a time.               *)
(***************************************************************************)
CONSTANTS Events, NoEvent

VARIABLES live,    \* the events that are scheduled and not removed
          current  \* the event whose callback runs, or NoEvent

vars == <<live, current>>

Init == live = {} /\ current = NoEvent

Schedule(id) == id \in Events \ live /\ live' = live \cup {id} /\ UNCHANGED current
Remove(id) == current = NoEvent /\ live' = live \ {id} /\ UNCHANGED current
Clear == current = NoEvent /\ live' = {} /\ UNCHANGED current
Run(id) == current = NoEvent /\ id \in live /\ current' = id /\ UNCHANGED live
Return == current # NoEvent /\ current' = NoEvent /\ UNCHANGED live

Next == (\E id \in Events : Schedule(id) \/ Remove(id) \/ Run(id)) \/ Clear \/ Return
Spec == Init /\ [][Next]_vars
=============================================================================
