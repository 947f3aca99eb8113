--------------------------- MODULE TelemetryPulls ---------------------------
(***************************************************************************)
(* The telemetry that CAN/CAN.cpp pulls from devices: one periodic event   *)
(* per device and type, on a scheduler of its own. Events is that          *)
(* scheduler (PeriodicScheduler implements EventSet); one thread calls     *)
(* scheduleTelemetryPull and the others.                                   *)
(***************************************************************************)
EXTENDS Integers, Functions

CONSTANTS Keys,       \* pairs of a device and a type of telemetry
          MaxEvents   \* bound on the events scheduled between two clears

NoEvent == -1
NoKey == "none"
VARIABLES live, current,    \* of the scheduler
          nextID,           \* the id it gives out next
          pulls,            \* from ids to the key that the event's function pulls
          telemEventIDMap,
          scheduling,       \* the key of a call of scheduleTelemetryPull half way
          pulled            \* the key last pulled
events == <<live, current>>
vars == <<events, nextID, pulls, telemEventIDMap, scheduling, pulled>>

Events == INSTANCE EventSet WITH Events <- 0..(MaxEvents - 1)

Init ==
  /\ Events!Init /\ nextID = 0 /\ pulls = [id \in {} |-> NoKey]
  /\ telemEventIDMap = [k \in {} |-> NoEvent] /\ scheduling = NoKey /\ pulled = NoKey

Forget(k) == Restrict(telemEventIDMap, DOMAIN telemEventIDMap \ {k})
RemoveEventOf(k) ==
  /\ k \in DOMAIN telemEventIDMap
  /\ Events!Remove(telemEventIDMap[k]) /\ telemEventIDMap' = Forget(k)
\* scheduleTelemetryPull first removes the event that is there. Mistake: it does not.
Replace_Kept(k) == UNCHANGED <<events, telemEventIDMap>>
Replace(k) == IF k \in DOMAIN telemEventIDMap THEN RemoveEventOf(k)
              ELSE UNCHANGED <<events, telemEventIDMap>>
BeginSchedule(k) ==
  /\ scheduling = NoKey /\ nextID < MaxEvents /\ Replace(k) /\ scheduling' = k
  /\ UNCHANGED <<nextID, pulls, pulled>>
EndSchedule ==
  /\ scheduling # NoKey /\ current = NoEvent
  /\ Events!Schedule(nextID) /\ nextID' = nextID + 1
  /\ pulls' = [id \in DOMAIN pulls \cup {nextID} |-> IF id = nextID THEN scheduling ELSE pulls[id]]
  /\ telemEventIDMap' = [k \in DOMAIN telemEventIDMap \cup {scheduling} |->
                           IF k = scheduling THEN nextID ELSE telemEventIDMap[k]]
  /\ scheduling' = NoKey /\ pulled' = scheduling
Unschedule(k) ==
  /\ scheduling = NoKey /\ RemoveEventOf(k)
  /\ UNCHANGED <<nextID, pulls, scheduling, pulled>>
UnscheduleAll ==
  /\ scheduling = NoKey /\ Events!Clear /\ nextID' = 0
  /\ telemEventIDMap' = [k \in {} |-> NoEvent]
  /\ UNCHANGED <<pulls, scheduling, pulled>>

\* The scheduler's thread: pullDeviceTelemetry.
RunEvent(id) == Events!Run(id) /\ pulled' = pulls[id]
                /\ UNCHANGED <<nextID, pulls, telemEventIDMap, scheduling>>
EventReturns == Events!Return /\ UNCHANGED <<nextID, pulls, telemEventIDMap, scheduling, pulled>>

Next ==
  \/ \E k \in Keys : BeginSchedule(k) \/ Unschedule(k)
  \/ EndSchedule \/ UnscheduleAll \/ EventReturns \/ \E id \in live : RunEvent(id)
Spec == Init /\ [][Next]_vars

\* Every event on the scheduler is the one that the map has for the key it pulls, and the
\* other way round: none is left behind or pulls a key twice, after ids start over too.
MapMatchesEvents ==
  /\ \A id \in live : pulls[id] \in DOMAIN telemEventIDMap /\ telemEventIDMap[pulls[id]] = id
  /\ \A k \in DOMAIN telemEventIDMap :
       telemEventIDMap[k] \in live /\ pulls[telemEventIDMap[k]] = k
=============================================================================
