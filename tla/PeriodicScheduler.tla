-------------------------- MODULE PeriodicScheduler --------------------------
(***************************************************************************)
(* util::PeriodicScheduler (scheduler.h): its thread and the operations    *)
(* other threads call. The thread gives scheduleMutex up only while it     *)
(* waits, so the operations happen between its waits, and a pass of its    *)
(* loop is one step; a callback is a step of its own, since time passes in *)
(* it. Times are relative to the clock: due = nextSendTime - now.          *)
(***************************************************************************)
EXTENDS Integers

CONSTANTS Periods,    \* the periods events are scheduled with
          MaxEvents,  \* bound on the events scheduled between two calls of clear()
          MaxLate     \* bound on how many ticks an event can be overdue

VARIABLES schedule,  \* from the ids of events to [due, period]
          toRemove, nextID, newEventAdded, quitting,
          pc,        \* where the thread is
          wakeIn,    \* ticks until the end of wait_until
          running,   \* the event whose callback runs
          prompt     \* history: the thread always ran before the clock ticked

NoEvent == -1
shared == <<schedule, toRemove, nextID>>
flags == <<newEventAdded, quitting>>
vars == <<shared, flags, pc, wakeIn, running, prompt>>

Init ==
  /\ schedule = [id \in {} |-> 0]
  /\ toRemove = {}
  /\ nextID = 0
  /\ newEventAdded = FALSE
  /\ quitting = FALSE
  /\ pc = "begin"
  /\ wakeIn = 0
  /\ running = NoEvent
  /\ prompt = TRUE

Scheduled == DOMAIN schedule
Waiting == pc \in {"waitEmpty", "waitUntil"}
MutexFree == Waiting \/ pc = "begin"

(***************************************************************************)
(* The operations, by threads that get scheduleMutex during a wait or     *)
(* before the thread has taken it for the first time.                      *)
(***************************************************************************)
\* Mistake: the thread is not told that there is a new event.
ScheduleEvent_Silent(period) ==
  /\ MutexFree /\ ~quitting
  /\ nextID < MaxEvents
  /\ schedule' = [id \in Scheduled \cup {nextID} |->
                    IF id = nextID THEN [due |-> period, period |-> period]
                    ELSE schedule[id]]
  /\ nextID' = nextID + 1
  /\ UNCHANGED <<toRemove, flags, pc, wakeIn, running, prompt>>

ScheduleEvent(period) ==
  /\ MutexFree /\ ~quitting
  /\ nextID < MaxEvents
  /\ schedule' = [id \in Scheduled \cup {nextID} |->
                    IF id = nextID THEN [due |-> period, period |-> period]
                    ELSE schedule[id]]
  /\ nextID' = nextID + 1
  /\ newEventAdded' = TRUE
  /\ UNCHANGED <<toRemove, quitting, pc, wakeIn, running, prompt>>

\* Removing an event twice, or one that is not scheduled, is left to the caller.
RemoveEvent(id) ==
  /\ MutexFree /\ ~quitting
  /\ id \notin toRemove
  /\ toRemove' = toRemove \cup {id}
  /\ UNCHANGED <<schedule, nextID, flags, pc, wakeIn, running, prompt>>

\* Mistake: the ids marked for removal survive, and the ids start over.
Clear_KeepsRemovals ==
  /\ MutexFree /\ ~quitting
  /\ schedule' = [id \in {} |-> 0]
  /\ nextID' = 0
  /\ UNCHANGED <<toRemove, flags, pc, wakeIn, running, prompt>>

\* clear() does not wake the thread.
Clear ==
  /\ MutexFree /\ ~quitting
  /\ schedule' = [id \in {} |-> 0]
  /\ toRemove' = {}
  /\ nextID' = 0
  /\ UNCHANGED <<flags, pc, wakeIn, running, prompt>>

\* Mistake: the destructor wakes the thread, which waits again for a new event.
Quit_FlagOnly ==
  /\ MutexFree /\ ~quitting
  /\ quitting' = TRUE
  /\ UNCHANGED <<shared, newEventAdded, pc, wakeIn, running, prompt>>

\* ~PeriodicScheduler up to the join, which ends when pc = "exited".
Quit ==
  /\ MutexFree /\ ~quitting
  /\ quitting' = TRUE
  /\ newEventAdded' = TRUE
  /\ UNCHANGED <<shared, pc, wakeIn, running, prompt>>

(***************************************************************************)
(* threadFn                                                                *)
(***************************************************************************)
Tops == {id \in Scheduled : \A other \in Scheduled : schedule[id].due <= schedule[other].due}

Begin ==
  /\ pc = "begin"
  /\ pc' = "loop"
  /\ UNCHANGED <<shared, flags, wakeIn, running, prompt>>

LoopHead == pc = "loop" /\ ~quitting

Exit ==
  /\ pc = "loop"
  /\ quitting
  /\ pc' = "exited"
  /\ UNCHANGED <<shared, flags, wakeIn, running, prompt>>

WaitEmpty ==
  /\ LoopHead
  /\ Scheduled = {}
  /\ pc' = "waitEmpty"
  /\ UNCHANGED <<shared, flags, wakeIn, running, prompt>>

PopRemoved(id) ==
  /\ LoopHead
  /\ id \in Tops \cap toRemove
  /\ schedule' = [other \in Scheduled \ {id} |-> schedule[other]]
  /\ toRemove' = toRemove \ {id}
  /\ UNCHANGED <<nextID, flags, pc, wakeIn, running, prompt>>

\* Mistake: the ids to remove are not looked up.
Run_Removed(id) ==
  /\ LoopHead
  /\ id \in Tops
  /\ schedule[id].due <= 0
  /\ running' = id
  /\ pc' = "running"
  /\ UNCHANGED <<shared, flags, wakeIn, prompt>>

Run(id) ==
  /\ LoopHead
  /\ id \in Tops \ toRemove
  /\ schedule[id].due <= 0
  /\ running' = id
  /\ pc' = "running"
  /\ UNCHANGED <<shared, flags, wakeIn, prompt>>

\* The callback returns and the event is pushed with its next time.
Return ==
  /\ pc = "running"
  /\ schedule' = [schedule EXCEPT ![running].due = @ + schedule[running].period]
  /\ running' = NoEvent
  /\ pc' = "loop"
  /\ UNCHANGED <<toRemove, nextID, flags, wakeIn, prompt>>

WaitUntil(id) ==
  /\ LoopHead
  /\ id \in Tops \ toRemove
  /\ schedule[id].due > 0
  /\ wakeIn' = schedule[id].due
  /\ pc' = "waitUntil"
  /\ UNCHANGED <<shared, flags, running, prompt>>

\* Mistake: the thread sleeps until its time whatever happens.
WakeUp_ByTimeOnly ==
  /\ pc = "waitUntil"
  /\ wakeIn <= 0
  /\ newEventAdded' = FALSE
  /\ pc' = "loop"
  /\ UNCHANGED <<shared, quitting, wakeIn, running, prompt>>

WakeUp ==
  /\ Waiting
  /\ newEventAdded \/ (pc = "waitUntil" /\ wakeIn <= 0)
  /\ newEventAdded' = FALSE
  /\ pc' = "loop"
  /\ UNCHANGED <<shared, quitting, wakeIn, running, prompt>>

Thread ==
  \/ Begin \/ Exit \/ WaitEmpty \/ Return \/ WakeUp
  \/ \E id \in Scheduled : PopRemoved(id) \/ Run(id) \/ WaitUntil(id)

\* The thread may be late, and time passes in a callback.
Tick ==
  /\ \A id \in Scheduled : schedule[id].due > -MaxLate
  /\ schedule' = [id \in Scheduled |-> [schedule[id] EXCEPT !.due = @ - 1]]
  /\ wakeIn' = IF wakeIn > 0 THEN wakeIn - 1 ELSE 0
  /\ prompt' = (prompt /\ Waiting /\ ~newEventAdded /\ (pc = "waitUntil" => wakeIn > 0))
  /\ UNCHANGED <<toRemove, nextID, flags, pc, running>>

Next ==
  \/ \E p \in Periods : ScheduleEvent(p)
  \/ \E id \in Scheduled : RemoveEvent(id)
  \/ Clear \/ Quit \/ Thread \/ Tick

Spec == Init /\ [][Next]_vars
\* The thread is scheduled, callbacks return ("This should not block") and time
\* passes; the operations are up to the callers.
FairSpec == Spec /\ WF_vars(Thread) /\ WF_vars(Tick)

(***************************************************************************)
(* Properties.                                                             *)
(***************************************************************************)
TypeOK ==
  /\ \A id \in Scheduled : /\ id \in 0..MaxEvents - 1
                           /\ schedule[id].period \in Periods
                           /\ schedule[id].due \in -MaxLate..schedule[id].period
  /\ nextID \in 0..MaxEvents
  /\ newEventAdded \in BOOLEAN /\ quitting \in BOOLEAN
  /\ pc \in {"begin", "loop", "waitEmpty", "waitUntil", "running", "exited"}
  /\ wakeIn \in Nat
  /\ running \in Scheduled \cup {NoEvent}
  /\ prompt \in BOOLEAN

\* An id marked for removal is that of a scheduled event, and ids not yet given out
\* are not in use: an event scheduled after clear(), which starts the ids over, is
\* never dropped for an id that was removed before.
RemovalsHitTheirEvent ==
  /\ toRemove \subseteq Scheduled
  /\ \A id \in Scheduled : id < nextID

\* An event's function runs only while the event is scheduled and not removed, one at a
\* time, and never while another thread is in removeEvent or clear: what its users (the
\* CAN telemetry, the server's pings, the motors) build on.
Promise == INSTANCE EventSet WITH
  Events <- 0..(MaxEvents - 1), live <- Scheduled \ toRemove, current <- running
ImplementsEventSet == Promise!Spec

\* As long as the thread runs when it can, no event is ever overdue when the clock
\* moves on, in particular not one with a short period that is scheduled while the
\* thread sleeps until a later one.
NeverOverdue ==
  prompt => \A id \in Scheduled \ toRemove : schedule[id].due >= 0

\* An event keeps being run until it is removed, even one whose neighbour is always
\* overdue.
EventsRun ==
  \A id \in 0..MaxEvents - 1 :
    id \in Scheduled ~> running = id \/ id \in toRemove \/ id \notin Scheduled \/ quitting

\* The destructor gets to its end, from either wait.
DestructorReturns == quitting ~> pc = "exited"
=============================================================================
