----------------------- MODULE PeriodicSchedulerProofs -----------------------
(***************************************************************************)
(* For every set of periods and any bounds: a removal hits the event it is *)
(* meant for, the scheduler implements EventSet, and no event is overdue   *)
(* while the thread runs when it can.                                      *)
(***************************************************************************)
EXTENDS PeriodicScheduler, TLAPS

\* What is asked of the constants: time passes between two runs of an event.
Bounds == Periods \subseteq Nat \ {0} /\ MaxEvents \in Nat

\* What the thread is at, and the ids that are in use.
RunsScheduled == IF pc = "running" THEN running \in Scheduled \ toRemove ELSE running = NoEvent
IdsInUse == nextID \in 0..MaxEvents /\ Scheduled \subseteq 0..(nextID - 1)
IInv == RunsScheduled /\ IdsInUse /\ RemovalsHitTheirEvent

LEMMA IInvInitially == Bounds /\ Init => IInv
BY DEF Bounds, Init, IInv, RunsScheduled, IdsInUse, RemovalsHitTheirEvent, Scheduled

\* An operation happens while the thread waits, so no event runs.
LEMMA Operations ==
  ASSUME Bounds, IInv,
         \/ \E p \in Periods : ScheduleEvent(p)
         \/ \E id \in Scheduled : RemoveEvent(id)
         \/ Clear \/ Quit
  PROVE  IInv' /\ (Promise!Next \/ UNCHANGED Promise!vars)
<1> USE DEF Bounds, IInv, RunsScheduled, IdsInUse, RemovalsHitTheirEvent, Scheduled, MutexFree,
        Waiting, shared, flags
<1>1. pc # "running" /\ running = NoEvent
  BY DEF ScheduleEvent, RemoveEvent, Clear, Quit
<1>2. ASSUME NEW p \in Periods, ScheduleEvent(p)
      PROVE  IInv' /\ Promise!Schedule(nextID) /\ nextID \in 0..(MaxEvents - 1)
  <2>1. Scheduled' = Scheduled \cup {nextID} /\ nextID' = nextID + 1 /\ nextID < MaxEvents
        /\ UNCHANGED <<toRemove, pc, running>>
    BY <1>2 DEF ScheduleEvent
  <2>2. nextID \notin Scheduled /\ nextID \in 0..(MaxEvents - 1)
    BY <2>1
  <2>3. (Scheduled \ toRemove)' = (Scheduled \ toRemove) \cup {nextID}
    BY <2>1, <2>2
  <2>4. Promise!Schedule(nextID)
    BY <2>1, <2>2, <2>3 DEF Promise!Schedule
  <2>5. RunsScheduled' /\ IdsInUse' /\ RemovalsHitTheirEvent'
    BY <2>1, <2>2
  <2>. QED  BY <2>2, <2>4, <2>5
<1>3. ASSUME NEW id \in Scheduled, RemoveEvent(id)
      PROVE  IInv' /\ Promise!Remove(id) /\ id \in 0..(MaxEvents - 1)
  <2>1. toRemove' = toRemove \cup {id} /\ UNCHANGED <<schedule, nextID, pc, running>>
    BY <1>3 DEF RemoveEvent
  <2>2. (Scheduled \ toRemove)' = (Scheduled \ toRemove) \ {id}
    BY <2>1
  <2>. QED  BY <1>1, <2>1, <2>2 DEF Promise!Remove
<1>4. ASSUME Clear  PROVE IInv' /\ Promise!Clear
  <2>1. Scheduled' = {} /\ toRemove' = {} /\ nextID' = 0 /\ UNCHANGED <<pc, running>>
    BY <1>4 DEF Clear
  <2>. QED  BY <1>1, <1>4, <2>1 DEF Promise!Clear, Clear
<1>5. ASSUME Quit  PROVE IInv' /\ UNCHANGED Promise!vars
  BY <1>5 DEF Quit, Promise!vars
<1>. QED  BY <1>2, <1>3, <1>4, <1>5 DEF Promise!Next

\* The thread and the clock.
LEMMA ThreadSteps ==
  ASSUME Bounds, IInv, Thread \/ Tick
  PROVE  IInv' /\ (Promise!Next \/ UNCHANGED Promise!vars)
<1> USE DEF Bounds, IInv, RunsScheduled, IdsInUse, RemovalsHitTheirEvent, Scheduled, LoopHead,
        Waiting, shared, flags
<1>1. ASSUME Begin \/ Exit \/ WaitEmpty \/ WakeUp  PROVE IInv' /\ UNCHANGED Promise!vars
  BY <1>1 DEF Begin, Exit, WaitEmpty, WakeUp, Promise!vars
<1>2. ASSUME Return  PROVE IInv' /\ Promise!Return
  <2>1. Scheduled' = Scheduled /\ pc = "running" /\ pc' = "loop" /\ running' = NoEvent
        /\ UNCHANGED <<toRemove, nextID>>
    BY <1>2 DEF Return
  <2>2. running # NoEvent
    BY <2>1 DEF NoEvent
  <2>. QED  BY <2>1, <2>2 DEF Promise!Return
<1>3. ASSUME NEW id \in Scheduled, PopRemoved(id)  PROVE IInv' /\ UNCHANGED Promise!vars
  <2>1. Scheduled' = Scheduled \ {id} /\ toRemove' = toRemove \ {id} /\ id \in toRemove
        /\ pc = "loop" /\ UNCHANGED <<nextID, pc, running>>
    BY <1>3 DEF PopRemoved
  <2>2. (Scheduled \ toRemove)' = Scheduled \ toRemove
    BY <2>1
  <2>. QED  BY <2>1, <2>2 DEF Promise!vars
<1>4. ASSUME NEW id \in Scheduled, Run(id)
      PROVE  IInv' /\ Promise!Run(id) /\ id \in 0..(MaxEvents - 1)
  BY <1>4 DEF Run, Promise!Run
<1>5. ASSUME NEW id \in Scheduled, WaitUntil(id)  PROVE IInv' /\ UNCHANGED Promise!vars
  BY <1>5 DEF WaitUntil, Promise!vars
<1>6. ASSUME Tick  PROVE IInv' /\ UNCHANGED Promise!vars
  <2>1. Scheduled' = Scheduled /\ UNCHANGED <<toRemove, nextID, pc, running>>
    BY <1>6 DEF Tick
  <2>. QED  BY <2>1 DEF Promise!vars
<1>. QED  BY <1>1, <1>2, <1>3, <1>4, <1>5, <1>6 DEF Thread, Promise!Next

LEMMA EveryStep ==
  ASSUME Bounds, IInv, [Next]_vars
  PROVE  IInv' /\ [Promise!Next]_(Promise!vars)
<1>1. CASE UNCHANGED vars
  BY <1>1 DEF vars, shared, flags, IInv, RunsScheduled, IdsInUse, RemovalsHitTheirEvent,
              Scheduled, Promise!vars
<1>2. CASE Next
  BY <1>2, Operations, ThreadSteps DEF Next
<1>. QED  BY <1>1, <1>2

\* scheduler.h: an id marked for removal is that of a scheduled event, also after clear()
\* has started the ids over.
THEOREM RemovalsHitTheirEventAlways ==
  ASSUME Bounds
  PROVE  Spec => []RemovalsHitTheirEvent
<1>1. Spec => []IInv
  BY IInvInitially, EveryStep, PTL DEF Spec
<1>2. IInv => RemovalsHitTheirEvent
  BY DEF IInv
<1>. QED  BY <1>1, <1>2, PTL

\* scheduler.h: events run only while they are scheduled and not removed, one at a time,
\* with no removal in between.
THEOREM SchedulerImplementsEventSet ==
  ASSUME Bounds
  PROVE  Spec => ImplementsEventSet
<1>1. Init => Promise!Init
  BY DEF Init, Scheduled, Promise!Init
<1>2. Spec => []IInv
  BY IInvInitially, EveryStep, PTL DEF Spec
<1>. QED  BY <1>1, <1>2, EveryStep, PTL DEF Spec, Promise!Spec, ImplementsEventSet

(***************************************************************************)
(* Time.                                                                   *)
(***************************************************************************)
Typed ==
  /\ schedule \in [Scheduled -> [due : Int, period : Periods]]
  /\ wakeIn \in Nat
  /\ newEventAdded \in BOOLEAN /\ quitting \in BOOLEAN /\ prompt \in BOOLEAN
  /\ pc \in {"begin", "loop", "waitEmpty", "waitUntil", "running", "exited"}

\* As long as the thread has been prompt and has heard of every new event, it sleeps no
\* longer than until the first event is due, and without limit only with no event.
WakesInTime ==
  prompt => /\ \A id \in Scheduled : schedule[id].due >= 0
            /\ ~newEventAdded /\ pc = "waitUntil"
                 => \A id \in Scheduled : schedule[id].due >= wakeIn
            /\ ~newEventAdded /\ pc = "waitEmpty" => Scheduled = {}

TimeInv == Typed /\ WakesInTime

LEMMA TimeInvInitially == Init => TimeInv
<1> SUFFICES ASSUME Init
             PROVE  TimeInv
  OBVIOUS
<1>1. schedule = [id \in {} |-> 0] /\ Scheduled = {}
  BY DEF Init, Scheduled
<1>2. Typed
  BY <1>1 DEF Init, Typed
<1>3. WakesInTime
  BY <1>1 DEF Init, WakesInTime
<1>. QED  BY <1>2, <1>3 DEF TimeInv

LEMMA OperationsKeepTime ==
  ASSUME Bounds, IInv, TimeInv,
         \/ \E p \in Periods : ScheduleEvent(p)
         \/ \E id \in Scheduled : RemoveEvent(id)
         \/ Clear \/ Quit
  PROVE  TimeInv'
<1> USE DEF Bounds, TimeInv, Typed, WakesInTime, Scheduled, shared, flags
<1>1. ASSUME NEW p \in Periods, ScheduleEvent(p)
      PROVE  TimeInv'
  BY <1>1 DEF ScheduleEvent
<1>2. ASSUME NEW id \in Scheduled, RemoveEvent(id)
      PROVE  TimeInv'
  BY <1>2 DEF RemoveEvent
<1>3. CASE Clear
  BY <1>3 DEF Clear
<1>4. CASE Quit
  BY <1>4 DEF Quit
<1>. QED  BY <1>1, <1>2, <1>3, <1>4

LEMMA ThreadKeepsTime ==
  ASSUME Bounds, IInv, TimeInv, Thread
  PROVE  TimeInv'
<1> USE DEF Bounds, IInv, RunsScheduled, TimeInv, Typed, WakesInTime, Scheduled,
        LoopHead, shared, flags
<1>1. CASE Begin \/ Exit \/ WaitEmpty
  BY <1>1 DEF Begin, Exit, WaitEmpty
<1>2. CASE WakeUp
  BY <1>2 DEF WakeUp
<1>3. CASE Return
  BY <1>3 DEF Return
<1>4. ASSUME NEW id \in Scheduled, PopRemoved(id)
      PROVE  TimeInv'
  BY <1>4 DEF PopRemoved
<1>5. ASSUME NEW id \in Scheduled, Run(id)
      PROVE  TimeInv'
  BY <1>5 DEF Run
<1>6. ASSUME NEW id \in Scheduled, WaitUntil(id)
      PROVE  TimeInv'
  BY <1>6 DEF WaitUntil, Tops
<1>. QED  BY <1>1, <1>2, <1>3, <1>4, <1>5, <1>6 DEF Thread

LEMMA TickKeepsTime ==
  ASSUME TimeInv, Tick
  PROVE  TimeInv'
<1> USE DEF TimeInv, Typed, WakesInTime, Scheduled, Tick, Waiting, flags
<1>1. Scheduled' = Scheduled
  OBVIOUS
<1>2. \A id \in Scheduled : schedule'[id].due = schedule[id].due - 1
  OBVIOUS
<1>3. Typed'
  <2>1. schedule' \in [Scheduled -> [due : Int, period : Periods]]
    OBVIOUS
  <2>2. wakeIn' \in Nat
    OBVIOUS
  <2>. QED  BY <1>1, <2>1, <2>2
<1>4. ASSUME prompt'
      PROVE  /\ \A id \in Scheduled : schedule'[id].due >= 0
             /\ pc = "waitUntil" => \A id \in Scheduled : schedule'[id].due >= wakeIn'
             /\ pc = "waitEmpty" => Scheduled = {}
  <2>1. prompt /\ Waiting /\ ~newEventAdded /\ (pc = "waitUntil" => wakeIn > 0)
    BY <1>4, Zenon
  <2>2. CASE pc = "waitUntil"
    <3>1. wakeIn' = wakeIn - 1 /\ wakeIn \in Nat /\ wakeIn > 0
      BY <2>1, <2>2
    <3>2. \A id \in Scheduled : schedule[id].due \in Int /\ schedule[id].due >= wakeIn
      BY <2>1, <2>2
    <3>. QED  BY <1>2, <2>2, <3>1, <3>2
  <2>3. CASE pc = "waitEmpty"
    BY <2>1, <2>3
  <2>. QED  BY <2>1, <2>2, <2>3
<1>5. WakesInTime'
  BY <1>1, <1>4
<1>. QED  BY <1>3, <1>5

\* Whatever the periods, and however events are scheduled, removed and cleared while the
\* thread sleeps: if it has always run before the clock moved on, no event is overdue.
THEOREM NeverOverdueAlways ==
  ASSUME Bounds
  PROVE  Spec => []NeverOverdue
<1>1. IInv /\ TimeInv /\ [Next]_vars => TimeInv'
  <2>1. ASSUME TimeInv, UNCHANGED vars
        PROVE  TimeInv'
    BY <2>1 DEF vars, shared, flags, TimeInv, Typed, WakesInTime, Scheduled
  <2>. QED  BY <2>1, OperationsKeepTime, ThreadKeepsTime, TickKeepsTime DEF Next
<1>2. Spec => []IInv
  BY IInvInitially, EveryStep, PTL DEF Spec
<1>3. TimeInv => NeverOverdue
  BY DEF TimeInv, WakesInTime, NeverOverdue
<1>. QED  BY TimeInvInitially, <1>1, <1>2, <1>3, PTL DEF Spec
=============================================================================
