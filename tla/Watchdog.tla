------------------------------ MODULE Watchdog ------------------------------
(***************************************************************************)
(* util::Watchdog (scheduler.h): its thread, feed() and its destructor.    *)
(* The thread holds the mutex except while it waits, so everything between *)
(* two waits is one step; the callback is a step of its own because feed() *)
(* and the destructor block on the mutex meanwhile.                        *)
(***************************************************************************)
EXTENDS Naturals

CONSTANT Duration  \* in ticks of the clock
ASSUME DurationAssumption == Duration \in Nat \ {0}

VARIABLES keepCallingOnDeath, fed, quitting,
          pc,      \* where the thread is
          left,    \* ticks until wakeTime
          hungry,  \* history: ticks since the last feeding or call, up to Duration
          called   \* history: the callback was called since the last feeding

flags == <<keepCallingOnDeath, fed, quitting>>
history == <<hungry, called>>
vars == <<flags, pc, left, history>>

Init ==
  /\ keepCallingOnDeath \in BOOLEAN
  /\ fed = FALSE
  /\ quitting = FALSE
  /\ pc = "begin"
  /\ left = Duration
  /\ hungry = 0
  /\ called = FALSE

MutexFree == pc # "callback"

\* The clock. The thread may be late: nothing makes it run at wakeTime.
Tick ==
  /\ left' = IF left > 0 THEN left - 1 ELSE 0
  /\ hungry' = IF hungry < Duration THEN hungry + 1 ELSE hungry
  /\ UNCHANGED <<flags, pc, called>>

Feed ==
  /\ ~quitting
  /\ MutexFree
  /\ fed' = TRUE
  /\ hungry' = 0
  /\ called' = FALSE
  /\ UNCHANGED <<keepCallingOnDeath, quitting, pc, left>>

\* ~Watchdog up to the join, which ends when pc = "exited".
Quit ==
  /\ MutexFree
  /\ quitting' = TRUE
  /\ UNCHANGED <<keepCallingOnDeath, fed, pc, left, history>>

\* The head of the loop: a new wakeTime and the first wait.
Loop == pc' = "waiting" /\ left' = Duration

Begin ==
  /\ pc = "begin"
  /\ ~quitting
  /\ Loop
  /\ UNCHANGED <<flags, history>>

\* Mistake: a feeding ends the wait and the next one starts from the old wakeTime.
WakeFed_SameWakeTime ==
  /\ pc = "waiting"
  /\ fed
  /\ ~quitting
  /\ fed' = FALSE
  /\ UNCHANGED <<keepCallingOnDeath, quitting, pc, left, history>>

WakeFed ==
  /\ pc = "waiting"
  /\ fed
  /\ ~quitting
  /\ fed' = FALSE
  /\ Loop
  /\ UNCHANGED <<keepCallingOnDeath, quitting, history>>

\* wait_until evaluates its predicate once more under the mutex after a timeout, so
\* a feeding that came first wins.
TimedOut ==
  /\ pc = "waiting"
  /\ left = 0
  /\ ~fed
  /\ ~quitting
  /\ pc' = "callback"
  /\ hungry' = 0
  /\ called' = TRUE
  /\ UNCHANGED <<flags, left>>

CallbackReturns ==
  /\ pc = "callback"
  /\ IF keepCallingOnDeath THEN Loop ELSE pc' = "starved" /\ UNCHANGED left
  /\ UNCHANGED <<flags, history>>

\* Mistake: a starved watchdog does not notice that it is fed.
WakeStarved_Never ==
  /\ pc = "starved"
  /\ quitting
  /\ fed
  /\ Loop
  /\ UNCHANGED <<flags, history>>

\* The second wait: fed stays up and ends the next wait at once.
WakeStarved ==
  /\ pc = "starved"
  /\ fed
  /\ ~quitting
  /\ Loop
  /\ UNCHANGED <<flags, history>>

\* Mistake: the second wait has only fed in its predicate.
Exit_NotStarved ==
  /\ pc \in {"begin", "waiting"}
  /\ quitting
  /\ pc' = "exited"
  /\ UNCHANGED <<flags, left, history>>

Exit ==
  /\ pc \in {"begin", "waiting", "starved"}
  /\ quitting
  /\ pc' = "exited"
  /\ UNCHANGED <<flags, left, history>>

Thread == Begin \/ WakeFed \/ TimedOut \/ CallbackReturns \/ WakeStarved \/ Exit

Next == Tick \/ Feed \/ Quit \/ Thread

Spec == Init /\ [][Next]_vars
\* Time passes and the thread is scheduled; feeding and quitting are up to the owner.
FairSpec == Spec /\ WF_vars(Tick) /\ WF_vars(Thread)

(***************************************************************************)
(* Properties.                                                             *)
(***************************************************************************)
TypeOK ==
  /\ keepCallingOnDeath \in BOOLEAN
  /\ fed \in BOOLEAN /\ quitting \in BOOLEAN /\ called \in BOOLEAN
  /\ pc \in {"begin", "waiting", "callback", "starved", "exited"}
  /\ left \in 0..Duration
  /\ hungry \in 0..Duration

\* The watchdog never barks early, nor twice in one starvation, whatever the race
\* between a late feeding, the timeout and the two waits.
Promise == INSTANCE Starvation
KeepsPromise == Promise!Spec

\* "If not fed for at least this long, then the callback is invoked": a watchdog
\* that starves is heard, also after it was fed again ("If the heartbeat is
\* reestablished after timing out, and then times out again, this handler will be
\* called again", WebSocketProtocol.h:94).
Barks == hungry = Duration /\ ~called ~> called \/ hungry # Duration \/ quitting

\* "keep invoking callback every duration milliseconds until fed again": with
\* keepCallingOnDeath a starvation of another Duration is heard as well.
KeepsBarking ==
  keepCallingOnDeath /\ hungry = Duration ~> hungry # Duration \/ quitting

\* The destructor gets to its end, in whichever of its two waits the thread is.
DestructorReturns == quitting ~> pc = "exited"
=============================================================================
