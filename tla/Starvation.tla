----------------------------- MODULE Starvation -----------------------------
(***************************************************************************)
(* What util::Watchdog promises its owner (scheduler.h, lines 179-202):    *)
(* the callback runs only when the watchdog was not fed for Duration, and  *)
(* once per starvation unless keepCallingOnDeath.                          *)
(***************************************************************************)
EXTENDS Naturals

CONSTANT Duration

VARIABLES keepCallingOnDeath,
          hungry,  \* ticks since the last feeding or call, counted up to Duration
          called   \* the callback was called since the last feeding
vars == <<keepCallingOnDeath, hungry, called>>

Init == keepCallingOnDeath \in BOOLEAN /\ hungry = 0 /\ called = FALSE

Fed == hungry' = 0 /\ called' = FALSE /\ UNCHANGED keepCallingOnDeath

Pass ==
  /\ hungry' = IF hungry < Duration THEN hungry + 1 ELSE hungry
  /\ UNCHANGED <<keepCallingOnDeath, called>>

Call ==
  /\ hungry = Duration
  /\ called => keepCallingOnDeath
  /\ hungry' = 0
  /\ called' = TRUE
  /\ UNCHANGED keepCallingOnDeath

Next == Fed \/ Pass \/ Call
Spec == Init /\ [][Next]_vars
=============================================================================
