--------------------------- MODULE SimulatorLink ---------------------------
(***************************************************************************)
(* Rover.cpp's start against world_interface/simulator_interface.cpp: main *)
(* waits for the simulator, the server's thread handles its connections    *)
(* and limit switch alerts, and other threads add and remove the callbacks *)
(* for them.                                                               *)
(***************************************************************************)
EXTENDS Integers, FiniteSets, Functions

CONSTANTS Motors,        \* named in motorNameMap
          Cams,          \* opened by initCameras
          Users,         \* threads that add a callback and remove it
          MaxCallbacks   \* bound on the callbacks ever added

NoID == -1
VARIABLES main,          \* the next step of main
          client, simConnected,
          asked,         \* cameras the simulator connected now was asked to open
          limitSwitchCallbackMap, lsCallbackToMotorMap, nextCallbackID,
          alert, left,   \* the motor of the alert being handled, callbacks left to call
          mine,          \* the callback of each user
          crashed        \* an exception left a handler
link == <<main, client, simConnected, asked>>
registry == <<limitSwitchCallbackMap, lsCallbackToMotorMap, nextCallbackID, mine>>
vars == <<link, registry, alert, left, crashed>>

NoMotor == "none"
Init ==
  /\ main = "wait" /\ client = FALSE /\ simConnected = FALSE /\ asked = {}
  /\ limitSwitchCallbackMap = [m \in {} |-> {}]
  /\ lsCallbackToMotorMap = [id \in {} |-> NoMotor] /\ nextCallbackID = 0
  /\ alert = NoMotor /\ left = {} /\ mine = [u \in Users |-> NoID] /\ crashed = FALSE

(***************************************************************************)
(* Connections, and main: initSimServer, initCameras, initMotors, then the *)
(* protocol of mission control, whose requests reach the motors.           *)
(***************************************************************************)
ClientConnected ==
  /\ ~client /\ alert = NoMotor
  /\ client' = TRUE /\ simConnected' = TRUE /\ asked' = {}
  /\ UNCHANGED <<main, registry, alert, left, crashed>>
ClientDisconnected ==
  /\ client /\ alert = NoMotor /\ client' = FALSE
  /\ UNCHANGED <<main, simConnected, asked, registry, alert, left, crashed>>
\* Mistake: what is waited for is a client that is there now.
Connected_Now == client
Connected == simConnected
EndWait ==
  /\ main = "wait" /\ Connected /\ main' = "cameras"
  /\ UNCHANGED <<client, simConnected, asked, registry, alert, left, crashed>>
\* Without a client the server drops what it should send.
InitCameras ==
  /\ main = "cameras" /\ main' = "motors"
  /\ asked' = IF client THEN Cams ELSE asked
  /\ UNCHANGED <<client, simConnected, registry, alert, left, crashed>>
InitMotors ==
  /\ main = "motors" /\ main' = "serving"
  /\ UNCHANGED <<client, simConnected, asked, registry, alert, left, crashed>>

(***************************************************************************)
(* Limit switches. limitSwitchCallbackMapMutex is held while an alert is   *)
(* handled.                                                                *)
(***************************************************************************)
HandleLimitSwitch(m) ==
  /\ client /\ alert = NoMotor
  /\ IF m \in DOMAIN limitSwitchCallbackMap
     THEN alert' = m /\ left' = limitSwitchCallbackMap[m] /\ UNCHANGED crashed
     ELSE crashed' = TRUE /\ UNCHANGED <<alert, left>>
  /\ UNCHANGED <<link, registry>>
CallOne(id) ==
  /\ id \in left /\ left' = left \ {id}
  /\ UNCHANGED <<link, registry, alert, crashed>>
EndAlert ==
  /\ alert # NoMotor /\ left = {} /\ alert' = NoMotor
  /\ UNCHANGED <<link, registry, left, crashed>>

WithCallback(m, id) ==
  [n \in DOMAIN limitSwitchCallbackMap \cup {m} |->
     (IF n \in DOMAIN limitSwitchCallbackMap THEN limitSwitchCallbackMap[n] ELSE {})
     \cup (IF n = m THEN {id} ELSE {})]
Add(u, m) ==
  /\ main = "serving" /\ alert = NoMotor /\ mine[u] = NoID /\ nextCallbackID < MaxCallbacks
  /\ limitSwitchCallbackMap' = WithCallback(m, nextCallbackID)
  /\ lsCallbackToMotorMap' = [id \in DOMAIN lsCallbackToMotorMap \cup {nextCallbackID} |->
                                IF id = nextCallbackID THEN m ELSE lsCallbackToMotorMap[id]]
  /\ mine' = [mine EXCEPT ![u] = nextCallbackID]
  /\ nextCallbackID' = nextCallbackID + 1
  /\ UNCHANGED <<link, alert, left, crashed>>
\* Mistake: the motor's entry goes with any of its callbacks.
Emptied_Always(m, id) == TRUE
Emptied(m, id) == limitSwitchCallbackMap[m] = {id}
\* lsCallbackToMotorMap keeps the id.
Remove(u) ==
  LET id == mine[u]
      m == lsCallbackToMotorMap[id]
  IN /\ alert = NoMotor /\ id # NoID
     /\ limitSwitchCallbackMap' =
          IF Emptied(m, id) THEN Restrict(limitSwitchCallbackMap, DOMAIN limitSwitchCallbackMap \ {m})
          ELSE [limitSwitchCallbackMap EXCEPT ![m] = @ \ {id}]
     /\ mine' = [mine EXCEPT ![u] = NoID]
     /\ UNCHANGED <<link, lsCallbackToMotorMap, nextCallbackID, alert, left, crashed>>

Main == EndWait \/ InitCameras \/ InitMotors
Next ==
  /\ ~crashed
  /\ \/ ClientConnected \/ ClientDisconnected \/ Main \/ EndAlert
     \/ \E m \in Motors : HandleLimitSwitch(m) \/ \E u \in Users : Add(u, m)
     \/ (\E id \in left : CallOne(id)) \/ (\E u \in Users : Remove(u))
\* Main is scheduled.
Spec == Init /\ [][Next]_vars /\ WF_vars(~crashed /\ Main)

(***************************************************************************)
(* Properties.                                                             *)
(***************************************************************************)
\* The registry holds the callbacks that were added and not removed, for their motors; a
\* motor without any has no entry, so an alert throws just when nobody listens.
RegistryIsExact ==
  /\ UNION {limitSwitchCallbackMap[m] : m \in DOMAIN limitSwitchCallbackMap}
       = {mine[u] : u \in Users} \ {NoID}
  /\ \A m \in DOMAIN limitSwitchCallbackMap :
       /\ limitSwitchCallbackMap[m] # {}
       /\ \A id \in limitSwitchCallbackMap[m] : lsCallbackToMotorMap[id] = m

\* Once a simulator has connected the rover starts, even if it has left when main wakes up.
StartsOnceConnected == simConnected ~> main = "serving" \/ crashed
============================================================================
