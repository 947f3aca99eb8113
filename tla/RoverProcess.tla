---------------------------- MODULE RoverProcess ----------------------------
(***************************************************************************)
(* The rover's process (Rover.cpp): how it starts, the servers it runs     *)
(* (SingleClientWSServer, and the PlanVizServer of rospub.cpp), and how    *)
(* SIGINT ends it. The websocket server's thread serves clients from the   *)
(* start on, while the main thread still sets up what they use. What the   *)
(* record of an endpoint holds beside its client is module                 *)
(* WebSocketServer.                                                        *)
(***************************************************************************)
EXTENDS Integers, Sequences

CONSTANTS Endpoints  \* the path that each client asks for, in a sequence

None == 0
Clients == DOMAIN Endpoints
MC == "/mission-control"
AP == "/ardupilot"
Paths == {MC, AP}
NoServer == -1

VARIABLES main,      \* where the main thread, or SIGINT's handler on it, is
          status,    \* how the process ended, or "running"
          listening, \* the websocket server takes connections
          server,    \* its thread: "none", "running" or "ended"
          protocols, \* the paths in protocolMap
          client,    \* the client of each endpoint
          conn,      \* where each client's connection is
          todo,      \* the endpoints that stop() has still to close
          late,      \* history: the connections that stop() did not find when it closed the clients
          motors,    \* initMotors is done
          commanded, \* a request of mission control's has reached the motors
          planviz    \* the viewers of rospub's server, or NoServer
net == <<listening, server, protocols, client, conn>>
vars == <<main, status, net, todo, late, motors, commanded, planviz>>

Init ==
  /\ main = "parse" /\ status = "running" /\ listening = FALSE /\ server = "none"
  /\ protocols = {} /\ client = [p \in Paths |-> None] /\ conn = [c \in Clients |-> "new"]
  /\ todo = {} /\ late = {} /\ motors = FALSE /\ commanded = FALSE /\ planviz = NoServer

Goto(from, to) == main = from /\ main' = to
End(s) == status' = s /\ main' = "ended"

(***************************************************************************)
(* main                                                                    *)
(***************************************************************************)
ParseCommandLine(valid) ==
  /\ main = "parse"
  /\ IF valid THEN main' = "start" /\ UNCHANGED status ELSE End("EXIT_FAILURE")
  /\ UNCHANGED <<net, todo, late, motors, commanded, planviz>>
\* The thread ends with an error if it cannot listen; the rover goes on without a server.
Start(ok) ==
  /\ Goto("start", "world") /\ listening' = ok /\ server' = IF ok THEN "running" ELSE "ended"
  /\ UNCHANGED <<status, protocols, client, conn, todo, late, motors, commanded, planviz>>
\* Mistake: the protocol is added while the world is still to be initialised.
InitArduPilot_Both ==
  /\ Goto("world", "motors") /\ protocols' = {AP, MC}
  /\ UNCHANGED <<status, listening, server, client, conn, todo, late, motors, commanded, planviz>>
InitArduPilot ==
  /\ Goto("world", "motors") /\ protocols' = protocols \cup {AP}
  /\ UNCHANGED <<status, listening, server, client, conn, todo, late, motors, commanded, planviz>>
InitMotors ==
  /\ Goto("motors", "protocol") /\ motors' = TRUE
  /\ UNCHANGED <<status, net, todo, late, commanded, planviz>>
AddProtocol ==
  /\ Goto("protocol", "rospub") /\ protocols' = protocols \cup {MC}
  /\ UNCHANGED <<status, listening, server, client, conn, todo, late, motors, commanded, planviz>>
\* A port that is taken throws, which nobody catches.
InitRospub(ok) ==
  /\ main = "rospub"
  /\ IF ok THEN main' = "signal" /\ planviz' = 0 /\ UNCHANGED status
     ELSE End("SIGABRT") /\ UNCHANGED planviz
  /\ UNCHANGED <<net, todo, late, motors, commanded>>
InstallHandler ==
  /\ Goto("signal", "loop")
  /\ UNCHANGED <<status, net, todo, late, motors, commanded, planviz>>

(***************************************************************************)
(* SIGINT: until its handler is installed it ends the process, although a  *)
(* client may drive; then it runs on the main thread, once.                *)
(***************************************************************************)
Interrupt ==
  /\ main \in {"parse", "start", "world", "motors", "protocol", "rospub", "signal"}
  /\ End("SIGINT") /\ UNCHANGED <<net, todo, late, motors, commanded, planviz>>
\* closeRover, with the robot's emergencyStop.
CloseRover ==
  /\ Goto("loop", "shutdown")
  /\ UNCHANGED <<status, net, todo, late, motors, commanded, planviz>>
ShutdownRospub ==
  /\ Goto("shutdown", "stop") /\ planviz' = NoServer
  /\ UNCHANGED <<status, net, todo, late, motors, commanded>>
\* Mistake: the server goes on taking connections.
Stop_Listening ==
  /\ Goto("stop", "close") /\ todo' = protocols
  /\ UNCHANGED <<status, net, late, motors, commanded, planviz>>
Stop ==
  /\ Goto("stop", "close") /\ todo' = protocols /\ listening' = FALSE
  /\ UNCHANGED <<status, server, protocols, client, conn, late, motors, commanded, planviz>>
Missed(p) == {c \in Clients :
                Endpoints[c] = p /\ conn[c] \in {"accepted", "open"} /\ client[p] # c}
\* Mistake: the client is forgotten and not closed.
CloseClient_Forgets(p) ==
  /\ main = "close" /\ p \in todo /\ todo' = todo \ {p} /\ client' = [client EXCEPT ![p] = None]
  /\ late' = late \cup Missed(p)
  /\ UNCHANGED <<main, status, listening, server, protocols, conn, motors, commanded, planviz>>
CloseClient(p) ==
  /\ main = "close" /\ p \in todo /\ todo' = todo \ {p} /\ client' = [client EXCEPT ![p] = None]
  /\ conn' = [c \in Clients |-> IF client[p] = c /\ conn[c] = "open" THEN "closing" ELSE conn[c]]
  /\ late' = late \cup Missed(p)
  /\ UNCHANGED <<main, status, listening, server, protocols, motors, commanded, planviz>>
\* Joins the server's thread; SIGTERM is not handled.
Join ==
  /\ main = "close" /\ todo = {} /\ server = "ended" /\ End("SIGTERM")
  /\ UNCHANGED <<net, todo, late, motors, commanded, planviz>>

(***************************************************************************)
(* The server's thread, and the clients.                                   *)
(***************************************************************************)
Serving == status = "running" /\ server = "running"
Validate(c) ==
  /\ Serving /\ listening /\ conn[c] = "new"
  /\ conn' = [conn EXCEPT ![c] = IF Endpoints[c] \in protocols /\ client[Endpoints[c]] = None
                                 THEN "accepted" ELSE "closed"]
  /\ UNCHANGED <<main, status, listening, server, protocols, client, todo, late, motors,
                 commanded, planviz>>
OnOpen(c) ==
  /\ Serving /\ conn[c] = "accepted"
  /\ conn' = [conn EXCEPT ![c] = "open"] /\ client' = [client EXCEPT ![Endpoints[c]] = c]
  /\ UNCHANGED <<main, status, listening, server, protocols, todo, late, motors, commanded,
                 planviz>>
OnMessage(c) ==
  /\ Serving /\ conn[c] = "open" /\ Endpoints[c] = MC /\ commanded' = TRUE
  /\ UNCHANGED <<main, status, net, todo, late, motors, planviz>>
\* The peer leaves, or the closing handshake is done or timed out.
OnClose(c) ==
  /\ Serving /\ conn[c] \in {"open", "closing"}
  /\ conn' = [conn EXCEPT ![c] = "closed"] /\ client' = [client EXCEPT ![Endpoints[c]] = None]
  /\ UNCHANGED <<main, status, listening, server, protocols, todo, late, motors, commanded,
                 planviz>>
Return ==
  /\ Serving /\ ~listening /\ \A c \in Clients : conn[c] \in {"new", "closed"}
  /\ server' = "ended"
  /\ UNCHANGED <<main, status, listening, protocols, client, conn, todo, late, motors, commanded,
                 planviz>>
\* onOpen and onClose of PlanVizServer; publish is never called.
View ==
  /\ status = "running" /\ planviz # NoServer /\ planviz' \in {0, 1}
  /\ UNCHANGED <<main, status, net, todo, late, motors, commanded>>

Main ==
  \/ (\E valid \in BOOLEAN : ParseCommandLine(valid)) \/ (\E ok \in BOOLEAN : Start(ok))
  \/ InitArduPilot \/ InitMotors \/ AddProtocol \/ (\E ok \in BOOLEAN : InitRospub(ok))
  \/ InstallHandler
Closing == ShutdownRospub \/ Stop \/ (\E p \in Paths : CloseClient(p)) \/ Join
Next ==
  \/ Main \/ Interrupt \/ CloseRover \/ Closing \/ Return \/ View
  \/ \E c \in Clients : Validate(c) \/ OnOpen(c) \/ OnMessage(c) \/ OnClose(c)
Spec == Init /\ [][Next]_vars
\* Threads are scheduled, a handshake is completed, and a connection being closed closes or
\* times out. A client does not have to leave.
FairSpec ==
  /\ Spec /\ WF_vars(Closing) /\ WF_vars(Return)
  /\ \A c \in Clients : WF_vars(OnOpen(c)) /\ WF_vars(conn[c] = "closing" /\ OnClose(c))

(***************************************************************************)
(* Properties.                                                             *)
(***************************************************************************)
\* The server accepts connections before the world is initialised, and yet no request
\* reaches motors that are not.
CommandsFindMotors == commanded => motors

\* Once SIGINT's handler runs the process ends, or it waits for a connection that stop()
\* did not close: one that was no endpoint's client when it looked, since its handshake was
\* under way or another's had taken its place.
ShutdownEnds ==
  main = "shutdown" ~> (status # "running" \/ [](\E c \in late : conn[c] = "open"))
=============================================================================
