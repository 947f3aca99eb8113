--------------------------- MODULE WebSocketServer ---------------------------
(***************************************************************************)
(* SingleClientWSServer with one endpoint: the record ProtocolData (client,*)
(* heartbeatInfo, mutex) and the threads that share it.                    *)
(*                                                                         *)
(*   server     validate, onOpen, onClose, onPong, one at a time           *)
(*   scheduler  the thread of pingScheduler, which runs the ping event     *)
(*              under scheduleMutex                                        *)
(*   watchdog   the one inside heartbeatInfo (module Watchdog)             *)
(*   sender     a telemetry or video thread inside sendRawString           *)
(*   main       stop(), called when the program is interrupted             *)
(*                                                                         *)
(* Messages change no state here: their handlers are module PowerRepeat.   *)
(***************************************************************************)
EXTENDS Integers, FiniteSets

CONSTANT Conns  \* the connections that are ever made

None == "none"
ASSUME ConnsAssumption == None \notin Conns

VARIABLES client, heartbeat,  \* of ProtocolData; {} or {the ping's event id}
          pd, sched,          \* the owners of its mutex and of scheduleMutex
          events, toRemove, nextID,  \* of pingScheduler
          conn,               \* where each connection is
          pc,                 \* where each thread is
          cur,                \* the connection the server thread handles
          wd,                 \* the watchdog
          overlap             \* history: were two connections accepted, and neither opened?

record == <<client, heartbeat>>
scheduler == <<sched, events, toRemove, nextID>>
handshakes == <<conn, overlap>>
vars == <<record, pd, scheduler, handshakes, pc, cur, wd>>

Threads == {"server", "scheduler", "sender", "main"}

Init ==
  /\ client = None
  /\ heartbeat = {}
  /\ pd = None
  /\ sched = None
  /\ events = {}
  /\ toRemove = {}
  /\ nextID = 0
  /\ conn = [c \in Conns |-> "new"]
  /\ pc = [t \in Threads |-> "idle"]
  /\ cur = None
  /\ wd = None
  /\ overlap = FALSE

Goto(t, label) == pc' = [pc EXCEPT ![t] = label]
At(t, label) == pc[t] = label
Die == pc' = [t \in Threads |-> "terminated"]
Listening == pc["main"] = "idle"

(***************************************************************************)
(* The client side, and websocketpp.                                       *)
(***************************************************************************)
\* An open connection ends: closed by the peer, or found broken.
Gone(c) ==
  /\ conn[c] = "open"
  /\ conn' = [conn EXCEPT ![c] = "gone"]
  /\ UNCHANGED <<record, pd, scheduler, pc, cur, wd, overlap>>

Handle(c, label) ==
  /\ At("server", "idle")
  /\ Goto("server", label)
  /\ cur' = c

(***************************************************************************)
(* validate: a connection is accepted if there is no client. It only       *)
(* becomes one in onOpen, which is another turn of the asio loop.          *)
(***************************************************************************)
\* Mistake: the endpoint takes every connection.
Accepts_Always(c) == "accepted"

Accepts(c) == IF client = None THEN "accepted" ELSE "closed"

Validate(c) ==
  /\ At("server", "idle")
  /\ Listening
  /\ conn[c] = "new"
  /\ conn' = [conn EXCEPT ![c] = Accepts(c)]
  /\ overlap' = (overlap \/ (Accepts(c) = "accepted" /\ \E d \in Conns : conn[d] = "accepted"))
  /\ UNCHANGED <<record, pd, scheduler, pc, cur, wd>>

(***************************************************************************)
(* onOpen                                                                  *)
(***************************************************************************)
OnOpen(c) ==
  /\ conn[c] = "accepted"
  /\ Handle(c, "open.lock")
  /\ conn' = [conn EXCEPT ![c] = "open"]
  /\ UNCHANGED <<record, pd, scheduler, wd, overlap>>

OpenLock ==
  /\ At("server", "open.lock")
  /\ pd = None
  /\ pd' = "server"
  /\ client' = cur
  /\ Goto("server", "open.schedule")
  /\ UNCHANGED <<heartbeat, scheduler, handshakes, cur, wd>>

\* pingScheduler.scheduleEvent
OpenSchedule ==
  /\ At("server", "open.schedule")
  /\ sched = None
  /\ events' = events \cup {nextID}
  /\ nextID' = nextID + 1
  /\ Goto("server", "open.emplace")
  /\ UNCHANGED <<record, pd, sched, toRemove, handshakes, cur, wd>>

\* optional::emplace destroys, hence joins, a watchdog that is still there. Then
\* clientConnected, and the end of the lock.
OpenEmplace ==
  /\ At("server", "open.emplace")
  /\ wd # "callback"
  /\ heartbeat' = {nextID - 1}
  /\ wd' = "armed"
  /\ pd' = None
  /\ Goto("server", "idle")
  /\ UNCHANGED <<client, scheduler, handshakes, cur>>

(***************************************************************************)
(* onClose                                                                 *)
(***************************************************************************)
OnClose(c) ==
  /\ conn[c] = "gone"
  /\ Handle(c, "close.lock")
  /\ UNCHANGED <<record, pd, scheduler, handshakes, wd>>

CloseLock ==
  /\ At("server", "close.lock")
  /\ pd = None
  /\ client' = None
  /\ IF heartbeat # {}
     THEN pd' = "server" /\ Goto("server", "close.remove") /\ UNCHANGED conn
     ELSE Goto("server", "idle") /\ conn' = [conn EXCEPT ![cur] = "closed"] /\ UNCHANGED pd
  /\ UNCHANGED <<heartbeat, scheduler, cur, wd, overlap>>

\* Mistake: the watchdog goes, its ping stays scheduled.
CloseRemove_Forgotten ==
  /\ At("server", "close.remove")
  /\ Goto("server", "close.reset")
  /\ UNCHANGED <<record, pd, scheduler, handshakes, cur, wd>>

\* pingScheduler.removeEvent
CloseRemove ==
  /\ At("server", "close.remove")
  /\ sched = None
  /\ toRemove' = toRemove \cup heartbeat
  /\ Goto("server", "close.reset")
  /\ UNCHANGED <<record, pd, sched, events, nextID, handshakes, cur, wd>>

\* Mistake: the heartbeat is not reset.
CloseReset_Kept ==
  /\ At("server", "close.reset")
  /\ pd' = None
  /\ conn' = [conn EXCEPT ![cur] = "closed"]
  /\ Goto("server", "idle")
  /\ UNCHANGED <<record, scheduler, cur, wd, overlap>>

\* heartbeatInfo.reset() joins the watchdog; then clientDisconnected.
CloseReset ==
  /\ At("server", "close.reset")
  /\ wd # "callback"
  /\ heartbeat' = {}
  /\ wd' = None
  /\ pd' = None
  /\ conn' = [conn EXCEPT ![cur] = "closed"]
  /\ Goto("server", "idle")
  /\ UNCHANGED <<client, scheduler, cur, overlap>>

(***************************************************************************)
(* onPong: the payload names the endpoint, not the connection.             *)
(***************************************************************************)
OnPong(c) ==
  /\ conn[c] = "open"
  /\ Handle(c, "pong.lock")
  /\ UNCHANGED <<record, pd, scheduler, handshakes, wd>>

PongLock ==
  /\ At("server", "pong.lock")
  /\ pd = None
  /\ pd' = "server"
  /\ Goto("server", "pong.feed")
  /\ UNCHANGED <<record, scheduler, handshakes, cur, wd>>

\* feed() waits for the watchdog's callback to return.
PongFeed ==
  /\ At("server", "pong.feed")
  /\ wd # "callback"
  /\ wd' = IF wd = "starved" THEN "armed" ELSE wd
  /\ pd' = None
  /\ Goto("server", "idle")
  /\ UNCHANGED <<record, scheduler, handshakes, cur>>

(***************************************************************************)
(* The scheduler thread (PeriodicScheduler::threadFn) and its ping event.  *)
(***************************************************************************)
PopRemoved(e) ==
  /\ At("scheduler", "idle")
  /\ sched = None
  /\ e \in events \cap toRemove
  /\ events' = events \ {e}
  /\ toRemove' = toRemove \ {e}
  /\ UNCHANGED <<record, pd, sched, nextID, handshakes, pc, cur, wd>>

EventDue(e) ==
  /\ At("scheduler", "idle")
  /\ sched = None
  /\ e \in events \ toRemove
  /\ sched' = "scheduler"
  /\ Goto("scheduler", "ping")
  /\ UNCHANGED <<record, pd, events, toRemove, nextID, handshakes, cur, wd>>

\* The event's lambda: a ping to the client if there is one.
Ping ==
  /\ At("scheduler", "ping")
  /\ pd = None
  /\ sched' = None
  /\ Goto("scheduler", "idle")
  /\ UNCHANGED <<record, pd, events, toRemove, nextID, handshakes, cur, wd>>

(***************************************************************************)
(* The watchdog: its timeout, and the return of heartbeatTimedOut.         *)
(***************************************************************************)
TimedOut ==
  /\ wd = "armed"
  /\ wd' = "callback"
  /\ UNCHANGED <<record, pd, scheduler, handshakes, pc, cur>>

CallbackReturns ==
  /\ wd = "callback"
  /\ wd' = "starved"
  /\ UNCHANGED <<record, pd, scheduler, handshakes, pc, cur>>

(***************************************************************************)
(* sendRawString and stop read client without its mutex, twice.            *)
(***************************************************************************)
SendTest ==
  /\ At("sender", "idle")
  /\ client # None
  /\ Goto("sender", "send")
  /\ UNCHANGED <<record, pd, scheduler, handshakes, cur, wd>>

\* client.value() of an empty optional throws on a thread that does not catch.
SendValue ==
  /\ At("sender", "send")
  /\ IF client = None THEN Die ELSE Goto("sender", "idle")
  /\ UNCHANGED <<record, pd, scheduler, handshakes, cur, wd>>

StopTest ==
  /\ At("main", "idle")
  /\ Goto("main", IF client = None THEN "join" ELSE "close")
  /\ UNCHANGED <<record, pd, scheduler, handshakes, cur, wd>>

StopClose ==
  /\ At("main", "close")
  /\ IF client = None
     THEN Die /\ UNCHANGED <<client, conn>>
     ELSE /\ conn' = [conn EXCEPT ![client] = IF @ = "open" THEN "gone" ELSE @]
          /\ client' = None
          /\ Goto("main", "join")
  /\ UNCHANGED <<heartbeat, pd, scheduler, cur, wd, overlap>>

\* server.run() returns when the last connection is gone.
StopJoin ==
  /\ At("main", "join")
  /\ At("server", "idle")
  /\ \A c \in Conns : conn[c] \in {"new", "closed"}
  /\ pc' = [pc EXCEPT !["main"] = "stopped", !["server"] = "stopped"]
  /\ UNCHANGED <<record, pd, scheduler, handshakes, cur, wd>>

Server ==
  \/ \E c \in Conns : Validate(c) \/ OnOpen(c) \/ OnClose(c) \/ OnPong(c)
  \/ OpenLock \/ OpenSchedule \/ OpenEmplace
  \/ CloseLock \/ CloseRemove \/ CloseReset
  \/ PongLock \/ PongFeed

Scheduler == (\E e \in events : PopRemoved(e) \/ EventDue(e)) \/ Ping

Next ==
  \/ Server \/ Scheduler
  \/ \E c \in Conns : Gone(c)
  \/ TimedOut \/ CallbackReturns
  \/ SendTest \/ SendValue
  \/ StopTest \/ StopClose \/ StopJoin

Spec == Init /\ [][Next]_vars

(***************************************************************************)
(* Properties.                                                             *)
(***************************************************************************)
Labels == {"idle", "open.lock", "open.schedule", "open.emplace", "close.lock",
           "close.remove", "close.reset", "pong.lock", "pong.feed", "ping", "send",
           "close", "join", "stopped", "terminated"}

TypeOK ==
  /\ overlap \in BOOLEAN
  /\ client \in Conns \cup {None}
  /\ Cardinality(heartbeat) <= 1
  /\ pd \in {"server", None}
  /\ sched \in {"scheduler", None}
  /\ nextID \in 0..Cardinality(Conns)
  /\ events \cup toRemove \cup heartbeat \subseteq 0..nextID - 1
  /\ conn \in [Conns -> {"new", "accepted", "open", "gone", "closed"}]
  /\ pc \in [Threads -> Labels]
  /\ cur \in Conns \cup {None}
  /\ wd \in {"armed", "callback", "starved", None}

\* "A WebSocket server class that only accepts a single client at a time to each endpoint"
\* (WebSocketServer.h:25): no two connections are open. It is not so where handshakes overlap.
SingleClient ==
  \A c, d \in Conns : conn[c] \in {"open", "gone"} /\ conn[d] \in {"open", "gone"} => c = d

\* Two connections are open only where two handshakes overlapped: nothing else, no close, no
\* refusal and no stop in the midst of them, lets a second client in.
OnlyOverlapLetsTwoIn == ~overlap => SingleClient

\* Unless handshakes overlapped, outside the mutex there is a client exactly while there is a
\* heartbeat, with its watchdog, until stop() forgets the client; and no ping outlives the
\* client it was scheduled for: every event in the schedule is the heartbeat's or marked for
\* removal, and only scheduled events are marked.
HeartbeatFollowsClient ==
  ~overlap =>
    /\ pd = None /\ Listening
         => /\ client = None <=> heartbeat = {}
            /\ heartbeat = {} <=> wd = None
    /\ pd = None => events \ toRemove = heartbeat
    /\ toRemove \subseteq events

\* The thread that thread t waits for.
BlockedBy(t) ==
  CASE pc[t] \in {"open.lock", "close.lock", "pong.lock", "ping"} -> pd
    [] pc[t] \in {"open.schedule", "close.remove"} -> sched
    [] OTHER -> None

\* "The function to call when the event is executed. This should not block"
\* (scheduler.h:97): the ping does not wait for a thread that waits for the scheduler.
NoDeadlock ==
  ~ \E t, u \in Threads : BlockedBy(t) = u /\ BlockedBy(u) = t
=============================================================================
