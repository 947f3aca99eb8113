------------------------ MODULE WebSocketServerProofs ------------------------
(***************************************************************************)
(* One client at a time, with one heartbeat and one ping of its own, for   *)
(* any number of connections, until two handshakes overlap. What holds     *)
(* until then is no invariant of the specification: the history variable   *)
(* overlap guards it, and once it is set it stays.                         *)
(***************************************************************************)
EXTENDS WebSocketServer, TLAPS

Up == {"open", "gone"}

Typed ==
  /\ client \in Conns \cup {None}
  /\ conn \in [Conns -> {"new", "accepted", "open", "gone", "closed"}]
  /\ pc \in [Threads -> Labels]
  /\ cur \in Conns \cup {None}

\* At most one connection is accepted or up.
OneConnection ==
  \A c, d \in Conns :
    conn[c] \in {"accepted"} \cup Up /\ conn[d] \in {"accepted"} \cup Up => c = d

\* While the endpoint listens, the connection that is up is its client, except
\* inside onOpen and onClose.
ClientIsUp ==
  Listening /\ pc["server"] \notin {"open.lock", "close.remove", "close.reset"}
    => \A c \in Conns : conn[c] \in Up => client = c

\* onOpen and onClose handle a connection that is up.
HandlesUp ==
  /\ pc["server"] \in {"open.lock", "open.schedule", "open.emplace"}
       => cur \in Conns /\ conn[cur] \in Up
  /\ pc["server"] \in {"close.lock", "close.remove", "close.reset"}
       => cur \in Conns /\ conn[cur] \in Up

IInv == Typed /\ OneConnection /\ ClientIsUp /\ HandlesUp

LEMMA IInvInit == Init => IInv
BY DEF Init, IInv, Typed, OneConnection, ClientIsUp, HandlesUp, Up, Threads, Labels

LEMMA ServerKeepsIInv ==
  ASSUME IInv, Server, ~overlap'
  PROVE  IInv'
<1> USE ConnsAssumption DEF IInv, Typed, OneConnection, ClientIsUp, HandlesUp, Up,
        Listening, Threads, Labels,
        record, handshakes, Goto, At, Handle
<1>1. ASSUME NEW c \in Conns, Validate(c)
      PROVE  IInv'
  <2>1. /\ pc["server"] = "idle" /\ Listening /\ conn[c] = "new"
        /\ conn' = [conn EXCEPT ![c] = Accepts(c)]
        /\ UNCHANGED <<client, pc, cur>>
        /\ Accepts(c) = "accepted" => \A d \in Conns : conn[d] # "accepted"
    BY <1>1 DEF Validate
  <2>2. CASE client = None
    <3>1. Accepts(c) = "accepted" /\ \A d \in Conns : conn[d] \notin {"accepted"} \cup Up
      BY <2>1, <2>2 DEF Accepts
    <3>2. QED BY <2>1, <3>1
  <2>3. CASE client # None
    BY <2>1, <2>3 DEF Accepts
  <2>4. QED BY <2>2, <2>3
<1>2. ASSUME NEW c \in Conns, OnOpen(c)
      PROVE  IInv'
  BY <1>2 DEF OnOpen
<1>3. ASSUME NEW c \in Conns, OnClose(c)
      PROVE  IInv'
  BY <1>3 DEF OnClose
<1>4. ASSUME NEW c \in Conns, OnPong(c)
      PROVE  IInv'
  BY <1>4 DEF OnPong
<1>5. CASE OpenLock
  BY <1>5 DEF OpenLock
<1>6. CASE OpenSchedule
  BY <1>6 DEF OpenSchedule
<1>7. CASE OpenEmplace
  BY <1>7 DEF OpenEmplace
<1>8. CASE CloseLock
  BY <1>8 DEF CloseLock
<1>9. CASE CloseRemove
  BY <1>9 DEF CloseRemove
<1>10. CASE CloseReset
  BY <1>10 DEF CloseReset
<1>11. CASE PongLock
  BY <1>11 DEF PongLock
<1>12. CASE PongFeed
  BY <1>12 DEF PongFeed
<1>13. QED
  BY <1>1, <1>2, <1>3, <1>4, <1>5, <1>6, <1>7, <1>8, <1>9, <1>10, <1>11, <1>12
  DEF Server

LEMMA OthersKeepIInv ==
  ASSUME IInv, Next, ~Server
  PROVE  IInv'
<1> USE DEF IInv, Typed, OneConnection, ClientIsUp, HandlesUp, Up, Listening, Threads, Labels,
        record, handshakes, Goto, At, Die
<1>1. CASE Scheduler
  BY <1>1 DEF Scheduler, PopRemoved, EventDue, Ping
<1>2. ASSUME NEW c \in Conns, Gone(c)
      PROVE  IInv'
  BY <1>2 DEF Gone
<1>3. CASE TimedOut \/ CallbackReturns
  BY <1>3 DEF TimedOut, CallbackReturns
<1>4. CASE SendTest
  BY <1>4 DEF SendTest
<1>5. CASE SendValue
  BY <1>5 DEF SendValue
<1>6. CASE StopTest
  BY <1>6 DEF StopTest
<1>7. CASE StopClose
  BY <1>7 DEF StopClose
<1>8. CASE StopJoin
  BY <1>8 DEF StopJoin
<1>9. QED BY <1>1, <1>2, <1>3, <1>4, <1>5, <1>6, <1>7, <1>8 DEF Next

\* Handshakes that overlapped have overlapped.
LEMMA OverlapStays ==
  ASSUME [Next]_vars, overlap
  PROVE  overlap'
<1> USE DEF handshakes
<1>1. CASE UNCHANGED vars
  BY <1>1 DEF vars
<1>2. ASSUME NEW c \in Conns, Validate(c) \/ OnOpen(c) \/ OnClose(c) \/ OnPong(c) \/ Gone(c)
      PROVE  overlap'
  BY <1>2 DEF Validate, OnOpen, OnClose, OnPong, Gone
<1>3. CASE OpenLock \/ OpenSchedule \/ OpenEmplace \/ CloseLock \/ CloseRemove \/ CloseReset
  BY <1>3 DEF OpenLock, OpenSchedule, OpenEmplace, CloseLock, CloseRemove, CloseReset
<1>4. CASE PongLock \/ PongFeed \/ Scheduler \/ TimedOut \/ CallbackReturns
  BY <1>4 DEF PongLock, PongFeed, Scheduler, PopRemoved, EventDue, Ping, TimedOut,
              CallbackReturns
<1>5. CASE SendTest \/ SendValue \/ StopTest \/ StopClose \/ StopJoin
  BY <1>5 DEF SendTest, SendValue, StopTest, StopClose, StopJoin
<1>6. QED
  BY <1>1, <1>2, <1>3, <1>4, <1>5 DEF Next, Server

LEMMA IInvHolds == Spec => [](~overlap => IInv)
<1>1. Init => (~overlap => IInv)
  BY IInvInit
<1>2. (~overlap => IInv) /\ [Next]_vars => (~overlap => IInv)'
  <2> SUFFICES ASSUME ~overlap => IInv, [Next]_vars, ~overlap'
               PROVE  IInv'
    OBVIOUS
  <2>1. IInv
    BY OverlapStays
  <2>2. CASE UNCHANGED vars
    BY <2>1, <2>2 DEF vars, record, handshakes, IInv, Typed, OneConnection, ClientIsUp,
                      HandlesUp, Listening
  <2>3. QED BY <2>1, <2>2, ServerKeepsIInv, OthersKeepIInv
<1>3. QED BY <1>1, <1>2, PTL DEF Spec

\* Two connections are open together only where two handshakes overlapped: validate of the
\* one fell between validate and onOpen of the other. It is the only way, for any set of
\* connections and whatever the ping, the watchdog, the senders and stop() do.
THEOREM OneClientAtATime == Spec => []OnlyOverlapLetsTwoIn
<1>1. (~overlap => IInv) => OnlyOverlapLetsTwoIn
  BY DEF IInv, OneConnection, OnlyOverlapLetsTwoIn, SingleClient, Up
<1>2. QED BY IInvHolds, <1>1, PTL

(***************************************************************************)
(* The client's heartbeat and its ping.                                    *)
(***************************************************************************)
Live == events \ toRemove
InLock == {"open.schedule", "open.emplace", "close.remove", "close.reset", "pong.feed"}

\* The server thread owns the mutex of ProtocolData exactly in its locked sections.
MutexHeld ==
  /\ pd \in {"server", None}
  /\ pc["server"] \in InLock => pd = "server"
  /\ pd = "server" => pc["server"] \in InLock \cup {"terminated"}

\* The scheduled pings: the heartbeat's, or, within a locked section, the next one's.
PingsTracked ==
  /\ nextID \in Nat
  /\ events \subseteq 0..(nextID - 1)
  /\ toRemove \subseteq events
  /\ pd = None \/ pc["server"] \in {"open.schedule", "close.remove", "pong.feed"}
       => Live = heartbeat
  /\ pc["server"] = "open.emplace" => Live = {nextID - 1}
  /\ pc["server"] = "close.reset" => Live = {}

\* A heartbeat has its watchdog and, while the endpoint listens, its client; there is
\* none from the moment a connection is accepted until onOpen makes it.
ClientBeats ==
  /\ heartbeat = {} <=> wd = None
  /\ pc["server"] \in {"open.lock", "open.schedule", "open.emplace"} => heartbeat = {}
  /\ \A c \in Conns : conn[c] = "accepted" => heartbeat = {}
  /\ Listening /\ (pd = None \/ pc["server"] = "pong.feed")
       => (client = None <=> heartbeat = {})
  /\ Listening /\ pc["server"] \in {"open.schedule", "open.emplace"} => client # None
  /\ pc["server"] \in {"close.remove", "close.reset"} => client = None

Beats == MutexHeld /\ PingsTracked /\ ClientBeats

LEMMA BeatsInit == Init => Beats
BY DEF Init, Beats, MutexHeld, PingsTracked, ClientBeats, Live, InLock, Threads, Listening, None

LEMMA ServerKeepsBeats ==
  ASSUME IInv, Beats, Server
  PROVE  Beats'
<1> USE ConnsAssumption DEF IInv, Typed, OneConnection, HandlesUp, Up, Beats, MutexHeld,
        PingsTracked, ClientBeats, Live, InLock, Listening, Threads, Labels,
        record, scheduler, handshakes, Goto, At, Handle, None
<1>1. ASSUME NEW c \in Conns, Validate(c)
      PROVE  Beats'
  BY <1>1 DEF Validate, Accepts
<1>2. ASSUME NEW c \in Conns, OnOpen(c)
      PROVE  Beats'
  BY <1>2 DEF OnOpen
<1>3. ASSUME NEW c \in Conns, OnClose(c)
      PROVE  Beats'
  BY <1>3 DEF OnClose
<1>4. ASSUME NEW c \in Conns, OnPong(c)
      PROVE  Beats'
  BY <1>4 DEF OnPong
<1>5. CASE OpenLock
  BY <1>5 DEF OpenLock
<1>6. CASE OpenSchedule
  <2>1. Live = {} /\ nextID \notin toRemove
    BY <1>6 DEF OpenSchedule
  <2>2. Live' = {nextID}
    BY <1>6, <2>1 DEF OpenSchedule
  <2>3. PingsTracked'
    BY <1>6, <2>2 DEF OpenSchedule
  <2>4. QED BY <1>6, <2>3 DEF OpenSchedule
<1>7. CASE OpenEmplace
  BY <1>7 DEF OpenEmplace
<1>8. CASE CloseLock
  BY <1>8 DEF CloseLock
<1>9. CASE CloseRemove
  BY <1>9 DEF CloseRemove
<1>10. CASE CloseReset
  BY <1>10 DEF CloseReset
<1>11. CASE PongLock
  BY <1>11 DEF PongLock
<1>12. CASE PongFeed
  BY <1>12 DEF PongFeed
<1>13. QED
  BY <1>1, <1>2, <1>3, <1>4, <1>5, <1>6, <1>7, <1>8, <1>9, <1>10, <1>11, <1>12
  DEF Server

LEMMA OthersKeepBeats ==
  ASSUME IInv, Beats, Next, ~Server
  PROVE  Beats'
<1> USE ConnsAssumption DEF IInv, Typed, Beats, MutexHeld, PingsTracked, ClientBeats, Live,
        InLock, Listening, Threads, Labels, record, scheduler, handshakes, Goto, At, Die, None
<1>1. ASSUME NEW e \in events, PopRemoved(e)
      PROVE  Beats'
  BY <1>1 DEF PopRemoved
<1>2. ASSUME NEW e \in events, EventDue(e)
      PROVE  Beats'
  BY <1>2 DEF EventDue
<1>3. CASE Ping
  BY <1>3 DEF Ping
<1>4. ASSUME NEW c \in Conns, Gone(c)
      PROVE  Beats'
  BY <1>4 DEF Gone
<1>5. CASE TimedOut \/ CallbackReturns
  BY <1>5 DEF TimedOut, CallbackReturns
<1>6. CASE SendTest
  BY <1>6 DEF SendTest
<1>7. CASE SendValue
  BY <1>7 DEF SendValue
<1>8. CASE StopTest
  BY <1>8 DEF StopTest
<1>9. CASE StopClose
  BY <1>9 DEF StopClose
<1>10. CASE StopJoin
  BY <1>10 DEF StopJoin
<1>11. QED
  BY <1>1, <1>2, <1>3, <1>4, <1>5, <1>6, <1>7, <1>8, <1>9, <1>10 DEF Next, Scheduler

\* Until two handshakes overlap, the client, the heartbeat with its watchdog, and the ping
\* in the schedule of pingScheduler come and go together: no ping outlives its client,
\* for any number of connections, wherever the scheduler's and the watchdog's threads
\* are in onOpen and onClose.
THEOREM HeartbeatIsTheClients == Spec => []HeartbeatFollowsClient
<1>1. Init => (~overlap => Beats)
  BY BeatsInit
<1>2. (~overlap => IInv) /\ (~overlap => Beats) /\ [Next]_vars => (~overlap => Beats)'
  <2> SUFFICES ASSUME ~overlap => IInv, ~overlap => Beats, [Next]_vars, ~overlap'
               PROVE  Beats'
    OBVIOUS
  <2>1. IInv /\ Beats
    BY OverlapStays
  <2>2. CASE UNCHANGED vars
    BY <2>1, <2>2 DEF vars, record, scheduler, handshakes, Beats, MutexHeld, PingsTracked,
                      ClientBeats, Live, Listening
  <2>3. QED BY <2>1, <2>2, ServerKeepsBeats, OthersKeepBeats
<1>3. (~overlap => Beats) => HeartbeatFollowsClient
  BY DEF Beats, PingsTracked, ClientBeats, Live, HeartbeatFollowsClient
<1>4. QED BY IInvHolds, <1>1, <1>2, <1>3, PTL DEF Spec
=============================================================================
