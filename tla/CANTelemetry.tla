---------------------------- MODULE CANTelemetry ----------------------------
(***************************************************************************)
(* The receiving side of CAN/CAN.cpp: the thread that stores telemetry and *)
(* invokes callbacks, the threads that read telemetry, and those that add  *)
(* and remove callbacks. What runs under telemMapMutex or a device's mutex *)
(* is one step; telemetryCallbackMapMutex is held while callbacks run.     *)
(***************************************************************************)
EXTENDS Integers, FiniteSets

CONSTANTS Devices, Types,  \* devices on the bus, types of their telemetry
          Receivers,       \* threads in receiveThreadFn: initCAN starts one
          Clients,         \* threads that add a callback and remove it
          MaxPackets,      \* bound on the packets received, a natural number
          MaxCallbacks     \* bound on the callbacks ever added, a natural number

NoKey == <<>>
NoID == -1
Keys == Devices \X Types

VARIABLES telemMap,    \* the last value of every key, 0 when there is none
          callbacks,   \* telemetryCallbackMap: from ids to keys
          nextCallbackID,
          lock,        \* the receiver that holds telemetryCallbackMapMutex, if any
          packets,     \* packets so far; the number of a packet is its value
          pkt,         \* the packet of each receiver: [key, value, alert]
          rpc,         \* where each receiver is
          left,        \* the callbacks its loop has still to call
          calling,     \* the callback that it runs
          mine, cpc,   \* the callback of each client, and where the client is
          latest       \* history: the value of the last telemetry packet of a key

receiving == <<packets, pkt, rpc, left, calling, latest>>
clients == <<mine, cpc>>
vars == <<telemMap, callbacks, nextCallbackID, lock, receiving, clients>>

Init ==
  /\ telemMap = [k \in Keys |-> 0]
  /\ callbacks = [id \in {} |-> NoKey]
  /\ nextCallbackID = 0
  /\ lock = {}
  /\ packets = 0
  /\ pkt = [r \in Receivers |-> [key |-> NoKey, value |-> 0, alert |-> FALSE]]
  /\ rpc = [r \in Receivers |-> "read"]
  /\ left = [r \in Receivers |-> {}]
  /\ calling = [r \in Receivers |-> NoID]
  /\ mine = [c \in Clients |-> NoID]
  /\ cpc = [c \in Clients |-> "idle"]
  /\ latest = [k \in Keys |-> 0]

Goto(r, label) == rpc' = [rpc EXCEPT ![r] = label]

\* mapHasKey: the device has reported anything at all.
Known(device) == \E k \in Keys : k[1] = device /\ telemMap[k] # 0

\* getDeviceTelemetry, under both mutexes; 0 stands for an empty data point.
GetDeviceTelemetry(k) == IF Known(k[1]) THEN telemMap[k] ELSE 0

(***************************************************************************)
(* The receive thread: handleTelemetryPacket and limit alerts.             *)
(***************************************************************************)
\* Mistake: the callbacks run before the value is stored.
Receive_CallsFirst(r, key, alert) ==
  /\ rpc[r] = "read"
  /\ packets < MaxPackets
  /\ packets' = packets + 1
  /\ pkt' = [pkt EXCEPT ![r] = [key |-> key, value |-> packets + 1, alert |-> alert]]
  /\ latest' = IF alert THEN latest ELSE [latest EXCEPT ![key] = packets + 1]
  /\ Goto(r, "invoke")
  /\ UNCHANGED <<telemMap, callbacks, nextCallbackID, lock, left, calling, clients>>

\* A limit alert is not stored, only handed to the callbacks.
Receive(r, key, alert) ==
  /\ rpc[r] = "read"
  /\ packets < MaxPackets
  /\ packets' = packets + 1
  /\ pkt' = [pkt EXCEPT ![r] = [key |-> key, value |-> packets + 1, alert |-> alert]]
  /\ latest' = IF alert THEN latest ELSE [latest EXCEPT ![key] = packets + 1]
  /\ Goto(r, IF alert THEN "invoke" ELSE "has key")
  /\ UNCHANGED <<telemMap, callbacks, nextCallbackID, lock, left, calling, clients>>

HasKey(r) ==
  /\ rpc[r] = "has key"
  /\ Goto(r, IF Known(pkt[r].key[1]) THEN "assign" ELSE "emplace")
  /\ UNCHANGED <<telemMap, callbacks, nextCallbackID, lock, packets, pkt, left, calling,
                 latest, clients>>

\* Mistake: insert, which leaves the value of a type that is there already.
Assign_Insert(r) ==
  /\ rpc[r] = "assign"
  /\ telemMap' = IF telemMap[pkt[r].key] # 0 THEN telemMap
                 ELSE [telemMap EXCEPT ![pkt[r].key] = pkt[r].value]
  /\ Goto(r, "invoke")
  /\ UNCHANGED <<callbacks, nextCallbackID, lock, packets, pkt, left, calling, latest, clients>>

\* insert_or_assign into the map of the device.
Assign(r) ==
  /\ rpc[r] = "assign"
  /\ telemMap' = [telemMap EXCEPT ![pkt[r].key] = pkt[r].value]
  /\ Goto(r, "invoke")
  /\ UNCHANGED <<callbacks, nextCallbackID, lock, packets, pkt, left, calling, latest, clients>>

\* emplace of a new map, which does nothing when the device has one by now.
Emplace(r) ==
  /\ rpc[r] = "emplace"
  /\ telemMap' = IF Known(pkt[r].key[1]) THEN telemMap
                 ELSE [telemMap EXCEPT ![pkt[r].key] = pkt[r].value]
  /\ Goto(r, "invoke")
  /\ UNCHANGED <<callbacks, nextCallbackID, lock, packets, pkt, left, calling, latest, clients>>

Listeners(key) == {id \in DOMAIN callbacks : callbacks[id] = key}

\* Mistake: the callbacks are copied, and run without the mutex.
Invoke_Copies(r) ==
  /\ rpc[r] = "invoke"
  /\ lock = {}
  /\ left' = [left EXCEPT ![r] = Listeners(pkt[r].key)]
  /\ Goto(r, "loop")
  /\ UNCHANGED <<telemMap, callbacks, nextCallbackID, lock, packets, pkt, calling, latest,
                 clients>>

Invoke(r) ==
  /\ rpc[r] = "invoke"
  /\ lock = {}
  /\ lock' = {r}
  /\ left' = [left EXCEPT ![r] = Listeners(pkt[r].key)]
  /\ Goto(r, "loop")
  /\ UNCHANGED <<telemMap, callbacks, nextCallbackID, packets, pkt, calling, latest, clients>>

CallOne(r) ==
  /\ rpc[r] = "loop"
  /\ calling[r] = NoID
  /\ \E id \in left[r] :
       /\ calling' = [calling EXCEPT ![r] = id]
       /\ left' = [left EXCEPT ![r] = @ \ {id}]
  /\ UNCHANGED <<telemMap, callbacks, nextCallbackID, lock, packets, pkt, rpc, latest, clients>>

CallReturns(r) ==
  /\ calling[r] # NoID
  /\ calling' = [calling EXCEPT ![r] = NoID]
  /\ UNCHANGED <<telemMap, callbacks, nextCallbackID, lock, packets, pkt, rpc, left, latest,
                 clients>>

\* Mistake: the mutex is kept.
Finish_KeepsLock(r) ==
  /\ rpc[r] = "loop"
  /\ left[r] = {} /\ calling[r] = NoID
  /\ Goto(r, "read")
  /\ UNCHANGED <<telemMap, callbacks, nextCallbackID, lock, packets, pkt, left, calling,
                 latest, clients>>

Finish(r) ==
  /\ rpc[r] = "loop"
  /\ left[r] = {} /\ calling[r] = NoID
  /\ lock' = lock \ {r}
  /\ Goto(r, "read")
  /\ UNCHANGED <<telemMap, callbacks, nextCallbackID, packets, pkt, left, calling, latest,
                 clients>>

(***************************************************************************)
(* addDeviceTelemetryCallback and removeDeviceTelemetryCallback            *)
(***************************************************************************)

Add(c, key) ==
  /\ cpc[c] = "idle"
  /\ mine[c] = NoID
  /\ lock = {}
  /\ nextCallbackID < MaxCallbacks
  /\ nextCallbackID' = nextCallbackID + 1
  /\ callbacks' = [id \in DOMAIN callbacks \cup {nextCallbackID} |->
                     IF id = nextCallbackID THEN key ELSE callbacks[id]]
  /\ mine' = [mine EXCEPT ![c] = nextCallbackID]
  /\ UNCHANGED <<telemMap, lock, receiving, cpc>>

\* The client asks for the mutex.
CallRemove(c) ==
  /\ cpc[c] = "idle"
  /\ mine[c] # NoID
  /\ cpc' = [cpc EXCEPT ![c] = "removing"]
  /\ UNCHANGED <<telemMap, callbacks, nextCallbackID, lock, receiving, mine>>

Remove(c) ==
  /\ cpc[c] = "removing"
  /\ lock = {}
  /\ callbacks' = [id \in DOMAIN callbacks \ {mine[c]} |-> callbacks[id]]
  /\ mine' = [mine EXCEPT ![c] = NoID]
  /\ cpc' = [cpc EXCEPT ![c] = "idle"]
  /\ UNCHANGED <<telemMap, nextCallbackID, lock, receiving>>

Receiver(r) ==
  \/ HasKey(r) \/ Assign(r) \/ Emplace(r)
  \/ Invoke(r) \/ CallOne(r) \/ CallReturns(r) \/ Finish(r)

Next ==
  \/ \E r \in Receivers : Receiver(r) \/ \E key \in Keys, alert \in BOOLEAN : Receive(r, key, alert)
  \/ \E c \in Clients : CallRemove(c) \/ Remove(c) \/ \E key \in Keys : Add(c, key)

Spec == Init /\ [][Next]_vars
\* The threads are scheduled and the callbacks return. A client that waits for the
\* mutex gets it between two packets, which are milliseconds apart: SF.
FairSpec ==
  /\ Spec
  /\ \A r \in Receivers : WF_vars(Receiver(r))
  /\ \A c \in Clients : SF_vars(Remove(c))

(***************************************************************************)
(* Properties.                                                             *)
(***************************************************************************)
TypeOK ==
  /\ telemMap \in [Keys -> 0..MaxPackets] /\ latest \in [Keys -> 0..MaxPackets]
  /\ nextCallbackID \in 0..MaxCallbacks
  /\ DOMAIN callbacks \subseteq 0..nextCallbackID - 1
  /\ \A id \in DOMAIN callbacks : callbacks[id] \in Keys
  /\ lock \in SUBSET Receivers /\ Cardinality(lock) <= 1
  /\ \A r \in Receivers :
       /\ rpc[r] \in {"read", "has key", "assign", "emplace", "invoke", "loop"}
       /\ rpc[r] # "read" => pkt[r].key \in Keys /\ pkt[r].value \in 1..packets
       /\ calling[r] # NoID \/ left[r] # {} => rpc[r] = "loop"
  /\ \A c \in Clients : mine[c] \in {NoID} \cup DOMAIN callbacks

\* "Get the latest telemetry from a CAN device" (CAN.h:47): when the receive thread
\* waits for a packet, the map holds the last one of every device and type, however
\* many types a device reports.
LatestStored ==
  (\A r \in Receivers : rpc[r] = "read") => \A k \in Keys : GetDeviceTelemetry(k) = latest[k]

\* A callback that reads the telemetry it was called for finds it in the map.
CallbackSeesItsData ==
  \A r \in Receivers :
    calling[r] # NoID /\ ~pkt[r].alert => GetDeviceTelemetry(pkt[r].key) = pkt[r].value

\* Once removeDeviceTelemetryCallback has returned its callback does not run, nor is
\* it about to: what it refers to can be destroyed.
NoCallAfterRemove ==
  \A r \in Receivers : {calling[r]} \cup left[r] \subseteq DOMAIN callbacks \cup {NoID}

\* removeDeviceTelemetryCallback returns, although the receive thread takes the same
\* mutex for every packet and other threads take it too.
RemoveReturns == \A c \in Clients : cpc[c] = "removing" ~> cpc[c] = "idle"
=============================================================================
