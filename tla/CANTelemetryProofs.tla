------------------------- MODULE CANTelemetryProofs -------------------------
(***************************************************************************)
(* The telemetry map and the callbacks of CANTelemetry, for any devices,   *)
(* types, clients and bounds. That a removed callback never runs holds for *)
(* any number of receivers; what the map holds needs the one that initCAN  *)
(* starts.                                                                 *)
(***************************************************************************)
EXTENDS CANTelemetry, TLAPS

OneReceiver == \A r, s \in Receivers : r = s

Storing == {"has key", "assign", "emplace"}

Typed ==
  /\ telemMap \in [Keys -> Nat] /\ latest \in [Keys -> Nat] /\ packets \in Nat
  /\ rpc \in [Receivers -> {"read", "invoke", "loop"} \cup Storing]
  /\ DOMAIN pkt = Receivers
  /\ \A r \in Receivers : rpc[r] # "read" => pkt[r].key \in Keys /\ pkt[r].value \in Nat

(***************************************************************************)
(* telemetryCallbackMapMutex, for any number of receivers.                 *)
(***************************************************************************)
\* A receiver that is in its loop holds the mutex, and only there has it callbacks to
\* call: those that are registered.
CallsRegistered ==
  /\ left \in [Receivers -> SUBSET DOMAIN callbacks]
  /\ calling \in [Receivers -> DOMAIN callbacks \cup {NoID}]
  /\ \A r \in Receivers : /\ rpc[r] = "loop" => lock = {r}
                          /\ rpc[r] # "loop" => left[r] = {} /\ calling[r] = NoID

IInv == Typed /\ CallsRegistered

LEMMA IInvInit == Init => IInv
BY DEF Init, IInv, Typed, CallsRegistered, Storing

LEMMA ReceiverKeepsIInv ==
  ASSUME IInv, NEW r \in Receivers, Receiver(r)
  PROVE  IInv'
<1> USE DEF IInv, Typed, CallsRegistered, Storing, Goto, clients
<1>1. CASE HasKey(r)
  BY <1>1 DEF HasKey
<1>2. CASE Assign(r)
  BY <1>2 DEF Assign
<1>3. CASE Emplace(r)
  BY <1>3 DEF Emplace
<1>4. CASE Invoke(r)
  BY <1>4 DEF Invoke, Listeners
<1>5. CASE CallOne(r)
  <2>1. PICK id \in left[r] : /\ calling' = [calling EXCEPT ![r] = id]
                              /\ left' = [left EXCEPT ![r] = left[r] \ {id}]
    BY <1>5 DEF CallOne
  <2>2. left' \in [Receivers -> SUBSET DOMAIN callbacks]
        /\ calling' \in [Receivers -> DOMAIN callbacks \cup {NoID}]
    BY <2>1
  <2>3. CallsRegistered'
    BY <1>5, <2>1, <2>2 DEF CallOne
  <2>4. QED BY <1>5, <2>3 DEF CallOne
<1>6. CASE CallReturns(r)
  BY <1>6 DEF CallReturns
<1>7. CASE Finish(r)
  BY <1>7 DEF Finish
<1>8. QED BY <1>1, <1>2, <1>3, <1>4, <1>5, <1>6, <1>7 DEF Receiver

LEMMA ReceiveKeepsIInv ==
  ASSUME IInv, NEW r \in Receivers, NEW key \in Keys, NEW alert \in BOOLEAN,
         Receive(r, key, alert)
  PROVE  IInv'
<1>a. packets \in Nat /\ packets' = packets + 1
  BY Zenon DEF IInv, Typed, Receive
<1>b. packets + 1 \in Nat
  BY <1>a
<1> USE DEF IInv, Typed, CallsRegistered, Storing, Receive, Goto, clients
<1>1. /\ pkt'[r].key = key /\ pkt'[r].value = packets + 1 /\ DOMAIN pkt' = Receivers
      /\ \A s \in Receivers \ {r} : pkt'[s] = pkt[s] /\ rpc'[s] = rpc[s]
  OBVIOUS
<1>2. /\ rpc' \in [Receivers -> {"read", "invoke", "loop"} \cup Storing]
      /\ rpc[r] = "read" /\ rpc'[r] \in {"invoke", "has key"}
  OBVIOUS
<1>3. packets' \in Nat
  BY <1>a, <1>b, Zenon
<1>4. latest' = latest \/ latest' = [latest EXCEPT ![key] = packets + 1]
  BY Zenon
<1>5. latest' \in [Keys -> Nat]
  BY <1>b, <1>4
<1>6. \A s \in Receivers : rpc'[s] # "read" => pkt'[s].key \in Keys /\ pkt'[s].value \in Nat
  BY <1>b, <1>1, <1>2
<1>7. Typed'
  BY <1>1, <1>2, <1>3, <1>5, <1>6
<1>8. CallsRegistered'
  BY <1>1, <1>2
<1>9. QED BY <1>7, <1>8

LEMMA ClientsKeepIInv ==
  ASSUME IInv, NEW c \in Clients, CallRemove(c) \/ Remove(c) \/ \E key \in Keys : Add(c, key)
  PROVE  IInv'
<1> USE DEF IInv, Typed, CallsRegistered, Storing, receiving
<1>1. CASE CallRemove(c)
  BY <1>1 DEF CallRemove
<1>2. CASE Remove(c)
  <2>1. \A r \in Receivers : rpc[r] # "loop"
    BY <1>2 DEF Remove
  <2>2. QED BY <1>2, <2>1 DEF Remove
<1>3. ASSUME NEW key \in Keys, Add(c, key)
      PROVE  IInv'
  <2>1. DOMAIN callbacks \subseteq DOMAIN callbacks'
    BY <1>3 DEF Add
  <2>2. QED BY <1>3, <2>1 DEF Add
<1>4. QED BY <1>1, <1>2, <1>3

LEMMA IInvStep == IInv /\ [Next]_vars => IInv'
<1>1. ASSUME IInv, UNCHANGED vars
      PROVE  IInv'
  BY <1>1 DEF vars, receiving, IInv, Typed, CallsRegistered
<1>2. QED BY <1>1, ReceiverKeepsIInv, ReceiveKeepsIInv, ClientsKeepIInv DEF Next

LEMMA IInvHolds == Spec => []IInv
<1>1. QED BY IInvInit, IInvStep, PTL DEF Spec

\* Once removeDeviceTelemetryCallback has returned, its callback neither runs nor is
\* about to, however many receivers and clients there are: they run and remove
\* callbacks under one mutex.
THEOREM RemovedIsNotCalled == Spec => []NoCallAfterRemove
<1>1. IInv => NoCallAfterRemove
  BY DEF IInv, CallsRegistered, NoCallAfterRemove
<1>2. QED BY IInvHolds, <1>1, PTL

(***************************************************************************)
(* The map, with one receiver.                                             *)
(***************************************************************************)
\* What getDeviceTelemetry returns is what the map holds: an unknown device has no
\* value of any type.
LEMMA GetIsMap ==
  ASSUME Typed, NEW k \in Keys
  PROVE  GetDeviceTelemetry(k) = telemMap[k]
BY DEF Typed, GetDeviceTelemetry, Known

\* Where the map and the history differ: in the packet's key, until it is stored. A
\* receiver that is about to emplace still knows nothing of the device.
MapFollows ==
  /\ (\A r \in Receivers : rpc[r] \notin Storing) => \A k \in Keys : telemMap[k] = latest[k]
  /\ \A r \in Receivers :
       /\ rpc[r] \in Storing =>
            /\ ~pkt[r].alert
            /\ \A k \in Keys \ {pkt[r].key} : telemMap[k] = latest[k]
       /\ rpc[r] # "read" /\ ~pkt[r].alert => latest[pkt[r].key] = pkt[r].value
       /\ rpc[r] = "emplace" => \A k \in Keys : k[1] = pkt[r].key[1] => telemMap[k] = 0

LEMMA ReceiverKeepsMap ==
  ASSUME OneReceiver, IInv, MapFollows, NEW r \in Receivers, Receiver(r)
  PROVE  MapFollows'
<1>a. Receivers = {r}
  BY DEF OneReceiver
<1> USE <1>a DEF IInv, Typed, CallsRegistered, MapFollows, Storing, Goto, clients
<1>1. CASE HasKey(r)
  <2>1. /\ rpc[r] = "has key" /\ UNCHANGED <<telemMap, pkt, latest>>
        /\ rpc' = [rpc EXCEPT ![r] = IF Known(pkt[r].key[1]) THEN "assign" ELSE "emplace"]
    BY <1>1 DEF HasKey
  <2>2. rpc'[r] \in {"assign", "emplace"}
    BY <2>1
  <2>3. rpc'[r] = "emplace" => \A k \in Keys : k[1] = pkt[r].key[1] => telemMap[k] = 0
    <3>1. rpc'[r] = "emplace" => ~Known(pkt[r].key[1])
      BY <2>1
    <3>2. QED BY <3>1 DEF Known
  <2>4. QED BY <2>1, <2>2, <2>3
<1>2. CASE Assign(r)
  BY <1>2 DEF Assign
<1>3. CASE Emplace(r)
  <2>1. telemMap' = [telemMap EXCEPT ![pkt[r].key] = pkt[r].value]
    BY <1>3 DEF Emplace, Known
  <2>2. QED BY <1>3, <2>1 DEF Emplace
<1>4. CASE Invoke(r)
  BY <1>4 DEF Invoke
<1>5. CASE CallOne(r)
  BY <1>5 DEF CallOne
<1>6. CASE CallReturns(r)
  BY <1>6 DEF CallReturns
<1>7. CASE Finish(r)
  BY <1>7 DEF Finish
<1>8. QED BY <1>1, <1>2, <1>3, <1>4, <1>5, <1>6, <1>7 DEF Receiver

LEMMA ReceiveKeepsMap ==
  ASSUME OneReceiver, IInv, MapFollows, NEW r \in Receivers, NEW key \in Keys,
         NEW alert \in BOOLEAN, Receive(r, key, alert)
  PROVE  MapFollows'
<1>a. Receivers = {r}
  BY DEF OneReceiver
<1> USE <1>a DEF IInv, Typed, MapFollows, Storing, Goto, clients
<1>1. CASE alert = TRUE
  BY <1>1 DEF Receive
<1>2. CASE alert = FALSE
  BY <1>2 DEF Receive
<1>3. QED BY <1>1, <1>2

LEMMA ClientsKeepMap ==
  ASSUME MapFollows, NEW c \in Clients, CallRemove(c) \/ Remove(c) \/ \E key \in Keys : Add(c, key)
  PROVE  MapFollows'
<1>1. UNCHANGED <<telemMap, latest, rpc, pkt>>
  BY DEF CallRemove, Remove, Add, receiving
<1>2. QED BY <1>1 DEF MapFollows

LEMMA MapFollowsHolds ==
  ASSUME OneReceiver
  PROVE  Spec => []MapFollows
<1>1. Init => MapFollows
  BY DEF Init, MapFollows, Storing
<1>2. IInv /\ MapFollows /\ [Next]_vars => MapFollows'
  <2>1. ASSUME MapFollows, UNCHANGED vars
        PROVE  MapFollows'
    BY <2>1 DEF vars, receiving, MapFollows, Known
  <2>2. QED BY <2>1, ReceiverKeepsMap, ReceiveKeepsMap, ClientsKeepMap DEF Next
<1>3. QED BY IInvHolds, <1>1, <1>2, PTL DEF Spec

\* With the one receive thread that initCAN starts, the map holds the last value of every
\* device and type whenever that thread waits for a packet, whether the value created the
\* device's map or replaced one in it.
THEOREM LatestIsStored ==
  ASSUME OneReceiver
  PROVE  Spec => []LatestStored
<1>1. IInv /\ MapFollows => LatestStored
  BY GetIsMap DEF IInv, MapFollows, Storing, LatestStored
<1>2. QED BY IInvHolds, MapFollowsHolds, <1>1, PTL

\* With that one thread, a callback that reads the telemetry it is called for finds it.
THEOREM CallbacksSeeTheirData ==
  ASSUME OneReceiver
  PROVE  Spec => []CallbackSeesItsData
<1>1. OneReceiver /\ IInv /\ MapFollows => CallbackSeesItsData
  <2>1. SUFFICES ASSUME OneReceiver, IInv, MapFollows, NEW r \in Receivers,
                        calling[r] # NoID, ~pkt[r].alert
                 PROVE  GetDeviceTelemetry(pkt[r].key) = pkt[r].value
    BY DEF CallbackSeesItsData
  <2>2. rpc[r] = "loop" /\ \A s \in Receivers : s = r
    BY <2>1 DEF OneReceiver, IInv, CallsRegistered
  <2>3. pkt[r].key \in Keys /\ telemMap[pkt[r].key] = latest[pkt[r].key]
    BY <2>1, <2>2 DEF IInv, Typed, MapFollows, Storing
  <2>4. QED BY <2>1, <2>2, <2>3, GetIsMap DEF IInv, MapFollows
<1>2. QED BY IInvHolds, MapFollowsHolds, <1>1, PTL
=============================================================================
