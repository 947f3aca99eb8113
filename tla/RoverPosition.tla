--------------------------- MODULE RoverPosition ---------------------------
(***************************************************************************)
(* The readings of GPS and IMU (handlers of ArduPilotProtocol.cpp or of    *)
(* simulator_interface.cpp on the server's thread, DataPoint of data.h)    *)
(* and sendRoverPos, which reports them from the telemetry thread.         *)
(* A reading is its time and the number of the report it came with; the    *)
(* handlers of topics in Locked take the mutex that the readers take, the  *)
(* other ones write one part, then both, while readers may copy.           *)
(***************************************************************************)
EXTENDS Integers, Sequences

CONSTANTS Locked,     \* the topics written under the readers' mutex
          MaxReports, \* bound on the reports per topic
          MaxTime     \* bound on the clock

Topics == {"gps", "imu"}
None == <<>>
VARIABLES now,
          last,      \* the DataPoint of each topic: None or <<time, number>>
          writing,   \* the topic whose second part the handler has still to write
          reports,   \* history: from the numbers of each topic's reports to their times
          sender,    \* sendRoverPos: its next step
          imu, gps,  \* its local variables
          sent       \* the last message: what it tells and its recency
vars == <<now, last, writing, reports, sender, imu, gps, sent>>

Init ==
  /\ now = 0 /\ last = [t \in Topics |-> None] /\ writing = "none"
  /\ reports = [t \in Topics |-> <<>>]
  /\ sender = "imu" /\ imu = None /\ gps = None /\ sent = None

Tick == now < MaxTime /\ now' = now + 1
        /\ UNCHANGED <<last, writing, reports, sender, imu, gps, sent>>

Arrive(t) ==
  /\ writing = "none" /\ Len(reports[t]) < MaxReports
  /\ reports' = [reports EXCEPT ![t] = Append(@, now)]
  /\ UNCHANGED <<now, sender, imu, gps, sent>>
\* handleGPS and handleIMU of the simulator, handleGPSRequest of ArduPilot.
ReportLocked(t) ==
  /\ Arrive(t) /\ t \in Locked
  /\ last' = [last EXCEPT ![t] = <<now, Len(reports'[t])>>] /\ UNCHANGED writing
\* handleIMURequest of ArduPilot. The first report fills what was empty at once.
ReportUnlocked(t) ==
  /\ Arrive(t) /\ t \notin Locked
  /\ IF last[t] = None
     THEN last' = [last EXCEPT ![t] = <<now, Len(reports'[t])>>] /\ UNCHANGED writing
     ELSE /\ \E half \in {<<now, last[t][2]>>, <<last[t][1], Len(reports'[t])>>} :
               last' = [last EXCEPT ![t] = half]
          /\ writing' = t
WriteRest ==
  /\ writing # "none" /\ writing' = "none"
  /\ LET n == Len(reports[writing])
     IN last' = [last EXCEPT ![writing] = <<reports[writing][n], n>>]
  /\ UNCHANGED <<now, reports, sender, imu, gps, sent>>

\* getIMU and getGPS, which copy under the topic's mutex.
GetIMU == last["imu"]
GetGPS == last["gps"]
ReadIMU ==
  /\ sender = "imu" /\ sender' = "gps" /\ imu' = GetIMU
  /\ UNCHANGED <<now, last, writing, reports, gps, sent>>
ReadGPS ==
  /\ sender = "gps" /\ sender' = "send" /\ gps' = GetGPS
  /\ UNCHANGED <<now, last, writing, reports, imu, sent>>
\* Without an IMU reading nothing is sent; without a GPS reading the position is 0, 0.
\* Mistake: the recency is the IMU's.
Recency_IMU == now - imu[1]
Recency == IF gps = None \/ gps[1] >= imu[1] THEN now - imu[1] ELSE now - gps[1]
Send ==
  /\ sender = "send" /\ sender' = "imu"
  /\ sent' = IF imu = None THEN sent
             ELSE [gps |-> gps, imu |-> imu, recency |-> Recency, at |-> now]
  /\ UNCHANGED <<now, last, writing, reports, imu, gps>>

Next == Tick \/ (\E t \in Topics : ReportLocked(t) \/ ReportUnlocked(t)) \/ WriteRest \/ ReadIMU \/ ReadGPS \/ Send
Spec == Init /\ [][Next]_vars

\* The recency that is sent with a position does not make it more recent than its report
\* was, however reports and the two readings interleave: for the topics written under the
\* mutex.
RecencyIsHonest ==
  sent # None =>
    \A t \in Locked : LET reading == IF t = "gps" THEN sent.gps ELSE sent.imu IN
      reading # None => sent.at - reports[t][reading[2]] <= sent.recency
============================================================================
