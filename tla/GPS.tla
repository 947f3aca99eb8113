-------------------------------- MODULE GPS --------------------------------
(***************************************************************************)
(* Positions from GPS: gps_common_interface.cpp over the readGPSCoords of  *)
(* the build, which is the one of read_usb_gps.cpp (Source = "usb") or one *)
(* that copies the last reading under its mutex (ArduPilotInterface.cpp,   *)
(* simulator_interface.cpp). One thread reads; stack holds what its calls  *)
(* have still to do. A reading is its number, and 0 stands for none.       *)
(***************************************************************************)
EXTENDS Integers, Sequences

CONSTANTS Source, MaxReadings  \* bound on the readings

None == 0
Attempts == 10
VARIABLES device,     \* of startGPSThread: "off", "detecting", "failed" or "running"
          attempts,
          last,       \* the last reading with a fix
          held,       \* the reader holds gps_mutex
          stack,
          value,      \* what the last call returned; of gpsHasFix: None or the origin
          converter,  \* the origin of the map
          placed      \* the last position returned: the reading and the origin
reader == <<held, stack, value, converter, placed>>
vars == <<device, attempts, last, reader>>

Init ==
  /\ device = (IF Source = "usb" THEN "off" ELSE "running") /\ attempts = 0 /\ last = None
  /\ held = FALSE /\ stack = <<>> /\ value = None /\ converter = None /\ placed = <<None, None>>

(***************************************************************************)
(* The device's side.                                                      *)
(***************************************************************************)
StartGPSThread ==
  /\ device = "off" /\ device' \in {"detecting", "failed"}
  /\ UNCHANGED <<attempts, last, reader>>
\* What a wait for the device brings: a time-out, an error or a packet without or with
\* its status. Mistake: an error starts the count over.
DetectHardware_Restarts(news) ==
  /\ device = "detecting"
  /\ attempts' = CASE news = "error" -> 0 [] news = "no status" -> attempts + 1
                   [] OTHER -> attempts
  /\ device' = CASE news = "timeout" -> "failed" [] news = "status" -> "running"
                 [] OTHER -> IF attempts' = Attempts THEN "failed" ELSE "detecting"
  /\ UNCHANGED <<last, reader>>
DetectHardware(news) ==
  /\ device = "detecting"
  /\ attempts' = IF news \in {"timeout", "status"} THEN attempts ELSE attempts + 1
  /\ device' = CASE news = "timeout" -> "failed" [] news = "status" -> "running"
                 [] OTHER -> IF attempts' = Attempts THEN "failed" ELSE "detecting"
  /\ UNCHANGED <<last, reader>>
\* gps_loop, or the handler of GPS messages: a fix is stored under the mutex. Time-outs,
\* errors and packets with no fix change nothing; the last fix is kept.
StoreFix ==
  /\ device = "running" /\ ~held /\ last < MaxReadings
  /\ last' = last + 1 /\ UNCHANGED <<device, attempts, reader>>

(***************************************************************************)
(* The reader's side.                                                      *)
(***************************************************************************)
At(label) == stack # <<>> /\ Head(stack) = label
Continue(labels) == stack' = labels \o Tail(stack)
Call(f) ==
  /\ stack = <<>> /\ stack' = <<f>>
  /\ UNCHANGED <<device, attempts, last, held, value, converter, placed>>

ReadGPS ==
  /\ At("readGPS") /\ Continue(<<"readGPSCoords", "place">>)
  /\ UNCHANGED <<device, attempts, last, held, value, converter, placed>>
\* The first reading is the origin of the map. Mistake: every reading is.
Place_Anew ==
  /\ At("place") /\ Continue(<<>>) /\ value # None
  /\ converter' = value /\ placed' = <<value, converter'>>
  /\ UNCHANGED <<device, attempts, last, held, value>>
Place ==
  /\ At("place") /\ Continue(<<>>)
  /\ IF value = None THEN UNCHANGED <<converter, placed>>
     ELSE /\ converter' = IF converter = None THEN value ELSE converter
          /\ placed' = <<value, converter'>>
  /\ UNCHANGED <<device, attempts, last, held, value>>

GpsHasFix ==
  /\ At("gpsHasFix")
  /\ Continue(IF converter = None THEN <<"readGPS", "hasFix">> ELSE <<"hasFix">>)
  /\ UNCHANGED <<device, attempts, last, held, value, converter, placed>>
HasFix ==
  /\ At("hasFix") /\ Continue(<<>>) /\ value' = converter
  /\ UNCHANGED <<device, attempts, last, held, converter, placed>>

\* The one of read_usb_gps.cpp calls robot::gpsHasFix with gps_mutex locked; what it does
\* when that has returned, copy the reading and unlock, is never reached.
ReadGPSCoords ==
  /\ At("readGPSCoords")
  /\ IF Source = "usb"
     THEN ~held /\ held' = TRUE /\ Continue(<<"gpsHasFix", "copy">>) /\ UNCHANGED value
     ELSE Continue(<<>>) /\ value' = last /\ UNCHANGED held
  /\ UNCHANGED <<device, attempts, last, converter, placed>>
Reader == ReadGPS \/ Place \/ GpsHasFix \/ HasFix \/ ReadGPSCoords
Device == \E news \in {"timeout", "error", "no status", "status"} : DetectHardware(news)
Next ==
  \/ StartGPSThread \/ Device \/ StoreFix
  \/ (\E f \in {"readGPSCoords", "readGPS", "gpsHasFix"} : Call(f)) \/ Reader
Spec == Init /\ [][Next]_vars
\* The threads are scheduled, and a wait for the device ends after 5 seconds.
FairSpec == Spec /\ WF_vars(Reader) /\ WF_vars(Device)

(***************************************************************************)
(* Properties.                                                             *)
(***************************************************************************)
\* "The last GPS coordinates measured by the sensor, or empty if no fix"
\* (world_interface.h:325): a call that reads GPS returns, with or without a fix.
ReadReturns == stack # <<>> ~> stack = <<>>

\* Positions returned one after the other are points of one map and never go back in time,
\* although readings are stored while the calls are under way.
OneMap ==
  [][placed[2] # None => placed'[2] = placed[2] /\ placed'[1] >= placed[1]]_vars

\* startGPSThread tells whether the hardware is there, even when it only sends errors.
DetectionEnds == device = "detecting" ~> device # "detecting"
=============================================================================
