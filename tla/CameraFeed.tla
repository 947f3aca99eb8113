----------------------------- MODULE CameraFeed -----------------------------
(***************************************************************************)
(* camera/Camera.cpp: a camera, the thread that captures its frames, and   *)
(* the threads that poll it for new ones; and openCamera of the real rover,*)
(* which reads its configuration and keeps it if it opens. A frame is told *)
(* by its number, counted by the device; what became of the frame number   *)
(* and the time of one store is told by the frame they belong to.          *)
(***************************************************************************)
EXTENDS Integers

CONSTANTS Readers, MaxFrames  \* bound on the frames

None == "none"
VARIABLES phase,      \* "new", "open", "closed", "destroying", "joining", "gone" or "died"
          opened,     \* the device is open
          mapped,     \* the camera is in cameraMap
          running,    \* *_running
          thread,     \* the capturing thread: None, "set", "test", "read", "store", "count", "ended"
          captured,   \* the last frame that the device gave
          frame, frameNum, frameTime,  \* *_frame, *_frame_num, *_frame_time
          frameLock,
          reader      \* each reader: where it is, the number it polls with, what it copies
feed == <<captured, frame, frameNum, frameTime>>
vars == <<phase, opened, mapped, running, thread, feed, frameLock, reader>>

Init ==
  /\ phase = "new" /\ opened = FALSE /\ mapped = FALSE /\ running = FALSE /\ thread = None
  /\ captured = 0 /\ frame = 0 /\ frameNum = 0 /\ frameTime = 0 /\ frameLock = None
  /\ reader = [r \in Readers |-> [at |-> "idle", last |-> 0, frame |-> 0, num |-> 0, time |-> 0]]

(***************************************************************************)
(* Opening.                                                                *)
(***************************************************************************)
Configs == [file : BOOLEAN, intrinsics : {"absent", "valid", "invalid"},
            extrinsics : {"absent", "4x4", "other"}, name : BOOLEAN, source : BOOLEAN]
\* readConfigFromFile, which validates the intrinsic parameters and not the extrinsic ones.
Readable(cfg) == cfg.file /\ cfg.intrinsics # "invalid" /\ cfg.name /\ cfg.source
\* init: the thread starts, whether or not the device opened.
Started(cfg) == cfg.extrinsics # "other"
\* A device that opens with parameters that init throws at is closed with the camera.
Open(cfg, ok) ==
  IF Started(cfg) /\ ~running THEN running' = TRUE /\ opened' = ok /\ thread' = "set"
  ELSE UNCHANGED <<running, opened, thread>>
OpenFromConfigFile(cfg, ok) ==
  IF Readable(cfg) THEN Open(cfg, ok) ELSE UNCHANGED <<running, opened, thread>>
\* openCamera. The camera of a configuration that throws is destroyed without a thread; one
\* that does not open is destroyed with it.
OpenCamera(cfg, ok) ==
  /\ phase = "new" /\ OpenFromConfigFile(cfg, ok) /\ mapped' = opened'
  /\ phase' = CASE mapped' -> "open" [] running' /\ ~ok -> "destroying" [] OTHER -> "closed"
  /\ UNCHANGED <<feed, frameLock, reader>>
\* The constructors that take a file or an id: isOpen is TRUE afterwards in any case.
Construct(ok) ==
  /\ phase = "new" /\ phase' = "open" /\ opened' = ok /\ running' = TRUE /\ thread' = "set"
  /\ UNCHANGED <<mapped, feed, frameLock, reader>>

(***************************************************************************)
(* captureLoop. The frame is copied, and counted, under the frame's lock.  *)
(***************************************************************************)
Goto(label) == thread' = label
SetProperties ==
  /\ thread = "set" /\ Goto("test")
  /\ UNCHANGED <<phase, opened, mapped, running, feed, frameLock, reader>>
Test ==
  /\ thread = "test" /\ Goto(IF running THEN "read" ELSE "ended")
  /\ UNCHANGED <<phase, opened, mapped, running, feed, frameLock, reader>>
Capture(success) ==
  /\ thread = "read" /\ (success => opened /\ captured < MaxFrames)
  /\ Goto(IF success THEN "store" ELSE "test")
  /\ captured' = captured + (IF success THEN 1 ELSE 0)
  /\ UNCHANGED <<phase, opened, mapped, running, frame, frameNum, frameTime, frameLock, reader>>
StoreFrame ==
  /\ thread = "store" /\ frameLock = None /\ frameLock' = "thread" /\ Goto("count")
  /\ frame' = captured
  /\ UNCHANGED <<phase, opened, mapped, running, captured, frameNum, frameTime, reader>>
CountFrame ==
  /\ thread = "count" /\ frameLock' = None /\ Goto("test")
  /\ frameNum' = frameNum + 1 /\ frameTime' = captured
  /\ UNCHANGED <<phase, opened, mapped, running, captured, frame, reader>>
Thread == SetProperties \/ Test \/ (\E s \in BOOLEAN : Capture(s)) \/ StoreFrame \/ CountFrame

(***************************************************************************)
(* A reader polls hasNext with the last number it got, and then calls next.*)
(***************************************************************************)
HasNext(r) ==
  /\ phase = "open" /\ reader[r].at = "idle" /\ frameLock = None
  /\ reader' = [reader EXCEPT ![r].at = IF reader[r].last # frameNum THEN "next" ELSE "idle"]
  /\ UNCHANGED <<phase, opened, mapped, running, thread, feed, frameLock>>
IsOpen(r) ==
  /\ reader[r].at = "next"
  /\ reader' = [reader EXCEPT ![r].at = IF running THEN "frame" ELSE "idle"]
  /\ UNCHANGED <<phase, opened, mapped, running, thread, feed, frameLock>>
\* Mistake: the frame is copied before the lock is taken.
CopyFrame_Unlocked(r) ==
  /\ reader[r].at = "frame"
  /\ reader' = [reader EXCEPT ![r].at = "number", ![r].frame = frame]
  /\ UNCHANGED <<phase, opened, mapped, running, thread, feed, frameLock>>
CopyFrame(r) ==
  /\ reader[r].at = "frame" /\ frameLock = None /\ frameLock' = r
  /\ reader' = [reader EXCEPT ![r].at = "number", ![r].frame = frame]
  /\ UNCHANGED <<phase, opened, mapped, running, thread, feed>>
CopyNumber(r) ==
  /\ reader[r].at = "number" /\ frameLock' = None
  /\ reader' = [reader EXCEPT ![r].at = "idle", ![r].last = frameNum, ![r].num = frameNum,
                              ![r].time = frameTime]
  /\ UNCHANGED <<phase, opened, mapped, running, thread, feed>>
GetNext(r) == IsOpen(r) \/ CopyFrame(r) \/ CopyNumber(r)
\* The rover's threads find the camera in cameraMap; the programs that construct one hold it.
HasNewCameraFrame(r) == mapped /\ HasNext(r)
ReadCamera(r) == mapped /\ GetNext(r)
Read(r) ==
  HasNewCameraFrame(r) \/ ReadCamera(r) \/ (~mapped /\ (HasNext(r) \/ GetNext(r)))

(***************************************************************************)
(* The last object that shares the camera is destroyed: _running goes      *)
(* first, and then _thread, whose deleter still reads the flag. What it    *)
(* finds in the freed memory is either value; if it is FALSE the thread is *)
(* deleted without a join, which ends the program.                         *)
(***************************************************************************)
Release ==
  /\ phase = "open" /\ ~mapped /\ phase' = "destroying"
  /\ \A r \in Readers : reader[r].at = "idle"
  /\ UNCHANGED <<opened, mapped, running, thread, feed, frameLock, reader>>
\* Mistake: the thread is joined and not told to end.
Delete_JoinsOnly(flag) ==
  /\ phase = "destroying" /\ phase' = IF flag THEN "joining" ELSE "died"
  /\ UNCHANGED <<opened, mapped, running, thread, feed, frameLock, reader>>
Delete(flag) ==
  /\ phase = "destroying"
  /\ IF flag THEN phase' = "joining" /\ running' = FALSE
     ELSE phase' = "died" /\ UNCHANGED running
  /\ UNCHANGED <<opened, mapped, thread, feed, frameLock, reader>>
Join ==
  /\ phase = "joining" /\ thread = "ended" /\ phase' = "gone" /\ opened' = FALSE
  /\ UNCHANGED <<mapped, running, thread, feed, frameLock, reader>>
Destroy == (\E flag \in BOOLEAN : Delete(flag)) \/ Join

Next ==
  /\ phase # "died"
  /\ \/ \E cfg \in Configs, ok \in BOOLEAN : OpenCamera(cfg, ok)
     \/ (\E ok \in BOOLEAN : Construct(ok)) \/ Thread \/ (\E r \in Readers : Read(r))
     \/ Release \/ Destroy
Spec == Init /\ [][Next]_vars
\* Threads are scheduled, and reading from the device returns.
FairSpec == Spec /\ WF_vars(phase # "died" /\ Thread) /\ WF_vars(phase # "died" /\ Destroy)

(***************************************************************************)
(* Properties.                                                             *)
(***************************************************************************)
\* What next gives is one store: the frame with its own number and time ("the time at which
\* the frame was captured", Camera.h), although the thread stores on and others copy.
FramesAreWhole ==
  \A r \in Readers : reader[r].at = "idle" =>
    reader[r].num = reader[r].frame /\ reader[r].time = reader[r].frame

\* "To avoid getting duplicate frames" (Camera.h:44): a reader that polls gets newer
\* frames only.
NoDuplicates == [][\A r \in Readers : reader'[r].at = "idle" /\ reader[r].at = "number" =>
                     reader'[r].num > reader[r].last]_vars

\* Destroying a camera ends its thread and closes the device, unless it ends the program.
DestructionEnds == phase = "destroying" ~> phase \in {"gone", "died"}
=============================================================================
