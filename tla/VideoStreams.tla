---------------------------- MODULE VideoStreams ----------------------------
(***************************************************************************)
(* The cameras' frames and the streams of MissionControlProtocol: the      *)
(* server's thread opens and closes streams under _stream_mutex and, in    *)
(* the simulator, stores the frames; videoStreamTask holds the mutex       *)
(* shared through each of its passes; the main thread destroys the         *)
(* protocol. Frames are numbered per camera, from FirstFrame on.           *)
(***************************************************************************)
EXTENDS Integers, FiniteSets, Functions

CONSTANTS Cams,
          FirstFrame,  \* 0 in the simulator, 1 for Camera
          MaxFrames    \* bound on the number of a frame

VARIABLES latest,      \* the number of the last frame of each camera, or NoFrame
          openStreams, \* _open_streams: from open streams to the frame last sent
          encoders,    \* the cameras in _camera_encoders
          server,      \* what the server's thread is about to do under the mutex
          streamer, left, cam,  \* videoStreamTask: next step, streams left, stream
          running, destroyer    \* _streaming_running, the destructor
task == <<streamer, left, cam>>
vars == <<latest, openStreams, encoders, server, task, running, destroyer>>

NoFrame == -1
Idle == <<"idle">>

Init ==
  /\ latest = [c \in Cams |-> NoFrame]
  /\ openStreams = [c \in {} |-> 0] /\ encoders = {}
  /\ server = Idle /\ streamer = "top" /\ left = {} /\ cam = CHOOSE c \in Cams : TRUE
  /\ running = TRUE /\ destroyer = "none"

\* handleCamFrame in the simulator, captureLoop for a camera.
NewFrame(c) ==
  /\ FirstFrame = 0 => server = Idle
  /\ latest[c] < MaxFrames
  /\ latest' = [latest EXCEPT ![c] = IF @ = NoFrame THEN FirstFrame ELSE @ + 1]
  /\ UNCHANGED <<openStreams, encoders, server, task, running, destroyer>>

\* A request for a camera that getCameras does not name is ignored. Requests says what
\* happens to one that gives no fps.
OpenRequest(c) ==
  /\ server = Idle /\ FirstFrame = 0 => latest[c] # NoFrame
  /\ server' = <<"open", c>>
  /\ UNCHANGED <<latest, openStreams, encoders, task, running, destroyer>>
CloseRequest(c) ==
  /\ server = Idle /\ server' = <<"close", c>>
  /\ UNCHANGED <<latest, openStreams, encoders, task, running, destroyer>>
LastSentAtOpen(c) == 0
StreamsWithout(c) == Restrict(openStreams, DOMAIN openStreams \ {c})
UnderLock ==
  /\ server # Idle /\ streamer = "top" /\ server' = Idle
  /\ LET c == server[2] IN
       IF server[1] = "open"
       THEN /\ openStreams' = [d \in DOMAIN openStreams \cup {c} |->
                                 IF d = c THEN LastSentAtOpen(c) ELSE openStreams[d]]
            /\ encoders' = encoders \cup {c}
       ELSE openStreams' = StreamsWithout(c) /\ encoders' = encoders \ {c}
  /\ UNCHANGED <<latest, task, running, destroyer>>

(***************************************************************************)
(* videoStreamTask.                                                        *)
(***************************************************************************)
\* Mistake: the flag is not tested.
BeginPass_Always ==
  /\ streamer = "top" /\ streamer' = "pass" /\ left' = DOMAIN openStreams
  /\ UNCHANGED <<latest, openStreams, encoders, server, cam, running, destroyer>>
BeginPass ==
  /\ streamer = "top"
  /\ IF running THEN streamer' = "pass" /\ left' = DOMAIN openStreams
     ELSE streamer' = "exited" /\ left' = {}
  /\ UNCHANGED <<latest, openStreams, encoders, server, cam, running, destroyer>>
\* The rest of the streams is left when streaming should stop.
Rest(c) == IF running THEN left \ {c} ELSE {}
\* Mistake: any frame is new.
HasNewCameraFrame_Any(c) == latest[c] # NoFrame
HasNewCameraFrame(c) == latest[c] # NoFrame /\ latest[c] # openStreams[c]
Check(c) ==
  /\ streamer = "pass" /\ c \in left
  /\ IF HasNewCameraFrame(c) THEN streamer' = "send" /\ cam' = c /\ UNCHANGED left
     ELSE left' = Rest(c) /\ UNCHANGED <<streamer, cam>>
  /\ UNCHANGED <<latest, openStreams, encoders, server, running, destroyer>>
\* The frame is read again: there may be a newer one by now.
ReadCamera(c) == latest[c]
Send ==
  /\ streamer = "send" /\ streamer' = "pass"
  /\ openStreams' = [openStreams EXCEPT ![cam] = ReadCamera(cam)]
  /\ left' = Rest(cam)
  /\ UNCHANGED <<latest, encoders, server, cam, running, destroyer>>
EndPass ==
  /\ streamer = "pass" /\ left = {} /\ streamer' = "top"
  /\ UNCHANGED <<latest, openStreams, encoders, server, left, cam, running, destroyer>>

Destroy ==
  /\ destroyer = "none" /\ destroyer' = "joining" /\ running' = FALSE
  /\ UNCHANGED <<latest, openStreams, encoders, server, task>>
Joined ==
  /\ destroyer = "joining" /\ streamer = "exited" /\ destroyer' = "done"
  /\ UNCHANGED <<latest, openStreams, encoders, server, task, running>>

Streamer == BeginPass \/ (\E c \in Cams : Check(c)) \/ Send \/ EndPass
Next ==
  \/ \E c \in Cams : NewFrame(c) \/ OpenRequest(c) \/ CloseRequest(c)
  \/ UnderLock \/ Streamer \/ Destroy \/ Joined
\* The threads are scheduled.
Spec == Init /\ [][Next]_vars /\ WF_vars(Streamer) /\ WF_vars(Joined)

(***************************************************************************)
(* Properties.                                                             *)
(***************************************************************************)
\* A frame that is sent is newer than the last one of its stream, and there is an encoder
\* for it, although streams are opened and closed while the task is between passes.
SendsNewFrames == [][Send => latest[cam] > openStreams[cam] /\ cam \in encoders]_vars

\* While a stream stays open the last frame of its camera is sent, frame 0 excepted.
LatestFrameSent ==
  \A c \in Cams, n \in 1..MaxFrames :
    (latest[c] = n /\ c \in DOMAIN openStreams)
      ~> (c \notin DOMAIN openStreams \/ openStreams[c] >= n \/ ~running)

\* The destructor, which joins the task, returns, also from the middle of a pass.
DestructorReturns == destroyer = "joining" ~> destroyer = "done"
============================================================================
