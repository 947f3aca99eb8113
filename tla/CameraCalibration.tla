------------------------- MODULE CameraCalibration -------------------------
(***************************************************************************)
(* camera/calibration.cpp: the tool that looks for a board in the views of *)
(* a camera, or in a list of images, and computes and saves the parameters *)
(* of the camera. A view is its number; where the board's corners are, and *)
(* the parameters, are told by the views that they come from.              *)
(***************************************************************************)
EXTENDS Integers, FiniteSets

CONSTANTS MaxViews,  \* bound on the views
          NFrames    \* the values of option -n

None == {}
VARIABLES step,         \* "options", "view", "key", "show", "done", "invalid" or "thrown"
          live,         \* the views come from a camera or a video, not from a list
          showUndistorted, nframes,
          mode,         \* "detection", "capturing" or "calibrated"
          i,            \* views so far
          imagePoints,  \* the views whose corners are kept
          undistortImage,
          cameraMatrix, \* the views it was computed from, and whether it is in range
          file,         \* the parameters that are saved
          start         \* history: the last view when capturing started
options == <<live, showUndistorted, nframes>>
vars == <<step, options, mode, i, imagePoints, undistortImage, cameraMatrix, file, start>>

Init ==
  /\ step = "options" /\ live = FALSE /\ showUndistorted = FALSE /\ nframes = 0
  /\ mode = "detection" /\ i = 0 /\ imagePoints = {} /\ undistortImage = FALSE
  /\ cameraMatrix = [views |-> None, ok |-> FALSE] /\ file = cameraMatrix /\ start = 0

\* main up to its loop. A list of images sets nframes to its length and is captured from
\* the start; an empty one, or a camera that does not open, ends the program.
ReadOptions(n, isLive, images, su) ==
  /\ step = "options" /\ live' = isLive /\ showUndistorted' = su
  /\ IF n <= 3 \/ images = 0
     THEN step' = "invalid" /\ UNCHANGED <<nframes, mode>>
     ELSE /\ step' = "view" /\ nframes' = (IF isLive THEN n ELSE images)
          /\ mode' = IF isLive THEN "detection" ELSE "capturing"
  /\ UNCHANGED <<i, imagePoints, undistortImage, cameraMatrix, file, start>>

\* runCalibration, which writes the matrices whether or not they are in range, and
\* saveCameraParams, for a calibration that is ok.
RunCalibration(ok) == cameraMatrix' = [views |-> imagePoints', ok |-> ok]
\* Mistake: the file is written before the result is known.
RunAndSave_Always(ok) == RunCalibration(ok) /\ file' = cameraMatrix'
RunAndSave(ok) == RunCalibration(ok) /\ file' = IF ok THEN cameraMatrix' ELSE file

\* A view in which the board is found is kept while capturing, a live one when the delay
\* since the last one has passed. Undistorting needs a matrix.
TakeView(found, late) ==
  /\ step = "view" /\ i < (IF live THEN MaxViews ELSE nframes) /\ i' = i + 1
  /\ imagePoints' = IF mode = "capturing" /\ found /\ (live => late)
                    THEN imagePoints \cup {i'} ELSE imagePoints
  /\ step' = IF mode = "calibrated" /\ undistortImage /\ cameraMatrix.views = None
             THEN "thrown" ELSE "key"
  /\ UNCHANGED <<options, mode, undistortImage, cameraMatrix, file, start>>
\* The list or the video is over, or a view cannot be read.
NoView(ok) ==
  /\ step = "view" /\ step' = "show" /\ UNCHANGED imagePoints
  /\ IF imagePoints # {} THEN RunAndSave(ok) ELSE UNCHANGED <<cameraMatrix, file>>
  /\ UNCHANGED <<options, mode, i, undistortImage, start>>

\* The g key starts over.
\* Mistake: what was captured before is kept.
StartCapturing_Kept(key) ==
  IF key = "g" /\ live
  THEN mode' = "capturing" /\ start' = i /\ UNCHANGED imagePoints
  ELSE UNCHANGED <<mode, imagePoints, start>>
StartCapturing(key) ==
  IF key = "g" /\ live
  THEN mode' = "capturing" /\ imagePoints' = {} /\ start' = i
  ELSE UNCHANGED <<mode, imagePoints, start>>
Enough(key) ==
  /\ ~(key = "g" /\ live) /\ mode = "capturing" /\ Cardinality(imagePoints) >= nframes
Key(key, ok) ==
  /\ step = "key"
  /\ undistortImage' = IF key = "u" /\ mode = "calibrated" THEN ~undistortImage ELSE undistortImage
  /\ IF key = "esc"
     THEN step' = "show" /\ UNCHANGED <<mode, imagePoints, cameraMatrix, file, start>>
     ELSE IF Enough(key)
     THEN /\ UNCHANGED <<imagePoints, start>> /\ RunAndSave(ok)
          /\ mode' = (IF ok THEN "calibrated" ELSE "detection")
          /\ step' = IF live THEN "view" ELSE "show"
     ELSE /\ StartCapturing(key) /\ step' = "view" /\ UNCHANGED <<cameraMatrix, file>>
  /\ UNCHANGED <<options, i>>

\* -su shows the images of a list undistorted, which throws without a matrix.
ShowUndistorted ==
  /\ step = "show"
  /\ step' = IF ~live /\ showUndistorted /\ cameraMatrix.views = None THEN "thrown" ELSE "done"
  /\ UNCHANGED <<options, mode, i, imagePoints, undistortImage, cameraMatrix, file, start>>

Next ==
  \/ \E n \in NFrames, l, su \in BOOLEAN, images \in 0..MaxViews : ReadOptions(n, l, images, su)
  \/ (\E found, late \in BOOLEAN : TakeView(found, late)) \/ (\E ok \in BOOLEAN : NoView(ok))
  \/ (\E key \in {"esc", "u", "g", "none"}, ok \in BOOLEAN : Key(key, ok)) \/ ShowUndistorted
Spec == Init /\ [][Next]_vars

(***************************************************************************)
(* Properties.                                                             *)
(***************************************************************************)
\* "Calibrated" is shown, and u undistorts, with the matrix that is in the file; without a
\* list nothing throws for want of one.
CalibratedIsSaved ==
  /\ mode = "calibrated" /\ step \in {"view", "key"} =>
       cameraMatrix.ok /\ cameraMatrix.views # None /\ cameraMatrix = file
  /\ step = "thrown" => ~live

\* "'g' - start capturing images" (calibration.cpp:76): what is saved comes from views
\* captured since g was pressed last, as many as were asked for unless there are no more,
\* and from a calibration that succeeded, although a calibration may fail and capturing
\* be started at any time.
SavesOneCapture ==
  [][file' # file =>
       /\ file'.ok /\ \A v \in file'.views : v > start
       /\ Cardinality(file'.views) >= nframes \/ step' = "show"]_vars
=============================================================================
