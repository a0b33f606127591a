--------------------------- MODULE MotionDetector ---------------------------
(***************************************************************************)
(* motion/motion.py: the frame loop of the motion node.  It probes the     *)
(* camera, starts ffmpeg once, and turns each frame that differs from the  *)
(* one before into motion flags and images.                                *)
(*                                                                         *)
(* One thread, so a frame is one action.  What other actors decide is      *)
(* open: when the stream ends and comes back, how time passes between two  *)
(* frames, which frame comes, and at which call the processing raises.     *)
(*                                                                         *)
(* A frame stands for the gray and blurred picture: a brightness in 0..255 *)
(* for each pixel, the differences taken in 8 bits as numpy does.          *)
(***************************************************************************)
EXTENDS Integers, FiniteSets, Sequences, SequencesExt

CONSTANTS
    Pixels,
    Frames,             \* the pictures the camera may show
    PixelDiffThreshold, \* PIXEL_DIFF_THRESHOLD
    QuietPixels,        \* MOTION_THRESHOLD, as a number of pixels
    PublishCooldown,    \* MOTION_IMAGE_PUBLISH_COOLDOWN, in ticks of the clock
    MaxTime,            \* bound: ticks
    MaxFrames,          \* bound: frames read
    MaxRestarts         \* bound: restarts of the process

ASSUME MotionAssumption ==
    /\ IsFiniteSet(Pixels)
    /\ Frames \subseteq [Pixels -> 0..255]
    /\ PixelDiffThreshold \in 0..255
    /\ QuietPixels \in Nat
    /\ PublishCooldown \in Nat \ {0}
    /\ MaxTime \in Nat
    /\ MaxFrames \in Nat
    /\ MaxRestarts \in Nat

VARIABLES
    streaming,       \* environment: the camera delivers a valid stream
    ffmpeg,          \* "none" while run probes, then "running", then "ended"
    prevFrame,       \* self.prev_blurred_frame, or NoFrame
    lastMotionState, \* self.last_motion_state
    imageId,         \* self.image_id
    lastPublish,     \* last_publish_time
    now,             \* time.time()
    frames,          \* frames read
    run,             \* the process, counted by its restarts
    out              \* what was published or logged, in order (the log)

detectorVars == <<prevFrame, lastMotionState, imageId, lastPublish>>
vars == <<streaming, ffmpeg, detectorVars, now, frames, run, out>>

NoFrame == <<>>

\* The log: the two flags, an image, an image that could not be encoded and an
\* exception caught by the loop.
Kinds == {"flag0", "flag1", "image", "unencoded", "error"}
Line == [kind : Kinds, run : Nat, at : Nat, id : Nat]

\* The lines of one frame.
Lines(kinds) ==
    [i \in DOMAIN kinds |->
        [kind |-> kinds[i], run |-> run, at |-> now, id |-> imageId]]

\* A new process.  The clock is far from zero, the initial last_publish_time.
Fresh == [prevFrame |-> NoFrame, lastMotionState |-> 0, imageId |-> 1, lastPublish |-> 0]

Init ==
    /\ streaming \in BOOLEAN
    /\ ffmpeg = "none"
    /\ prevFrame = Fresh.prevFrame
    /\ lastMotionState = Fresh.lastMotionState
    /\ imageId = Fresh.imageId
    /\ lastPublish = Fresh.lastPublish
    /\ now = PublishCooldown
    /\ frames = 0
    /\ run = 0
    /\ out = <<>>

-----------------------------------------------------------------------------
(* One frame.                                                              *)

\* np.abs(current_frame - prev_frame) of two uint8 arrays: the difference is
\* taken modulo 256 and has no sign that abs could remove.
Difference(a, b) == (b - a) % 256

Changed(f) == {p \in Pixels : Difference(prevFrame[p], f[p]) > PixelDiffThreshold}

MotionDetected(f) == prevFrame # NoFrame /\ Cardinality(Changed(f)) > QuietPixels

\* Mutants of CooldownOver: an image a tick early, and an image too late.
CooldownAlmostOver == now - lastPublish >= PublishCooldown - 1

CooldownLongOver == now - lastPublish > PublishCooldown

CooldownOver == now - lastPublish >= PublishCooldown

\* Mutant of StateAfter: the end of the motion is not remembered.
StateKept(f) == IF MotionDetected(f) THEN 1 ELSE lastMotionState

StateAfter(f) == IF MotionDetected(f) THEN 1 ELSE 0

\* The end of an iteration: the frame becomes the previous one.
Accept(f) ==
    /\ prevFrame' = f
    /\ lastMotionState' = StateAfter(f)

\* Mutant of PublishTime: the time of the next image is stored.
NextPublishTime == now + PublishCooldown

\* last_publish_time = current_time
PublishTime == now

\* image_id counts the images that were published.
IdAfter(image) == IF image = "image" THEN imageId + 1 ELSE imageId

\* publish_motion_image: published, or not encoded, which is only logged.  The
\* caller restarts its cooldown in both cases.
PublishMotionImage(f, kinds, image) ==
    /\ out' = out \o Lines(kinds)
    /\ imageId' = IdAfter(image)
    /\ lastPublish' = PublishTime
    /\ Accept(f)

ImageOutcomes == {"image", "unencoded"}

\* Motion begins: a flag 1, and an image whatever the cooldown.
StartMotion(f) ==
    /\ MotionDetected(f) /\ lastMotionState = 0
    /\ \E image \in ImageOutcomes : PublishMotionImage(f, <<"flag1", image>>, image)

\* Motion goes on: an image when the cooldown is over.
ContinueMotion(f) ==
    /\ MotionDetected(f) /\ lastMotionState = 1
    /\ IF CooldownOver
       THEN \E image \in ImageOutcomes : PublishMotionImage(f, <<image>>, image)
       ELSE /\ Accept(f)
            /\ UNCHANGED <<imageId, lastPublish, out>>

\* Motion ends: a flag 0.
EndMotion(f) ==
    /\ ~MotionDetected(f) /\ lastMotionState = 1
    /\ out' = out \o Lines(<<"flag0">>)
    /\ Accept(f)
    /\ UNCHANGED <<imageId, lastPublish>>

Quiet(f) ==
    /\ ~MotionDetected(f) /\ lastMotionState = 0
    /\ Accept(f)
    /\ UNCHANGED <<imageId, lastPublish, out>>

\* Mutant of AfterError: the state is taken over before the publications.
StateBeforeError(f) ==
    /\ lastMotionState' = StateAfter(f)
    /\ UNCHANGED <<prevFrame, imageId, lastPublish>>

\* except Exception: the loop goes on, nothing is taken over from the frame.
AfterError(f) == UNCHANGED detectorVars

\* The processing raises: before or in the first publication, or between the
\* flag 1 and the image.
FailFrame(f) ==
    /\ \/ out' = out \o Lines(<<"error">>)
       \/ /\ MotionDetected(f) /\ lastMotionState = 0
          /\ out' = out \o Lines(<<"flag1", "error">>)
    /\ AfterError(f)

\* A complete frame has been read.
ReadFrame ==
    /\ ffmpeg = "running" /\ frames < MaxFrames
    /\ frames' = frames + 1
    /\ \E f \in Frames :
          StartMotion(f) \/ ContinueMotion(f) \/ EndMotion(f) \/ Quiet(f) \/ FailFrame(f)
    /\ UNCHANGED <<streaming, ffmpeg, now, run>>

-----------------------------------------------------------------------------
(* The stream, the process and time.                                       *)

\* get_video_dimensions finds a video of a valid size; ffmpeg is started.
Probe ==
    /\ ffmpeg = "none" /\ streaming
    /\ ffmpeg' = "running"
    /\ UNCHANGED <<streaming, detectorVars, now, frames, run, out>>

\* The probe fails, or the video is 0x0: the loop sleeps and tries again.
ProbeAgain ==
    /\ ffmpeg = "none" /\ ~streaming
    /\ UNCHANGED vars

\* The read returns fewer bytes than a frame: the loop sleeps and reads again
\* from the process that has ended.
ShortRead ==
    /\ ffmpeg = "ended"
    /\ UNCHANGED vars

\* The stream ends, and ffmpeg with it.
StreamEnds ==
    /\ streaming
    /\ streaming' = FALSE
    /\ ffmpeg' = IF ffmpeg = "running" THEN "ended" ELSE ffmpeg
    /\ UNCHANGED <<detectorVars, now, frames, run, out>>

StreamReturns ==
    /\ ~streaming
    /\ streaming' = TRUE
    /\ UNCHANGED <<ffmpeg, detectorVars, now, frames, run, out>>

\* The process stops and Swarm starts it again (restart_policy any).
Restart ==
    /\ run < MaxRestarts
    /\ run' = run + 1
    /\ ffmpeg' = "none"
    /\ prevFrame' = Fresh.prevFrame
    /\ lastMotionState' = Fresh.lastMotionState
    /\ imageId' = Fresh.imageId
    /\ lastPublish' = Fresh.lastPublish
    /\ UNCHANGED <<streaming, now, frames, out>>

Tick ==
    /\ now < PublishCooldown + MaxTime
    /\ now' = now + 1
    /\ UNCHANGED <<streaming, ffmpeg, detectorVars, frames, run, out>>

Next ==
    \/ ReadFrame \/ Probe \/ ProbeAgain \/ ShortRead
    \/ StreamEnds \/ StreamReturns \/ Restart \/ Tick

\* The loop goes on as long as the process lives.
Spec == Init /\ [][Next]_vars /\ WF_vars(ReadFrame) /\ WF_vars(Probe)

-----------------------------------------------------------------------------
(* Properties.                                                             *)

\* Type correctness; an image was published in the past if at all.
TypeOK ==
    /\ streaming \in BOOLEAN
    /\ ffmpeg \in {"none", "running", "ended"}
    /\ prevFrame \in Frames \cup {NoFrame}
    /\ lastMotionState \in {0, 1}
    /\ imageId \in Nat \ {0}
    /\ now \in Nat
    /\ lastPublish \in 0..now
    /\ frames \in Nat
    /\ run \in Nat
    /\ out \in Seq(Line)

SameRun(i, j) == out[i].run = out[j].run

\* The last flag before line i of the same process is a flag 1.
UnderMotion(i) ==
    \E j \in 1..(i - 1) :
        /\ SameRun(i, j) /\ out[j].kind = "flag1"
        /\ \A k \in (j + 1)..(i - 1) : out[k].kind # "flag0"

\* An image is published during motion only: the last flag its process sent
\* before it is a flag 1, whatever failed in between.
ImageUnderFlag ==
    \A i \in DOMAIN out : out[i].kind = "image" => UnderMotion(i)

\* README.md:41, "a configurable cooldown prevents flooding": two images of one
\* motion, with no flag 1 between them, are PublishCooldown apart, also when
\* publications between them failed.
ImagesSpaced ==
    \A i, j \in DOMAIN out :
        /\ i < j /\ SameRun(i, j)
        /\ out[i].kind = "image" /\ out[j].kind = "image"
        /\ \A k \in (i + 1)..(j - 1) : out[k].kind # "flag1"
        => out[j].at - out[i].at >= PublishCooldown

\* What subscribers were told last is what the detector believes, unless an
\* exception came after it: the last flag of this process is flag 1 exactly
\* when last_motion_state is 1.
FlagTellsState ==
    \A i \in DOMAIN out :
        /\ out[i].run = run /\ out[i].kind \in {"flag0", "flag1"}
        /\ \A k \in (i + 1)..Len(out) : out[k].kind \notin {"flag0", "flag1", "error"}
        => (out[i].kind = "flag1") = (lastMotionState = 1)

\* Motion is shown: after each frame with motion that was processed, an image
\* (or the attempt to encode one) is less than PublishCooldown old.
MotionShown ==
    [][frames' # frames /\ lastMotionState' = 1 =>
          \/ out' # out /\ Last(out').kind = "error"
          \/ \E i \in DOMAIN out' :
                /\ out'[i].run = run /\ out'[i].kind \in ImageOutcomes
                /\ now - out'[i].at < PublishCooldown]_vars

\* motion/motion.md:53: "Pixel differences > 50 are considered motion".  Motion
\* does not begin between two frames in which no pixel differs by more.
MotionIsLargeDifference ==
    [][lastMotionState = 0 /\ lastMotionState' = 1 =>
          \E p \in Pixels :
              \/ prevFrame'[p] - prevFrame[p] > PixelDiffThreshold
              \/ prevFrame[p] - prevFrame'[p] > PixelDiffThreshold]_vars

=============================================================================
