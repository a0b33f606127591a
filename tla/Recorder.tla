------------------------------ MODULE Recorder ------------------------------
(***************************************************************************)
(* .draft/record.py: a motion flag starts a thread that records a clip.    *)
(* The main thread reads flags and sets is_recording before it starts the  *)
(* thread; the thread clears it when ffmpeg has returned.  Both threads    *)
(* write the flag and there is no lock.  Flags come at any time.           *)
(***************************************************************************)
EXTENDS Naturals

CONSTANT MaxClips   \* bound: threads that run at once

VARIABLES
    isRecording,    \* self.is_recording
    clips,          \* record_clip threads that run
    dirFailed       \* os.makedirs failed in one of them (history)

recorderVars == <<isRecording, clips, dirFailed>>

RecorderInit == isRecording = FALSE /\ clips = 0 /\ dirFailed = FALSE

\* Mutant of Begin: the thread sets the flag, not the one that starts it.
BeginLate == isRecording' = isRecording

Begin == isRecording' = TRUE

\* handle_flag: a flag 1 starts a thread, unless a clip is being recorded; a
\* flag 0 does nothing.
HandleFlag(flag) ==
    /\ IF flag = 1 /\ ~isRecording
       THEN Begin /\ clips < MaxClips /\ clips' = clips + 1
       ELSE UNCHANGED <<isRecording, clips>>
    /\ UNCHANGED dirFailed

\* finally: self.is_recording = False, whether ffmpeg succeeded or not.
Finish == isRecording' = FALSE

RecordClip ==
    /\ clips > 0
    /\ clips' = clips - 1
    /\ Finish
    /\ UNCHANGED dirFailed

\* os.makedirs raises before the try: the flag stays set for good.
MakedirsFails ==
    /\ clips > 0
    /\ clips' = clips - 1 /\ dirFailed' = TRUE
    /\ UNCHANGED isRecording

RecorderNext == (\E flag \in {0, 1} : HandleFlag(flag)) \/ RecordClip \/ MakedirsFails

RecorderSpec == RecorderInit /\ [][RecorderNext]_recorderVars

-----------------------------------------------------------------------------
(* Properties.                                                             *)

\* One clip at a time, and is_recording tells whether there is one, unless the
\* directory could not be made: then it stays set and nothing is recorded again.
OneClip ==
    /\ clips <= 1
    /\ isRecording = (clips = 1) \/ (isRecording /\ dirFailed)
=============================================================================
