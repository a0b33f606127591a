-------------------------- MODULE MCMotionDetector --------------------------
(* Instance of MotionDetector for TLC: a scene, an object in it, and the    *)
(* same scene a little darker.                                             *)
EXTENDS MotionDetector

MCPixels == {1, 2}
Plain(b) == [p \in MCPixels |-> b]

MCFrames == {Plain(100), Plain(160)}
MCDimmed == {Plain(100), Plain(99)}
=============================================================================
