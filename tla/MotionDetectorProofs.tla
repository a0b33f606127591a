------------------------ MODULE MotionDetectorProofs ------------------------
(***************************************************************************)
(* Proofs about MotionDetector: type correctness, images during motion     *)
(* only, and the spacing of the images, for any pictures and thresholds.   *)
(*                                                                         *)
(* Every step leaves the log alone or appends the one or two lines of a    *)
(* frame to it; LinesAppended says what the log looks like then.           *)
(***************************************************************************)
EXTENDS MotionDetector, SequenceTheorems, TLAPS

\* What last_motion_state stands for: while it is 1, the process has sent a
\* flag 1 and no flag 0 since.
Announced ==
    lastMotionState = 1 =>
        \E j \in DOMAIN out :
            /\ out[j].run = run /\ out[j].kind = "flag1"
            /\ \A k \in (j + 1)..Len(out) : out[k].kind # "flag0"

\* What last_publish_time stands for: no image of this process is younger, and
\* no line comes from a process that has not started yet.
LastPublishLatest ==
    \A i \in DOMAIN out :
        /\ out[i].run <= run
        /\ out[i].run = run /\ out[i].kind = "image" => out[i].at <= lastPublish

\* The log only grows at its end, by the lines of one frame.
Grows(kinds) == out' = out \o Lines(kinds)

LEMMA LinesAppended ==
    ASSUME TypeOK, NEW kinds \in Seq(Kinds), Grows(kinds)
    PROVE  /\ out' \in Seq(Line)
           /\ Len(out') = Len(out) + Len(kinds)
           /\ \A i \in 1..Len(out) : out'[i] = out[i]
           /\ \A i \in 1..Len(kinds) :
                 out'[Len(out) + i] =
                     [kind |-> kinds[i], run |-> run, at |-> now, id |-> imageId]
<1>1. Lines(kinds) \in Seq(Line) /\ Len(Lines(kinds)) = Len(kinds)
  <2>1. kinds \in [1..Len(kinds) -> Kinds] /\ Len(kinds) \in Nat
    OBVIOUS
  <2>2. Lines(kinds) \in [1..Len(kinds) -> Line]
    BY <2>1 DEF Lines, Line, TypeOK
  <2> QED  BY <2>1, <2>2
<1>2. \A i \in 1..Len(kinds) :
         Lines(kinds)[i] = [kind |-> kinds[i], run |-> run, at |-> now, id |-> imageId]
  BY DEF Lines
<1> DEFINE added == Lines(kinds)
<1>3. out \in Seq(Line) /\ added \in Seq(Line) /\ out' = out \o added
  BY <1>1 DEF Grows, TypeOK
<1>4. Len(added) = Len(kinds)
  BY <1>1
<1> HIDE DEF added
<1>5. /\ out' \in Seq(Line) /\ Len(out') = Len(out) + Len(added)
      /\ \A i \in 1..Len(out') :
            out'[i] = IF i <= Len(out) THEN out[i] ELSE added[i - Len(out)]
  BY <1>3, ConcatProperties
<1>6. \A i \in 1..Len(kinds) : out'[Len(out) + i] = added[i]
  BY <1>3, <1>4, <1>5, LenProperties
<1> QED  BY <1>2, <1>3, <1>4, <1>5, <1>6, LenProperties DEF added

DetectorInv ==
    /\ TypeOK
    /\ Announced
    /\ LastPublishLatest
    /\ ImageUnderFlag
    /\ ImagesSpaced

LEMMA InitInv == Init => DetectorInv
<1> SUFFICES ASSUME Init PROVE DetectorInv
  OBVIOUS
<1>1. TypeOK
  BY MotionAssumption DEF Init, Fresh, TypeOK
<1> QED
  BY <1>1 DEF Init, Fresh, DetectorInv, Announced, LastPublishLatest, ImageUnderFlag,
              ImagesSpaced

\* A step that leaves the log alone, and the state machine alone or as that of
\* a new process, preserves the invariant.
LEMMA SameLogInv ==
    ASSUME DetectorInv, TypeOK', out' = out,
           \/ UNCHANGED <<run, lastPublish>> /\ lastMotionState' = lastMotionState
           \/ run' = run + 1 /\ lastMotionState' = 0
           \/ UNCHANGED <<run, lastPublish>> /\ lastMotionState' = 0
    PROVE  DetectorInv'
<1> USE DEF DetectorInv
<1>1. Announced'
  BY DEF Announced
<1>2. LastPublishLatest'
  <2>1. out \in Seq(Line) /\ run \in Nat
    BY DEF TypeOK
  <2>2. \A i \in DOMAIN out : out[i].run \in Nat
    <3>1. \A i \in DOMAIN out : out[i] \in Line
      BY <2>1, ElementOfSeq, LenProperties
    <3> QED  BY <3>1 DEF Line
  <2>3. \A i \in DOMAIN out : out'[i] = out[i]
    OBVIOUS
  <2>4. CASE run' = run /\ lastPublish' = lastPublish
    BY <2>4 DEF LastPublishLatest
  <2>5. CASE run' = run + 1
    BY <2>1, <2>2, <2>3, <2>5 DEF LastPublishLatest
  <2> QED  BY <2>4, <2>5
<1>3. ImageUnderFlag' /\ ImagesSpaced'
  BY DEF ImageUnderFlag, UnderMotion, SameRun, ImagesSpaced
<1> QED  BY <1>1, <1>2, <1>3

\* The old lines keep their place, and lines are lines.
LEMMA OldLines ==
    ASSUME TypeOK, NEW kinds \in Seq(Kinds), Grows(kinds)
    PROVE  /\ Len(out) \in Nat
           /\ DOMAIN out = 1..Len(out)
           /\ DOMAIN out' = 1..(Len(out) + Len(kinds))
           /\ \A i \in 1..Len(out) : out'[i] = out[i] /\ out[i] \in Line
<1>1. out \in Seq(Line)
  BY DEF TypeOK
<1> QED  BY <1>1, LinesAppended, LenProperties, ElementOfSeq

\* Two lines of one frame: the flag 1 and what follows it.
LEMMA BeginInv ==
    ASSUME DetectorInv, TypeOK', NEW kind \in Kinds \ {"flag0", "flag1"},
           UNCHANGED <<run, now>>, Grows(<<"flag1", kind>>),
           \/ lastMotionState' = 1 /\ lastPublish' = now
           \/ /\ UNCHANGED <<lastMotionState, lastPublish>>
              /\ lastMotionState = 0 /\ kind = "error"
    PROVE  DetectorInv'
<1> DEFINE n == Len(out)
<1> USE DEF DetectorInv
<1>0. run \in Nat /\ now \in Nat /\ lastPublish \in Nat /\ lastPublish <= now
  BY DEF TypeOK
<1>1. /\ <<"flag1", kind>> \in Seq(Kinds) /\ Len(<<"flag1", kind>>) = 2
      /\ <<"flag1", kind>>[1] = "flag1" /\ <<"flag1", kind>>[2] = kind
  BY DEF Kinds
<1>2. /\ n \in Nat /\ DOMAIN out = 1..n /\ DOMAIN out' = 1..(n + 2)
      /\ \A i \in 1..n : out'[i] = out[i] /\ out[i] \in Line
  BY <1>1, OldLines
<1>3. \A i \in 1..2 : out'[n + i] = [kind |-> <<"flag1", kind>>[i], run |-> run,
                                   at |-> now, id |-> imageId]
  BY <1>1, LinesAppended
<1>4. /\ out'[n + 1] = [kind |-> "flag1", run |-> run, at |-> now, id |-> imageId]
      /\ out'[n + 2] = [kind |-> kind, run |-> run, at |-> now, id |-> imageId]
      /\ Len(out') = n + 2
  <2>1. Len(out') = n + 2
    BY <1>1, LinesAppended
  <2>2. 1 \in 1..2 /\ 2 \in 1..2
    OBVIOUS
  <2> QED  BY <1>1, <1>3, <2>1, <2>2, Zenon
<1> HIDE DEF n
<1>5. Announced'
  BY <1>2, <1>4 DEF Announced
<1>6. LastPublishLatest'
  <2> SUFFICES ASSUME NEW i \in 1..(n + 2)
               PROVE  /\ out'[i].run <= run
                      /\ out'[i].run = run /\ out'[i].kind = "image" =>
                            out'[i].at <= lastPublish'
    BY <1>2 DEF LastPublishLatest
  <2>1. CASE i \in 1..n
    <3>1. lastPublish' \in Nat /\ lastPublish <= lastPublish'
      BY <1>0
    <3>2. /\ out'[i] = out[i] /\ out[i].run <= run /\ out[i].at \in Nat
          /\ out[i].run = run /\ out[i].kind = "image" => out[i].at <= lastPublish
      BY <1>2, <2>1 DEF LastPublishLatest, Line
    <3> QED  BY <1>0, <3>1, <3>2
  <2>2. CASE i \in {n + 1, n + 2}
    BY <1>0, <1>4, <2>2
  <2> QED  BY <1>2, <2>1, <2>2
<1>7. ImageUnderFlag'
  <2> SUFFICES ASSUME NEW i \in 1..(n + 2), out'[i].kind = "image"
               PROVE  \E j \in 1..(i - 1) :
                         /\ out'[i].run = out'[j].run /\ out'[j].kind = "flag1"
                         /\ \A k \in (j + 1)..(i - 1) : out'[k].kind # "flag0"
    BY <1>2 DEF ImageUnderFlag, UnderMotion, SameRun
  <2>1. CASE i \in 1..n
    BY <1>2, <2>1 DEF ImageUnderFlag, UnderMotion, SameRun
  <2>2. CASE i = n + 2
    BY <1>2, <1>4, <2>2
  <2>3. i # n + 1
    BY <1>4
  <2> QED  BY <1>2, <2>1, <2>2, <2>3
<1>8. ImagesSpaced'
  <2> SUFFICES ASSUME NEW i \in 1..(n + 2), NEW j \in 1..(n + 2),
                      i < j, out'[i].run = out'[j].run,
                      out'[i].kind = "image", out'[j].kind = "image",
                      \A k \in (i + 1)..(j - 1) : out'[k].kind # "flag1"
               PROVE  out'[j].at - out'[i].at >= PublishCooldown
    BY <1>2 DEF ImagesSpaced, SameRun
  <2>1. CASE j \in 1..n
    <3>1. \A k \in (i + 1)..(j - 1) : out[k].kind # "flag1"
      BY <1>2, <2>1
    <3> QED  BY <1>2, <2>1, <3>1 DEF ImagesSpaced, SameRun
  <2>2. j # n + 1 /\ i # n + 1
    BY <1>4
  <2>3. CASE j = n + 2
    BY <1>2, <1>4, <2>2, <2>3
  <2> QED  BY <1>2, <2>1, <2>2, <2>3
<1> QED  BY <1>5, <1>6, <1>7, <1>8

\* One line of one frame: an image of a motion that goes on and whose cooldown
\* is over, a flag 0, or an exception.
LEMMA OneLineInv ==
    ASSUME DetectorInv, TypeOK', NEW kind \in Kinds \ {"flag1"},
           UNCHANGED <<run, now>>, Grows(<<kind>>),
           \/ /\ kind \in ImageOutcomes /\ lastMotionState = 1 /\ CooldownOver
              /\ lastMotionState' = 1 /\ lastPublish' = now
           \/ kind = "flag0" /\ lastMotionState' = 0 /\ lastPublish' = lastPublish
           \/ kind = "error" /\ UNCHANGED <<lastMotionState, lastPublish>>
    PROVE  DetectorInv'
<1> DEFINE n == Len(out)
<1> USE DEF DetectorInv
<1>0. run \in Nat /\ now \in Nat /\ lastPublish \in Nat /\ lastPublish <= now
  BY DEF TypeOK
<1>1. <<kind>> \in Seq(Kinds) /\ Len(<<kind>>) = 1 /\ <<kind>>[1] = kind
  OBVIOUS
<1>2. /\ n \in Nat /\ DOMAIN out = 1..n /\ DOMAIN out' = 1..(n + 1)
      /\ \A i \in 1..n : out'[i] = out[i] /\ out[i] \in Line
  BY <1>1, OldLines
<1>3. /\ \A i \in 1..1 : out'[n + i] = [kind |-> <<kind>>[i], run |-> run,
                                      at |-> now, id |-> imageId]
      /\ Len(out') = n + 1 /\ Len(out) = n
  BY <1>1, LinesAppended
<1>4. /\ out'[n + 1] = [kind |-> kind, run |-> run, at |-> now, id |-> imageId]
      /\ Len(out') = n + 1 /\ Len(out) = n
  BY <1>1, <1>3
<1> HIDE DEF n
<1>5. Announced'
  <2>1. CASE kind = "flag0"
    BY <2>1 DEF Announced, ImageOutcomes
  <2>2. CASE kind # "flag0" /\ lastMotionState' = 1
    BY <1>2, <1>4, <2>2 DEF Announced
  <2> QED  BY <2>1, <2>2 DEF Announced
<1>6. LastPublishLatest'
  BY <1>0, <1>2, <1>4 DEF LastPublishLatest, ImageOutcomes, Line
<1>7. kind = "image" => lastMotionState = 1 /\ now - lastPublish >= PublishCooldown
  BY DEF CooldownOver
<1>8. ImageUnderFlag'
  <2> SUFFICES ASSUME NEW i \in 1..(n + 1), out'[i].kind = "image"
               PROVE  \E j \in 1..(i - 1) :
                         /\ out'[i].run = out'[j].run /\ out'[j].kind = "flag1"
                         /\ \A k \in (j + 1)..(i - 1) : out'[k].kind # "flag0"
    BY <1>2 DEF ImageUnderFlag, UnderMotion, SameRun
  <2>1. CASE i \in 1..n
    BY <1>2, <2>1 DEF ImageUnderFlag, UnderMotion, SameRun
  <2>2. CASE i = n + 1
    BY <1>2, <1>4, <1>7, <2>2 DEF Announced
  <2> QED  BY <1>2, <2>1, <2>2
<1>9. ImagesSpaced'
  <2> SUFFICES ASSUME NEW i \in 1..(n + 1), NEW j \in 1..(n + 1),
                      i < j, out'[i].run = out'[j].run,
                      out'[i].kind = "image", out'[j].kind = "image",
                      \A k \in (i + 1)..(j - 1) : out'[k].kind # "flag1"
               PROVE  out'[j].at - out'[i].at >= PublishCooldown
    BY <1>2 DEF ImagesSpaced, SameRun
  <2>1. CASE j \in 1..n
    <3>1. \A k \in (i + 1)..(j - 1) : out[k].kind # "flag1"
      BY <1>2, <2>1
    <3> QED  BY <1>2, <2>1, <3>1 DEF ImagesSpaced, SameRun
  <2>2. CASE j = n + 1
    <3>1. i \in 1..n /\ out[i].run = run /\ out[i].kind = "image"
      BY <1>2, <1>4, <2>2
    <3>2. out[i].at <= lastPublish /\ out[i].at \in Nat
      BY <1>2, <3>1 DEF LastPublishLatest, Line
    <3> QED  BY <1>2, <1>4, <1>7, <2>2, <3>1, <3>2, MotionAssumption DEF TypeOK
  <2> QED  BY <1>2, <2>1, <2>2
<1> QED  BY <1>5, <1>6, <1>8, <1>9

-----------------------------------------------------------------------------
(* Type correctness.                                                       *)

\* The lines of a frame are lines, so the log stays a log.
LEMMA LogType ==
    ASSUME TypeOK, NEW kinds \in Seq(Kinds), Grows(kinds)
    PROVE  out' \in Seq(Line)
BY LinesAppended

LEMMA PublishType ==
    ASSUME TypeOK, NEW f \in Frames, NEW image \in ImageOutcomes,
           NEW kinds \in Seq(Kinds),
           PublishMotionImage(f, kinds, image),
           UNCHANGED <<streaming, ffmpeg, now, run>>, frames' = frames + 1
    PROVE  TypeOK'
<1>1. out' \in Seq(Line)
  BY LogType DEF PublishMotionImage, Grows
<1>2. imageId' \in Nat \ {0}
  BY DEF PublishMotionImage, IdAfter, TypeOK
<1>3. prevFrame' \in Frames /\ lastMotionState' \in {0, 1} /\ lastPublish' = now
  BY DEF PublishMotionImage, Accept, StateAfter, PublishTime
<1> QED  BY <1>1, <1>2, <1>3 DEF TypeOK

\* A frame keeps the state well typed.
LEMMA FrameType == TypeOK /\ ReadFrame => TypeOK'
<1> SUFFICES ASSUME TypeOK, ReadFrame PROVE TypeOK'
  OBVIOUS
<1>0. UNCHANGED <<streaming, ffmpeg, now, run>> /\ frames' = frames + 1
  BY DEF ReadFrame
<1>1. PICK f \in Frames :
         StartMotion(f) \/ ContinueMotion(f) \/ EndMotion(f) \/ Quiet(f) \/ FailFrame(f)
  BY DEF ReadFrame
<1>2. CASE StartMotion(f)
  <2>1. \A image \in ImageOutcomes : <<"flag1", image>> \in Seq(Kinds)
    BY DEF ImageOutcomes, Kinds
  <2> QED  BY <1>0, <1>2, <2>1, PublishType DEF StartMotion
<1>3. CASE ContinueMotion(f)
  <2>1. CASE CooldownOver
    <3>1. \A image \in ImageOutcomes : <<image>> \in Seq(Kinds)
      BY DEF ImageOutcomes, Kinds
    <3> QED  BY <1>0, <1>3, <2>1, <3>1, PublishType DEF ContinueMotion
  <2>2. CASE ~CooldownOver
    BY <1>0, <1>3, <2>2 DEF ContinueMotion, Accept, StateAfter, TypeOK
  <2> QED  BY <2>1, <2>2
<1>4. CASE EndMotion(f)
  <2>1. <<"flag0">> \in Seq(Kinds) /\ Grows(<<"flag0">>)
    BY <1>4 DEF EndMotion, Grows, Kinds
  <2>2. out' \in Seq(Line)
    BY <2>1, LogType
  <2> QED  BY <1>0, <1>4, <2>2 DEF EndMotion, Accept, StateAfter, TypeOK
<1>5. CASE Quiet(f)
  BY <1>0, <1>5 DEF Quiet, Accept, StateAfter, TypeOK
<1>6. CASE FailFrame(f)
  <2>1. <<"error">> \in Seq(Kinds) /\ <<"flag1", "error">> \in Seq(Kinds)
    BY DEF Kinds
  <2>2. Grows(<<"error">>) \/ Grows(<<"flag1", "error">>)
    BY <1>6 DEF FailFrame, Grows
  <2>3. out' \in Seq(Line)
    BY <2>1, <2>2, LogType
  <2> QED  BY <1>0, <1>6, <2>3 DEF FailFrame, AfterError, detectorVars, TypeOK
<1> QED  BY <1>1, <1>2, <1>3, <1>4, <1>5, <1>6

LEMMA StepType == TypeOK /\ [Next]_vars => TypeOK'
<1> SUFFICES ASSUME TypeOK, [Next]_vars PROVE TypeOK'
  OBVIOUS
<1>1. CASE ReadFrame
  BY <1>1, FrameType
<1>2. CASE Probe \/ StreamEnds \/ StreamReturns
  BY <1>2 DEF Probe, StreamEnds, StreamReturns, detectorVars, TypeOK
<1>3. CASE Restart
  BY <1>3 DEF Restart, Fresh, TypeOK
<1>4. CASE Tick
  BY <1>4 DEF Tick, detectorVars, TypeOK
<1>5. CASE ProbeAgain \/ ShortRead \/ UNCHANGED vars
  BY <1>5 DEF ProbeAgain, ShortRead, vars, detectorVars, TypeOK
<1> QED  BY <1>1, <1>2, <1>3, <1>4, <1>5 DEF Next

-----------------------------------------------------------------------------
(* The invariant.                                                          *)

\* What one frame does to the log and to the state, in the six ways it may go.
BeginsMotion(image) ==
    /\ Grows(<<"flag1", image>>)
    /\ lastMotionState = 0 /\ lastMotionState' = 1 /\ lastPublish' = now

ShowsMotion(image) ==
    /\ Grows(<<image>>) /\ CooldownOver
    /\ lastMotionState = 1 /\ lastMotionState' = 1 /\ lastPublish' = now

SaysNothing ==
    /\ out' = out /\ UNCHANGED <<lastMotionState, lastPublish>>
    /\ lastMotionState = 1 => ~CooldownOver

EndsMotion == Grows(<<"flag0">>) /\ lastMotionState' = 0 /\ lastPublish' = lastPublish

Fails ==
    /\ UNCHANGED <<lastMotionState, lastPublish>>
    /\ \/ Grows(<<"error">>)
       \/ Grows(<<"flag1", "error">>) /\ lastMotionState = 0

LEMMA FrameKinds ==
    ReadFrame =>
        \/ \E image \in ImageOutcomes : BeginsMotion(image) \/ ShowsMotion(image)
        \/ SaysNothing \/ EndsMotion \/ Fails
<1> SUFFICES ASSUME ReadFrame
             PROVE  \/ \E image \in ImageOutcomes : BeginsMotion(image) \/ ShowsMotion(image)
                    \/ SaysNothing \/ EndsMotion \/ Fails
  OBVIOUS
<1>1. PICK f \in Frames :
         StartMotion(f) \/ ContinueMotion(f) \/ EndMotion(f) \/ Quiet(f) \/ FailFrame(f)
  BY DEF ReadFrame
<1>2. CASE StartMotion(f)
  BY <1>2 DEF StartMotion, PublishMotionImage, Grows, Accept, StateAfter, PublishTime, BeginsMotion
<1>3. CASE ContinueMotion(f)
  <2>1. CASE CooldownOver
    BY <1>3, <2>1 DEF ContinueMotion, PublishMotionImage, Grows, Accept, StateAfter, PublishTime,
                      ShowsMotion
  <2>2. CASE ~CooldownOver
    BY <1>3, <2>2 DEF ContinueMotion, Accept, StateAfter, SaysNothing
  <2> QED  BY <2>1, <2>2
<1>4. CASE EndMotion(f)
  BY <1>4 DEF EndMotion, Grows, Accept, StateAfter, EndsMotion
<1>5. CASE Quiet(f)
  BY <1>5 DEF Quiet, Accept, StateAfter, SaysNothing
<1>6. CASE FailFrame(f)
  <2>1. UNCHANGED <<lastMotionState, lastPublish>>
    BY <1>6 DEF FailFrame, AfterError, detectorVars
  <2>2. Grows(<<"error">>) \/ (Grows(<<"flag1", "error">>) /\ lastMotionState = 0)
    BY <1>6 DEF FailFrame, Grows
  <2> QED  BY <2>1, <2>2 DEF Fails
<1> QED  BY <1>1, <1>2, <1>3, <1>4, <1>5, <1>6

LEMMA FrameInv == DetectorInv /\ ReadFrame => DetectorInv'
<1> SUFFICES ASSUME DetectorInv, ReadFrame PROVE DetectorInv'
  OBVIOUS
<1>0. TypeOK /\ TypeOK' /\ UNCHANGED <<run, now>>
  BY FrameType DEF DetectorInv, ReadFrame
<1>1. \A image \in ImageOutcomes : image \in Kinds \ {"flag0", "flag1"}
  BY DEF ImageOutcomes, Kinds
<1>2. "flag0" \in Kinds \ {"flag1"} /\ "error" \in Kinds \ {"flag0", "flag1"}
  BY DEF Kinds
<1>3. ASSUME NEW image \in ImageOutcomes, BeginsMotion(image) PROVE DetectorInv'
  BY <1>0, <1>1, <1>3, BeginInv DEF BeginsMotion
<1>4. ASSUME NEW image \in ImageOutcomes, ShowsMotion(image) PROVE DetectorInv'
  BY <1>0, <1>1, <1>4, OneLineInv DEF ShowsMotion
<1>5. CASE SaysNothing
  BY <1>0, <1>5, SameLogInv DEF SaysNothing
<1>6. CASE EndsMotion
  BY <1>0, <1>2, <1>6, OneLineInv DEF EndsMotion
<1>7. CASE Fails
  BY <1>0, <1>2, <1>7, OneLineInv, BeginInv DEF Fails
<1> QED  BY <1>3, <1>4, <1>5, <1>6, <1>7, FrameKinds

LEMMA StepInv == DetectorInv /\ [Next]_vars => DetectorInv'
<1> SUFFICES ASSUME DetectorInv, [Next]_vars PROVE DetectorInv'
  OBVIOUS
<1>0. TypeOK'
  BY StepType DEF DetectorInv
<1>1. CASE ReadFrame
  BY <1>1, FrameInv
<1>2. CASE Restart
  <2>1. out' = out /\ run' = run + 1 /\ lastMotionState' = 0
    BY <1>2 DEF Restart, Fresh
  <2> QED  BY <1>0, <2>1, SameLogInv
<1>3. CASE ~ReadFrame /\ ~Restart
  <2>1. out' = out /\ UNCHANGED <<run, lastPublish>> /\ lastMotionState' = lastMotionState
    BY <1>3 DEF Next, Probe, ProbeAgain, ShortRead, StreamEnds, StreamReturns, Tick,
                vars, detectorVars
  <2> QED  BY <1>0, <2>1, SameLogInv
<1> QED  BY <1>1, <1>2, <1>3

-----------------------------------------------------------------------------
(* The theorems.                                                           *)

\* The detector's state is well typed: a new image id is never 0, the time of
\* the last image never lies in the future.
THEOREM MotionTypeCorrect == Spec => []TypeOK
<1>1. Init => TypeOK
  BY InitInv DEF DetectorInv
<1> QED  BY <1>1, StepType, PTL DEF Spec

LEMMA InvariantHolds == Spec => []DetectorInv
BY InitInv, StepInv, PTL DEF Spec

\* Whatever call of the frame loop raises, an image is only published while the
\* last flag of its process is a flag 1.
THEOREM MotionImages == Spec => []ImageUnderFlag
<1>1. DetectorInv => ImageUnderFlag
  BY DEF DetectorInv
<1> QED  BY <1>1, InvariantHolds, PTL

\* Two images of one motion are PublishCooldown apart.
THEOREM MotionSpacing == Spec => []ImagesSpaced
<1>1. DetectorInv => ImagesSpaced
  BY DEF DetectorInv
<1> QED  BY <1>1, InvariantHolds, PTL

-----------------------------------------------------------------------------
(* What subscribers were told, and motion that is shown.                   *)

\* While last_motion_state is 1, the time last_publish_time is that of an image
\* (or of the attempt to encode one) of this process.
PublishLogged ==
    lastMotionState = 1 =>
        \E i \in DOMAIN out :
            /\ out[i].run = run /\ out[i].kind \in ImageOutcomes
            /\ out[i].at = lastPublish

ToldInv == FlagTellsState /\ PublishLogged

\* The log after one line, and after the two lines of a beginning motion.
LEMMA OneMore ==
    ASSUME TypeOK, NEW kind \in Kinds, Grows(<<kind>>)
    PROVE  /\ Len(out) \in Nat /\ Len(out') = Len(out) + 1
           /\ DOMAIN out = 1..Len(out) /\ DOMAIN out' = 1..(Len(out) + 1)
           /\ \A i \in 1..Len(out) : out'[i] = out[i]
           /\ out'[Len(out) + 1].kind = kind
           /\ out'[Len(out) + 1].run = run /\ out'[Len(out) + 1].at = now
<1>1. <<kind>> \in Seq(Kinds) /\ Len(<<kind>>) = 1 /\ <<kind>>[1] = kind
  OBVIOUS
<1>2. \A i \in 1..1 : out'[Len(out) + i] = [kind |-> <<kind>>[i], run |-> run,
                                           at |-> now, id |-> imageId]
  BY <1>1, LinesAppended
<1>3. out'[Len(out) + 1] = [kind |-> kind, run |-> run, at |-> now, id |-> imageId]
  BY <1>1, <1>2
<1>4. /\ out'[Len(out) + 1].kind = kind
      /\ out'[Len(out) + 1].run = run /\ out'[Len(out) + 1].at = now
  BY <1>3
<1>5. Len(out') = Len(out) + 1
  BY <1>1, LinesAppended
<1>6. /\ Len(out) \in Nat
      /\ DOMAIN out = 1..Len(out) /\ DOMAIN out' = 1..(Len(out) + 1)
      /\ \A i \in 1..Len(out) : out'[i] = out[i]
  BY <1>1, OldLines
<1> QED  BY <1>4, <1>5, <1>6

LEMMA TwoMore ==
    ASSUME TypeOK, NEW kind \in Kinds, Grows(<<"flag1", kind>>)
    PROVE  /\ Len(out) \in Nat /\ Len(out') = Len(out) + 2
           /\ DOMAIN out = 1..Len(out) /\ DOMAIN out' = 1..(Len(out) + 2)
           /\ \A i \in 1..Len(out) : out'[i] = out[i]
           /\ out'[Len(out) + 1].kind = "flag1"
           /\ out'[Len(out) + 2].kind = kind
           /\ out'[Len(out) + 2].run = run /\ out'[Len(out) + 2].at = now
<1>1. /\ <<"flag1", kind>> \in Seq(Kinds) /\ Len(<<"flag1", kind>>) = 2
      /\ <<"flag1", kind>>[1] = "flag1" /\ <<"flag1", kind>>[2] = kind
  BY DEF Kinds
<1>2. \A i \in 1..2 : out'[Len(out) + i] = [kind |-> <<"flag1", kind>>[i], run |-> run,
                                           at |-> now, id |-> imageId]
  BY <1>1, LinesAppended
<1>3. 1 \in 1..2 /\ 2 \in 1..2
  OBVIOUS
<1>4. /\ out'[Len(out) + 1] = [kind |-> "flag1", run |-> run, at |-> now, id |-> imageId]
      /\ out'[Len(out) + 2] = [kind |-> kind, run |-> run, at |-> now, id |-> imageId]
  BY <1>1, <1>2, <1>3, Zenon
<1>5. /\ out'[Len(out) + 1].kind = "flag1"
      /\ out'[Len(out) + 2].kind = kind
      /\ out'[Len(out) + 2].run = run /\ out'[Len(out) + 2].at = now
  BY <1>4
<1>6. Len(out') = Len(out) + 2
  BY <1>1, LinesAppended
<1>7. /\ Len(out) \in Nat
      /\ DOMAIN out = 1..Len(out) /\ DOMAIN out' = 1..(Len(out) + 2)
      /\ \A i \in 1..Len(out) : out'[i] = out[i]
  BY <1>1, OldLines
<1> QED  BY <1>5, <1>6, <1>7

\* A frame keeps the promise: what it logs last fits the state it leaves.
LEMMA FrameTold == DetectorInv /\ ToldInv /\ ReadFrame => ToldInv'
<1> SUFFICES ASSUME DetectorInv, ToldInv, ReadFrame PROVE ToldInv'
  OBVIOUS
<1> DEFINE n == Len(out)
<1>0. TypeOK /\ UNCHANGED <<run, now>> /\ lastMotionState \in {0, 1}
  BY DEF DetectorInv, ReadFrame, TypeOK
<1>1. \A image \in ImageOutcomes : image \in Kinds /\ image \notin {"flag0", "flag1", "error"}
  BY DEF ImageOutcomes, Kinds
<1>2. "flag0" \in Kinds /\ "error" \in Kinds
  BY DEF Kinds
<1>3. ASSUME NEW image \in ImageOutcomes, BeginsMotion(image) PROVE ToldInv'
  <2>1. /\ n \in Nat /\ Len(out') = n + 2
        /\ DOMAIN out' = 1..(n + 2)
        /\ out'[n + 1].kind = "flag1"
        /\ out'[n + 2].kind = image /\ out'[n + 2].run = run /\ out'[n + 2].at = now
    BY <1>0, <1>1, <1>3, TwoMore DEF BeginsMotion
  <2>2. lastMotionState' = 1 /\ lastPublish' = now
    BY <1>3 DEF BeginsMotion
  <2> HIDE DEF n
  <2>3. FlagTellsState'
    <3> SUFFICES ASSUME NEW i \in 1..(n + 2), out'[i].kind \in {"flag0", "flag1"},
                        \A k \in (i + 1)..(n + 2) : out'[k].kind \notin {"flag0", "flag1", "error"}
                 PROVE  out'[i].kind = "flag1"
      BY <2>1, <2>2 DEF FlagTellsState
    <3>1. i # n + 2
      BY <1>1, <2>1
    <3>2. ~(i <= n)
      BY <2>1
    <3> QED  BY <2>1, <3>1, <3>2
  <2>4. PublishLogged'
    BY <1>0, <2>1, <2>2 DEF PublishLogged
  <2> QED  BY <2>3, <2>4 DEF ToldInv
<1>4. ASSUME NEW image \in ImageOutcomes, ShowsMotion(image) PROVE ToldInv'
  <2>1. /\ n \in Nat /\ Len(out') = n + 1 /\ n = Len(out)
        /\ DOMAIN out = 1..n /\ DOMAIN out' = 1..(n + 1)
        /\ \A i \in 1..n : out'[i] = out[i]
        /\ out'[n + 1].kind = image /\ out'[n + 1].run = run /\ out'[n + 1].at = now
    BY <1>0, <1>1, <1>4, OneMore DEF ShowsMotion
  <2>2. lastMotionState = 1 /\ lastMotionState' = 1 /\ lastPublish' = now
    BY <1>4 DEF ShowsMotion
  <2> HIDE DEF n
  <2>3. FlagTellsState'
    <3> SUFFICES ASSUME NEW i \in 1..(n + 1),
                        out'[i].run = run, out'[i].kind \in {"flag0", "flag1"},
                        \A k \in (i + 1)..(n + 1) : out'[k].kind \notin {"flag0", "flag1", "error"}
                 PROVE  out'[i].kind = "flag1"
      BY <1>0, <2>1, <2>2 DEF FlagTellsState
    <3>1. i \in 1..n
      BY <1>1, <2>1
    <3>2. \A k \in (i + 1)..n : out[k].kind \notin {"flag0", "flag1", "error"}
      BY <2>1, <3>1
    <3> QED  BY <2>1, <2>2, <3>1, <3>2 DEF ToldInv, FlagTellsState
  <2>4. PublishLogged'
    BY <1>0, <2>1, <2>2 DEF PublishLogged
  <2> QED  BY <2>3, <2>4 DEF ToldInv
<1>5. CASE SaysNothing
  BY <1>0, <1>5 DEF SaysNothing, ToldInv, FlagTellsState, PublishLogged
<1>6. CASE EndsMotion
  <2>1. /\ n \in Nat /\ Len(out') = n + 1
        /\ DOMAIN out' = 1..(n + 1) /\ out'[n + 1].kind = "flag0"
    BY <1>0, <1>2, <1>6, OneMore DEF EndsMotion
  <2>2. lastMotionState' = 0
    BY <1>6 DEF EndsMotion
  <2> HIDE DEF n
  <2>3. ASSUME NEW i \in 1..(n + 1),
               \A k \in (i + 1)..(n + 1) : out'[k].kind \notin {"flag0", "flag1", "error"}
        PROVE  out'[i].kind = "flag0"
    BY <2>1, <2>3
  <2> QED  BY <2>1, <2>2, <2>3 DEF ToldInv, FlagTellsState, PublishLogged
<1>7. CASE Fails
  <2>1. \E m \in {1, 2} :
           /\ n \in Nat /\ n = Len(out) /\ Len(out') = n + m
           /\ DOMAIN out = 1..n /\ DOMAIN out' = 1..(n + m)
           /\ \A i \in 1..n : out'[i] = out[i]
           /\ out'[n + m].kind = "error"
    <3>1. CASE Grows(<<"error">>)
      BY <1>0, <1>2, <3>1, OneMore
    <3>2. CASE Grows(<<"flag1", "error">>)
      BY <1>0, <1>2, <3>2, TwoMore
    <3> QED  BY <1>7, <3>1, <3>2 DEF Fails
  <2>2. UNCHANGED <<lastMotionState, lastPublish>>
    BY <1>7 DEF Fails
  <2> HIDE DEF n
  <2>3. PICK m \in {1, 2} :
           /\ n \in Nat /\ n = Len(out) /\ Len(out') = n + m
           /\ DOMAIN out = 1..n /\ DOMAIN out' = 1..(n + m)
           /\ \A i \in 1..n : out'[i] = out[i]
           /\ out'[n + m].kind = "error"
    BY <2>1
  <2>4. FlagTellsState'
    <3>1. ASSUME NEW i \in 1..(n + m), out'[i].kind \in {"flag0", "flag1"}
          PROVE  n + m \in (i + 1)..(n + m)
      BY <2>3, <3>1
    <3> QED  BY <2>3, <3>1 DEF FlagTellsState
  <2>5. PublishLogged'
    BY <1>0, <2>2, <2>3 DEF ToldInv, PublishLogged
  <2> QED  BY <2>4, <2>5 DEF ToldInv
<1> QED  BY <1>3, <1>4, <1>5, <1>6, <1>7, FrameKinds

LEMMA StepTold == DetectorInv /\ ToldInv /\ [Next]_vars => ToldInv'
<1> SUFFICES ASSUME DetectorInv, ToldInv, [Next]_vars PROVE ToldInv'
  OBVIOUS
<1>1. CASE ReadFrame
  BY <1>1, FrameTold
<1>2. CASE Restart
  <2>1. out' = out /\ run' = run + 1 /\ lastMotionState' = 0
    BY <1>2 DEF Restart, Fresh
  <2>2. \A i \in DOMAIN out : out[i] \in Line /\ out[i].run <= run
    BY OldLines, ElementOfSeq, LenProperties DEF DetectorInv, TypeOK, LastPublishLatest
  <2>3. \A i \in DOMAIN out : out[i].run # run'
    BY <2>1, <2>2 DEF Line, DetectorInv, TypeOK
  <2> QED  BY <2>1, <2>3 DEF ToldInv, FlagTellsState, PublishLogged
<1>3. CASE ~ReadFrame /\ ~Restart
  <2>1. UNCHANGED <<out, run, lastPublish, lastMotionState>>
    BY <1>3 DEF Next, Probe, ProbeAgain, ShortRead, StreamEnds, StreamReturns, Tick,
                vars, detectorVars
  <2> QED  BY <2>1 DEF ToldInv, FlagTellsState, PublishLogged
<1> QED  BY <1>1, <1>2, <1>3

LEMMA ToldHolds == Spec => []ToldInv
<1>1. Init => ToldInv
  BY DEF Init, Fresh, ToldInv, FlagTellsState, PublishLogged
<1> QED  BY <1>1, StepTold, InvariantHolds, PTL DEF Spec

\* Subscribers know the state: the last flag of a process says what
\* last_motion_state is, as long as no exception came after it.
THEOREM MotionFlagTellsState == Spec => []FlagTellsState
<1>1. ToldInv => FlagTellsState
  BY DEF ToldInv
<1> QED  BY <1>1, ToldHolds, PTL

\* A frame with motion publishes, or finds the last image young enough, or raises.
LEMMA FrameShown ==
    ASSUME DetectorInv, ToldInv, ReadFrame, lastMotionState' = 1
    PROVE  \/ out' # out /\ Last(out').kind = "error"
           \/ \E i \in DOMAIN out' :
                 /\ out'[i].run = run /\ out'[i].kind \in ImageOutcomes
                 /\ now - out'[i].at < PublishCooldown
<1>0. TypeOK /\ now \in Nat /\ lastPublish \in Nat /\ PublishCooldown \in Nat \ {0}
  BY MotionAssumption DEF DetectorInv, TypeOK
<1>1. \A image \in ImageOutcomes : image \in Kinds
  BY DEF ImageOutcomes, Kinds
<1>2. ASSUME NEW image \in ImageOutcomes, BeginsMotion(image) \/ ShowsMotion(image)
      PROVE  \E i \in DOMAIN out' :
                /\ out'[i].run = run /\ out'[i].kind \in ImageOutcomes
                /\ now - out'[i].at < PublishCooldown
  <2>1. \E i \in DOMAIN out' : out'[i].run = run /\ out'[i].kind = image /\ out'[i].at = now
    <3>1. CASE BeginsMotion(image)
      BY <1>0, <1>1, <3>1, TwoMore DEF BeginsMotion
    <3>2. CASE ShowsMotion(image)
      BY <1>0, <1>1, <3>2, OneMore DEF ShowsMotion
    <3> QED  BY <1>2, <3>1, <3>2
  <2> QED  BY <1>0, <2>1
<1>3. CASE SaysNothing
  <2>1. out' = out /\ lastMotionState = 1 /\ ~CooldownOver
    BY <1>3 DEF SaysNothing
  <2>2. now - lastPublish < PublishCooldown
    BY <1>0, <2>1 DEF CooldownOver
  <2> QED  BY <2>1, <2>2 DEF ToldInv, PublishLogged
<1>4. ~EndsMotion
  BY DEF EndsMotion
<1>5. CASE Fails
  <2>1. "error" \in Kinds
    BY DEF Kinds
  <2>2. \E m \in {1, 2} : /\ Len(out) \in Nat /\ Len(out') = Len(out) + m
                          /\ out'[Len(out) + m].kind = "error"
    <3>1. CASE Grows(<<"error">>)
      BY <1>0, <2>1, <3>1, OneMore
    <3>2. CASE Grows(<<"flag1", "error">>)
      BY <1>0, <2>1, <3>2, TwoMore
    <3> QED  BY <1>5, <3>1, <3>2 DEF Fails
  <2>3. out' # out /\ out'[Len(out')].kind = "error"
    BY <2>2
  <2> QED  BY <2>3 DEF Last
<1> QED  BY <1>2, <1>3, <1>4, <1>5, FrameKinds

\* Motion is shown: after each frame with motion, an image (or the attempt to encode
\* one) is less than PublishCooldown old, or the frame raised.
THEOREM MotionIsShown == Spec => MotionShown
<1>1. [Next]_vars /\ frames' # frames => ReadFrame
  BY DEF Next, Probe, ProbeAgain, ShortRead, StreamEnds, StreamReturns, Restart, Tick, vars
<1>2. DetectorInv /\ ToldInv /\ [Next]_vars =>
         [frames' # frames /\ lastMotionState' = 1 =>
             \/ out' # out /\ Last(out').kind = "error"
             \/ \E i \in DOMAIN out' :
                   /\ out'[i].run = run /\ out'[i].kind \in ImageOutcomes
                   /\ now - out'[i].at < PublishCooldown]_vars
  BY <1>1, FrameShown
<1> QED  BY <1>2, InvariantHolds, ToldHolds, PTL DEF Spec, MotionShown
=============================================================================
