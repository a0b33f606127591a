--------------------------- MODULE ServicesProofs ---------------------------
(***************************************************************************)
(* Theorems of the single-process services: the detection node on any      *)
(* hosts, names, clocks and lengths of a day; the dashboard behind a       *)
(* collector of any window; the alert service of .draft/ with any class    *)
(* sets, waits and channels.                                               *)
(***************************************************************************)
EXTENDS MCServices, Sums, SequenceTheorems

-----------------------------------------------------------------------------
(* The age of an image: arithmetic modulo the length of a day.             *)

\* Quotient and rest.
LEMMA DivMod ==
    ASSUME NEW d \in Nat \ {0}, NEW a \in Int
    PROVE  /\ a % d \in 0..(d - 1)
           /\ a \div d \in Int
           /\ a = d * (a \div d) + (a % d)
<1>1. a % d \in 0..(d - 1)  BY SMT
<1>2. a \div d \in Int  BY SMT
<1>3. a = d * (a \div d) + (a % d)  BY SMT
<1> QED  BY <1>1, <1>2, <1>3

\* The rest is unique.
LEMMA RestUnique ==
    ASSUME NEW d \in Nat \ {0}, NEW p \in Int, NEW q \in Int,
           NEW r \in 0..(d - 1), NEW s \in 0..(d - 1), d * p + r = d * q + s
    PROVE  r = s
<1>1. d * (p - q) = s - r
  BY SMT
<1>2. CASE p - q >= 1
  <2>1. d * (p - q) >= d  BY <1>2, SMT
  <2> QED  BY <1>1, <2>1, SMT
<1>3. CASE p - q <= -1
  <2>1. d * (p - q) <= -d  BY <1>3, SMT
  <2> QED  BY <1>1, <2>1, SMT
<1>4. CASE p = q
  BY <1>1, <1>4, SMT
<1> QED  BY <1>2, <1>3, <1>4, SMT

LEMMA MultipleRest ==
    ASSUME NEW d \in Nat \ {0}, NEW k \in Int
    PROVE  (d * k) % d = 0
<1>1. d * k \in Int /\ d * k = d * k + 0
  BY SMT
<1>2. d * k = d * ((d * k) \div d) + ((d * k) % d)
  BY <1>1, DivMod
<1> QED  BY <1>1, <1>2, DivMod, RestUnique, SMT

LEMMA DifferenceOfRests ==
    ASSUME NEW S \in Int, NEW R \in Int, NEW B \in Int, NEW s \in Int, NEW r \in Int,
           NEW sent, NEW received, NEW age,
           sent = S + s, received = R + r, age = r - s + B
    PROVE  age - (received - sent) = S - R + B
OBVIOUS

LEMMA Distributive ==
    ASSUME NEW d \in Int, NEW a \in Int, NEW b \in Int, NEW c \in Int
    PROVE  d * a - d * b + d * c = d * (a - b + c)
BY SMT

\* QueueAge of two times of day that differ by delay, up to whole days: it is a
\* time of day, and the delay up to whole days.
LEMMA AgeOfDelay ==
    ASSUME NEW sent \in Int, NEW received \in Int
    PROVE  LET age == QueueAge(sent % Day, received % Day) IN
           /\ age \in 0..(Day - 1)
           /\ (age - (received - sent)) % Day = 0
<1> DEFINE age == QueueAge(sent % Day, received % Day)
<1>1. Day \in Nat \ {0}
  BY SharedAssumption
<1>2. /\ sent % Day \in 0..(Day - 1) /\ sent \div Day \in Int
      /\ sent = Day * (sent \div Day) + (sent % Day)
  BY <1>1, DivMod
<1>3. /\ received % Day \in 0..(Day - 1) /\ received \div Day \in Int
      /\ received = Day * (received \div Day) + (received % Day)
  BY <1>1, DivMod
<1>4. PICK back \in {0, 1} : age = (received % Day) - (sent % Day) + Day * back
  <2>1. CASE sent % Day > received % Day
    <3>1. age = (received % Day) - (sent % Day) + Day
      BY <2>1 DEF QueueAge
    <3> QED  BY <3>1, <1>1, <1>2, <1>3
  <2>2. CASE ~(sent % Day > received % Day)
    <3>1. age = (received % Day) - (sent % Day)
      BY <2>2 DEF QueueAge
    <3> QED  BY <3>1, <1>1, <1>2, <1>3
  <2> QED  BY <2>1, <2>2
<1>5. age \in 0..(Day - 1)
  BY <1>1, <1>2, <1>3 DEF QueueAge
<1>6. age - (received - sent)
        = Day * (sent \div Day) - Day * (received \div Day) + Day * back
  <2> DEFINE S == Day * (sent \div Day)
             R == Day * (received \div Day)
             B == Day * back
  <2>1. S \in Int /\ R \in Int /\ B \in Int
    BY <1>1, <1>2, <1>3
  <2>2. sent % Day \in Int /\ received % Day \in Int
    BY <1>1, <1>2, <1>3
  <2> HIDE DEF age, S, R, B
  <2>3. age = (received % Day) - (sent % Day) + B
    BY <1>4 DEF B
  <2>4. sent = S + (sent % Day) /\ received = R + (received % Day)
    BY <1>2, <1>3 DEF S, R
  <2>5. age - (received - sent) = S - R + B
    BY <2>1, <2>2, <2>3, <2>4, DifferenceOfRests
  <2> QED  BY <2>5 DEF S, R, B
<1>7. Day * (sent \div Day) - Day * (received \div Day) + Day * back
        = Day * ((sent \div Day) - (received \div Day) + back)
  BY <1>1, <1>2, <1>3, Distributive
<1>8. (age - (received - sent)) % Day = 0
  BY <1>1, <1>2, <1>3, <1>6, <1>7, MultipleRest
<1> QED  BY <1>5, <1>8

-----------------------------------------------------------------------------
(* Names.                                                                  *)

\* ros_namespace of a name that is not empty "returns a ROS 2-safe namespace"
\* (ros_common.py:15): not empty, of legal characters and without a leading digit.
\* A name that is safe already is its own namespace, and so a namespace is its own.
THEOREM NamespaceIsSafe ==
    ASSUME NEW name \in Seq(STRING), name # <<>>
    PROVE  /\ RosNamespace(name) \in Seq(LegalChars) /\ RosNamespace(name) # <<>>
           /\ RosNamespace(name)[1] \notin Digits
           /\ RosNamespace(RosNamespace(name)) = RosNamespace(name)
<1> DEFINE short == Sanitize(name)
           long == <<Underscore>> \o short
<1>1. Underscore \in LegalChars /\ Underscore \notin Digits
  BY SharedAssumption
<1>2. /\ Len(name) \in Nat /\ Len(name) >= 1
      /\ short \in Seq(LegalChars) /\ Len(short) = Len(name)
  BY <1>1 DEF Sanitize
<1>3. long \in Seq(LegalChars) /\ Len(long) >= 1 /\ long[1] = Underscore
  <2> HIDE DEF short
  <2> QED  BY <1>1, <1>2
<1>4. ASSUME NEW s \in Seq(LegalChars) PROVE Sanitize(s) = s
  <2>1. Sanitize(s) \in Seq(LegalChars) /\ Len(Sanitize(s)) = Len(s)
    BY <1>1 DEF Sanitize
  <2>2. \A i \in 1..Len(s) : Sanitize(s)[i] = s[i]
    BY DEF Sanitize
  <2> QED  BY <2>1, <2>2
<1>5. ASSUME NEW s \in Seq(LegalChars), s[1] \notin Digits PROVE RosNamespace(s) = s
  BY <1>4, <1>5 DEF RosNamespace
<1>6. CASE short[1] \in Digits
  <2>1. RosNamespace(name) = long
    BY <1>6 DEF RosNamespace
  <2>2. long # <<>>
    <3> HIDE DEF long
    <3> QED  BY <1>3
  <2> HIDE DEF long
  <2> QED  BY <1>1, <1>3, <1>5, <2>1, <2>2
<1>7. CASE short[1] \notin Digits
  <2>1. RosNamespace(name) = short
    BY <1>7 DEF RosNamespace
  <2> HIDE DEF short
  <2>2. short # <<>>
    BY <1>2
  <2> QED  BY <1>2, <1>5, <1>7, <2>1, <2>2
<1> QED  BY <1>6, <1>7

-----------------------------------------------------------------------------
(* The detection node.                                                     *)

\* The images that may wait for the detector: published in its namespace, with
\* the publisher's time of day.
FromNamespace ==
    {m \in ImageMessages :
        /\ NamespaceOf(m.sender) = NamespaceOf(place["detector"])
        /\ m.ts = (m.at + ClockError[m.sender]) % Day}

DetectionInv ==
    /\ DetectionTypeOK
    /\ imageQueue \in Seq(FromNamespace)
    /\ confidence = Load(env, YamlConfidence)

\* The threshold in force is a number.
LEMMA LoadType == ASSUME env \in Texts \cup {Unset} PROVE Load(env, YamlConfidence) \in Nat
BY SharedAssumption, DetectionAssumption DEF Load, Coerce, Unparsable, Unset

\* An image takes the place of the oldest in a full queue.
LEMMA ArriveImageType ==
    ASSUME NEW S, imageQueue \in Seq(S), Len(imageQueue) <= QueueDepth, NEW m \in S
    PROVE  ArriveImage(m) \in Seq(S) /\ Len(ArriveImage(m)) <= QueueDepth
<1>1. QueueDepth \in Nat \ {0} /\ Len(imageQueue) \in Nat
  BY DetectionAssumption
<1>2. CASE Len(imageQueue) < QueueDepth
  BY <1>1, <1>2 DEF ArriveImage
<1>3. CASE ~(Len(imageQueue) < QueueDepth)
  <2>1. imageQueue # <<>>
    BY <1>1, <1>3
  <2>2. Tail(imageQueue) \in Seq(S) /\ Len(Tail(imageQueue)) = Len(imageQueue) - 1
    BY <2>1
  <2> QED  BY <1>1, <1>3, <2>2 DEF ArriveImage
<1> QED  BY <1>2, <1>3

\* A step that leaves the queue to messages of the detector's namespace keeps it
\* typed.
LEMMA QueueTyped ==
    ASSUME NEW q \in Seq(FromNamespace), NEW i \in DOMAIN q
    PROVE  q[i] \in ImageMessages
<1>1. q[i] \in FromNamespace
  BY ElementOfSeq, LenProperties
<1> QED  BY <1>1 DEF FromNamespace

LEMMA DetectionStart == DetectionInit => DetectionInv
<1> SUFFICES ASSUME DetectionInit PROVE DetectionInv
  OBVIOUS
<1>1. imageQueue \in Seq(FromNamespace) /\ Len(imageQueue) = 0 /\ DOMAIN imageQueue = {}
  BY DEF DetectionInit
<1>2. confidence \in Nat
  BY LoadType DEF DetectionInit
<1>3. DetectionTypeOK
  BY <1>1, <1>2, DetectionAssumption DEF DetectionInit, DetectionTypeOK
<1> QED  BY <1>1, <1>3 DEF DetectionInit, DetectionInv

\* A step that leaves the detector where it is leaves FromNamespace as it is.
LEMMA SameNamespace ==
    ASSUME place' = place \/ place'["detector"] = place["detector"]
    PROVE  FromNamespace' = FromNamespace
BY DEF FromNamespace, NamespaceOf

LEMMA PublishInv == DetectionInv /\ PublishToDetector => DetectionInv'
<1> SUFFICES ASSUME DetectionInv, PublishToDetector PROVE DetectionInv'
  OBVIOUS
<1> USE DEF DetectionInv
<1>1. /\ imageCount' = imageCount + 1 /\ imageCount < MaxImages
      /\ place' = place /\ moves' = moves /\ env' = env
      /\ confidence' = confidence /\ theTime' = theTime
  BY DEF PublishToDetector
<1>2. FromNamespace' = FromNamespace
  BY <1>1, SameNamespace
<1>3. MaxImages \in Nat /\ LastTime \in Nat /\ Day \in Nat \ {0}
  BY DetectionAssumption, SharedAssumption
<1>4. /\ place["motion"] \in Hosts /\ ClockError[place["motion"]] \in Int
      /\ theTime \in 0..LastTime /\ imageCount + 1 \in 1..MaxImages
  BY <1>1, <1>3, DetectionAssumption DEF DetectionTypeOK, Services
<1>5. PICK c \in Certainties, intact \in BOOLEAN :
         LET m == [id |-> imageCount + 1, sender |-> place["motion"],
                   ts |-> TimeOfDay(place["motion"]), at |-> theTime,
                   certainty |-> c, intact |-> intact] IN
         imageQueue' = IF Heard("motion", "detector") THEN ArriveImage(m) ELSE imageQueue
  BY DEF PublishToDetector
<1> DEFINE m == [id |-> imageCount + 1, sender |-> place["motion"],
                 ts |-> TimeOfDay(place["motion"]), at |-> theTime,
                 certainty |-> c, intact |-> intact]
<1>6. imageQueue' \in Seq(FromNamespace) /\ Len(imageQueue') <= QueueDepth
  <2>1. CASE ~Heard("motion", "detector")
    BY <1>5, <2>1 DEF DetectionTypeOK
  <2>2. CASE Heard("motion", "detector")
    <3>1. TimeOfDay(place["motion"]) \in 0..(Day - 1)
      BY <1>3, <1>4, DivMod DEF TimeOfDay
    <3>2. m \in ImageMessages
      BY <1>4, <3>1 DEF ImageMessages
    <3>3. NamespaceOf(m.sender) = NamespaceOf(place["detector"])
      BY <2>2 DEF Heard
    <3>4. m.ts = (m.at + ClockError[m.sender]) % Day
      BY DEF TimeOfDay
    <3>5. m \in FromNamespace
      BY <3>2, <3>3, <3>4 DEF FromNamespace
    <3>6. imageQueue' = ArriveImage(m)
      BY <1>5, <2>2
    <3> HIDE DEF m
    <3> QED  BY <3>5, <3>6, ArriveImageType DEF DetectionTypeOK
  <2> QED  BY <2>1, <2>2
<1>7. \A i \in DOMAIN imageQueue' : imageQueue'[i] \in ImageMessages
  BY <1>6, QueueTyped
<1>8. DetectionTypeOK'
  BY <1>1, <1>3, <1>4, <1>6, <1>7 DEF DetectionTypeOK
<1> QED  BY <1>1, <1>2, <1>6, <1>8

\* What waits behind the image that is read.
LEMMA WaitingImages ==
    ASSUME NEW S, NEW q \in Seq(S), q # <<>>
    PROVE  /\ Head(q) \in S /\ Tail(q) \in Seq(S)
           /\ Len(Tail(q)) = Len(q) - 1 /\ Len(q) \in Nat
OBVIOUS

LEMMA OnImageInv == DetectionInv /\ OnImage => DetectionInv'
<1> SUFFICES ASSUME DetectionInv, OnImage PROVE DetectionInv'
  OBVIOUS
<1> USE DEF DetectionInv
<1>1. /\ imageQueue # <<>> /\ imageQueue' = Tail(imageQueue)
      /\ place' = place /\ moves' = moves /\ env' = env
      /\ confidence' = confidence /\ theTime' = theTime /\ imageCount' = imageCount
  BY DEF OnImage, UndecodedImage
<1>2. FromNamespace' = FromNamespace
  BY <1>1, SameNamespace
<1>3. imageQueue' \in Seq(FromNamespace) /\ Len(imageQueue') <= QueueDepth
  BY <1>1, WaitingImages, DetectionAssumption DEF DetectionTypeOK
<1>4. \A i \in DOMAIN imageQueue' : imageQueue'[i] \in ImageMessages
  BY <1>3, QueueTyped
<1>5. DetectionTypeOK'
  BY <1>1, <1>3, <1>4 DEF DetectionTypeOK
<1> QED  BY <1>1, <1>2, <1>3, <1>5

LEMMA MoveInv ==
    ASSUME NEW s \in Services, NEW h \in Hosts
    PROVE  DetectionInv /\ MoveService(s, h) => DetectionInv'
<1> SUFFICES ASSUME DetectionInv, MoveService(s, h) PROVE DetectionInv'
  OBVIOUS
<1> USE DEF DetectionInv
<1>1. /\ moves < MaxMoves /\ moves' = moves + 1
      /\ place' = [place EXCEPT ![s] = h]
      /\ env' = env /\ theTime' = theTime /\ imageCount' = imageCount
      /\ imageQueue' = IF s = "detector" THEN <<>> ELSE imageQueue
      /\ confidence' = IF s = "detector" THEN Load(env, YamlConfidence) ELSE confidence
  BY DEF MoveService
<1>2. confidence' = Load(env', YamlConfidence) /\ confidence' \in Nat
  BY <1>1, LoadType DEF DetectionTypeOK
<1>3. place' \in [Services -> Hosts] /\ moves' \in 0..MaxMoves
  BY <1>1, DetectionAssumption DEF DetectionTypeOK
<1>4. imageQueue' \in Seq(FromNamespace') /\ Len(imageQueue') <= QueueDepth
  <2>1. CASE s = "detector"
    <3>1. imageQueue' = <<>> /\ QueueDepth \in Nat
      BY <1>1, <2>1, DetectionAssumption
    <3>2. <<>> \in Seq(FromNamespace') /\ Len(<<>>) = 0
      OBVIOUS
    <3> QED  BY <3>1, <3>2
  <2>2. CASE s # "detector"
    <3>1. place'["detector"] = place["detector"]
      BY <1>1, <2>2 DEF DetectionTypeOK, Services
    <3> QED  BY <1>1, <2>2, <3>1, SameNamespace DEF DetectionTypeOK
  <2> QED  BY <2>1, <2>2
<1>5. \A i \in DOMAIN imageQueue' : imageQueue'[i] \in ImageMessages
  <2>1. ASSUME NEW i \in DOMAIN imageQueue' PROVE imageQueue'[i] \in FromNamespace'
    BY <1>4, <2>1, ElementOfSeq, LenProperties
  <2> QED  BY <2>1 DEF FromNamespace
<1>6. DetectionTypeOK'
  BY <1>1, <1>2, <1>3, <1>4, <1>5 DEF DetectionTypeOK
<1> QED  BY <1>2, <1>4, <1>6

LEMMA DetectionStep == DetectionInv /\ [DetectionNext]_detectionVars => DetectionInv'
<1> SUFFICES ASSUME DetectionInv, [DetectionNext]_detectionVars PROVE DetectionInv'
  OBVIOUS
<1>1. CASE DetectionTick
  <2>1. /\ theTime' = theTime + 1 /\ theTime < LastTime
        /\ place' = place /\ moves' = moves /\ env' = env /\ confidence' = confidence
        /\ imageCount' = imageCount /\ imageQueue' = imageQueue
    BY <1>1 DEF DetectionTick
  <2>2. theTime' \in 0..LastTime
    BY <2>1, DetectionAssumption DEF DetectionInv, DetectionTypeOK
  <2> QED  BY <2>1, <2>2, SameNamespace DEF DetectionInv, DetectionTypeOK
<1>2. CASE DetectionOver \/ UNCHANGED detectionVars
  <2>1. /\ place' = place /\ moves' = moves /\ env' = env /\ confidence' = confidence
        /\ imageCount' = imageCount /\ imageQueue' = imageQueue /\ theTime' = theTime
    BY <1>2 DEF DetectionOver, detectionVars
  <2> QED  BY <2>1, SameNamespace DEF DetectionInv, DetectionTypeOK
<1> QED  BY <1>1, <1>2, PublishInv, OnImageInv, MoveInv DEF DetectionNext

LEMMA DetectionInvHolds == DetectionSpec => []DetectionInv
BY DetectionStart, DetectionStep, PTL DEF DetectionSpec

\* The log of ages and the results that arrived, which only OnImage extends.
DetectionLogs == OwnNamespace /\ AgeUpToDays

LEMMA OnImageLogs == DetectionInv /\ DetectionLogs /\ OnImage => DetectionLogs'
<1> SUFFICES ASSUME DetectionInv, DetectionLogs, OnImage PROVE DetectionLogs'
  OBVIOUS
<1>1. CASE UNCHANGED <<ages, arrived>>
  BY <1>1 DEF DetectionLogs, OwnNamespace, AgeUpToDays, OnImage
<1>2. CASE ~UNCHANGED <<ages, arrived>>
  <2> DEFINE m == Head(imageQueue)
             entry == [age |-> QueueAge(m.ts, TimeOfDay(place["detector"])),
                       delay |-> theTime - m.at, sender |-> m.sender,
                       receiver |-> place["detector"]]
  <2>1. /\ imageQueue # <<>> /\ place' = place /\ env' = env
        /\ ages' = ages \cup {entry}
        /\ arrived' = IF Heard("detector", "alert") THEN arrived \cup {ResultOf(m)} ELSE arrived
    BY <1>2 DEF OnImage, UndecodedImage
  <2>2. m \in FromNamespace
    BY <2>1, WaitingImages DEF DetectionInv
  <2>3. /\ m \in ImageMessages
        /\ NamespaceOf(m.sender) = NamespaceOf(place["detector"])
        /\ m.ts = (m.at + ClockError[m.sender]) % Day
    BY <2>2 DEF FromNamespace
  <2>4. m.sender \in Hosts /\ m.at \in 0..LastTime
    BY <2>3 DEF ImageMessages
  <2>5. place["detector"] \in Hosts /\ theTime \in 0..LastTime /\ LastTime \in Nat
    BY DetectionAssumption DEF DetectionInv, DetectionTypeOK, Services
  <2>6. AgeUpToDays'
    <3> DEFINE sent == m.at + ClockError[m.sender]
               received == theTime + ClockError[place["detector"]]
    <3>1. ClockError[m.sender] \in Int /\ ClockError[place["detector"]] \in Int
      BY <2>4, <2>5, DetectionAssumption
    <3>2. sent \in Int /\ received \in Int
      BY <2>4, <2>5, <3>1
    <3>3. entry.age = QueueAge(sent % Day, received % Day)
      BY <2>3 DEF TimeOfDay
    <3>4. entry.age \in 0..(Day - 1) /\ (entry.age - (received - sent)) % Day = 0
      BY <3>2, <3>3, AgeOfDelay
    <3>5. received - sent
            = entry.delay + ClockError[entry.receiver] - ClockError[entry.sender]
      BY <2>4, <2>5, <3>1
    <3>6. /\ entry.age \in 0..(Day - 1)
          /\ (entry.age - (entry.delay + ClockError[entry.receiver]
                              - ClockError[entry.sender])) % Day = 0
      BY <3>4, <3>5
    <3> HIDE DEF entry
    <3>7. \A a \in ages' : a \in ages \/ a = entry
      BY <2>1
    <3> QED  BY <3>6, <3>7 DEF DetectionLogs, AgeUpToDays
  <2>7. OwnNamespace'
    <3>1. CASE ~Heard("detector", "alert")
      BY <2>1, <3>1 DEF DetectionLogs, OwnNamespace, NamespaceOf
    <3>2. CASE Heard("detector", "alert")
      <4> DEFINE r == ResultOf(m)
      <4>1. NamespaceOf(r.sender) = NamespaceOf(r.at)
        BY <2>3, <3>2 DEF Heard, ResultOf
      <4> HIDE DEF r
      <4>2. \A a \in arrived' : a \in arrived \/ a = r
        BY <2>1, <3>2 DEF r
      <4> QED  BY <4>1, <4>2 DEF DetectionLogs, OwnNamespace
    <3> QED  BY <3>1, <3>2
  <2> QED  BY <2>6, <2>7 DEF DetectionLogs
<1> QED  BY <1>1, <1>2

LEMMA DetectionLogsStep ==
    DetectionInv /\ DetectionLogs /\ [DetectionNext]_detectionVars => DetectionLogs'
<1> SUFFICES ASSUME DetectionInv, DetectionLogs, [DetectionNext]_detectionVars, ~OnImage
             PROVE  DetectionLogs'
  BY OnImageLogs
<1>1. ages' = ages /\ arrived' = arrived /\ env' = env
  BY DEF DetectionNext, PublishToDetector, DetectionTick, DetectionOver, MoveService, detectionVars
<1> QED  BY <1>1 DEF DetectionLogs, OwnNamespace, AgeUpToDays

LEMMA DetectionLogsHold == DetectionSpec => []DetectionLogs
<1>1. DetectionInit => DetectionLogs
  BY DEF DetectionInit, DetectionLogs, OwnNamespace, AgeUpToDays
<1> QED  BY <1>1, DetectionInvHolds, DetectionLogsStep, PTL DEF DetectionSpec

\* A result comes from a motion service in the alert service's namespace, for
\* all host names and any moves of the three services.
THEOREM DetectionOwnNamespace == DetectionSpec => []OwnNamespace
<1>1. DetectionLogs => OwnNamespace
  BY DEF DetectionLogs
<1> QED  BY <1>1, DetectionLogsHold, PTL

\* The age on_image logs is the true one up to whole days and the difference of
\* the two clocks, however far the clocks are off and however long the image waited.
THEOREM DetectionAge == DetectionSpec => []AgeUpToDays
<1>1. DetectionLogs => AgeUpToDays
  BY DEF DetectionLogs
<1> QED  BY <1>1, DetectionLogsHold, PTL

-----------------------------------------------------------------------------
(* The samplers: types.                                                    *)

Row == [amount : 0..MaxBytes, over : Int]

\* While the sampler sleeps there is room for a row; the counter never goes back.
SamplerInv ==
    /\ monitor \in Monitors
    /\ counted \in BOOLEAN /\ clockSet \in BOOLEAN
    /\ bytes \in 0..MaxBytes /\ from \in 0..bytes
    /\ ticks \in 0..LastTick /\ slept \in 0..LastTick
    /\ wall \in Int /\ since \in Int
    /\ pc \in {"read", "sleep", "ended"}
    /\ rows \in Seq(Row) /\ Len(rows) <= MaxRows
    /\ pc = "sleep" => Len(rows) < MaxRows

\* What Sample appends.
NewRow == [amount |-> IF counted THEN bytes - from ELSE 0, over |-> Elapsed]

LEMMA NewRowType == SamplerInv => NewRow \in Row
<1> SUFFICES ASSUME SamplerInv PROVE NewRow \in Row
  OBVIOUS
<1>1. Elapsed \in Int
  BY TelemetryAssumption DEF SamplerInv, Elapsed
<1>2. (IF counted THEN bytes - from ELSE 0) \in 0..MaxBytes
  BY TelemetryAssumption DEF SamplerInv
<1> QED  BY <1>1, <1>2 DEF NewRow, Row

\* The device and the sampler of a step that is not the sampler's, the device's
\* or the clock's.
LEMMA SamplerFrame ==
    ASSUME UNCHANGED <<deviceVars, samplerVars>>
    PROVE  SamplerInv => SamplerInv'
BY DEF deviceVars, samplerVars, SamplerInv

LEMMA SamplerStep == SamplerInv /\ [TelemetryNext]_telemetryVars => SamplerInv'
<1> SUFFICES ASSUME SamplerInv, [TelemetryNext]_telemetryVars PROVE SamplerInv'
  OBVIOUS
<1>0. {MaxRows, MaxBytes, LastTick} \subseteq Nat
  BY TelemetryAssumption
<1>1. CASE Sleep
  <2>1. /\ pc' = "sleep" /\ Len(rows) < MaxRows /\ slept' = ticks
        /\ from' = FirstReading
        /\ UNCHANGED <<deviceVars, since, rows>>
    BY <1>1 DEF Sleep
  <2>2. FirstReading \in 0..bytes
    BY <1>0 DEF SamplerInv, FirstReading
  <2> QED  BY <2>1, <2>2 DEF SamplerInv, deviceVars
<1>2. CASE Sample
  <2>1. /\ pc = "sleep" /\ pc' = "read" /\ from' = NextReading /\ since' = wall
        /\ rows' = Append(rows, NewRow)
        /\ UNCHANGED <<deviceVars, slept>>
    BY <1>2 DEF Sample, NewRow
  <2>2. NextReading \in 0..bytes
    BY <1>0 DEF SamplerInv, NextReading
  <2>3. rows' \in Seq(Row) /\ Len(rows') = Len(rows) + 1
    BY <2>1, NewRowType, AppendProperties DEF SamplerInv
  <2>4. Len(rows') <= MaxRows
    BY <2>1, <2>3, <1>0 DEF SamplerInv
  <2> QED  BY <2>1, <2>2, <2>3, <2>4 DEF SamplerInv, deviceVars
<1>3. CASE SampleRaises
  BY <1>3 DEF SampleRaises, SamplerInv, deviceVars
<1>4. CASE Transfer
  <2>1. bytes' = bytes + 1 /\ bytes < MaxBytes
        /\ UNCHANGED <<monitor, counted, ticks, wall, clockSet, samplerVars>>
    BY <1>4 DEF Transfer
  <2>2. bytes' \in 0..MaxBytes /\ from' \in 0..bytes'
    BY <2>1, <1>0 DEF SamplerInv, samplerVars
  <2> QED  BY <2>1, <2>2 DEF SamplerInv, samplerVars
<1>5. CASE Second
  <2>1. /\ ticks' = ticks + 1 /\ ticks < LastTick /\ wall' = wall + 1
        /\ UNCHANGED <<monitor, counted, bytes, clockSet, samplerVars>>
    BY <1>5 DEF Second
  <2>2. ticks' \in 0..LastTick /\ wall' \in Int
    BY <2>1, <1>0 DEF SamplerInv
  <2> QED  BY <2>1, <2>2 DEF SamplerInv, samplerVars
<1>6. CASE SetClock
  <2>1. PICK d \in ClockSteps : wall' = wall + d
    BY <1>6 DEF SetClock
  <2>2. wall' \in Int
    BY <2>1, TelemetryAssumption DEF SamplerInv
  <2> QED  BY <1>6, <2>2 DEF SetClock, SamplerInv, samplerVars
<1>7. CASE Connected \/ Collect \/ Dashboard \/ TelemetryOver \/ UNCHANGED telemetryVars
  <2>1. UNCHANGED <<deviceVars, samplerVars>>
    BY <1>7 DEF Connected, Collect, Dashboard, ListNodes, GetDataframe, GetLatest, Rerun, Turn,
         TelemetryOver, telemetryVars
  <2> QED  BY <2>1, SamplerFrame
<1> QED  BY <1>1, <1>2, <1>3, <1>4, <1>5, <1>6, <1>7 DEF TelemetryNext

LEMMA SamplerStart == TelemetryInit => SamplerInv
<1> SUFFICES ASSUME TelemetryInit PROVE SamplerInv
  OBVIOUS
<1>1. rows \in Seq(Row) /\ Len(rows) = 0
  BY DEF TelemetryInit
<1>2. MaxRows \in Nat /\ MaxBytes \in Nat /\ LastTick \in Nat
  BY TelemetryAssumption
<1>3. /\ bytes \in 0..MaxBytes /\ from \in 0..bytes
      /\ ticks \in 0..LastTick /\ slept \in 0..LastTick
      /\ wall \in Int /\ since \in Int /\ Len(rows) <= MaxRows
  BY <1>1, <1>2 DEF TelemetryInit
<1>4. counted \in BOOLEAN /\ clockSet \in BOOLEAN
  BY Zenon DEF TelemetryInit
<1>5. monitor \in Monitors /\ pc = "read"
  BY DEF TelemetryInit
<1> QED  BY <1>1, <1>3, <1>4, <1>5 DEF SamplerInv
-----------------------------------------------------------------------------
(* The collector and the dashboard: the last point of a chart.             *)

Numbers == 1..MaxRows

\* Messages arrive in the order of their numbers, those on the wire after those
\* in the deque.
CollectorInv ==
    /\ listening \in BOOLEAN
    /\ wire \in Seq(Numbers) /\ data \in Seq(Numbers) /\ Len(data) <= Window
    /\ \A i \in DOMAIN wire : wire[i] <= Len(rows)
    /\ \A i, j \in DOMAIN wire : i <= j => wire[i] <= wire[j]
    /\ data # <<>> =>
          /\ data[Len(data)] <= Len(rows)
          /\ \A i \in DOMAIN wire : data[Len(data)] <= wire[i]

\* Once the dashboard has seen a node, the deque is not empty again; the end of
\* the chart is not later than the end of the deque or the numbers above it.
DashboardInv ==
    /\ latest \in 0..MaxRows /\ frame \in Seq(Numbers)
    /\ dashboard = "frame" => data # <<>>
    /\ dashboard = "latest" =>
          data # <<>> /\ frame # <<>> /\ frame[Len(frame)] <= data[Len(data)]
    /\ dashboard = "show" => frame # <<>> /\ frame[Len(frame)] <= latest

\* The last message of a sequence that is not empty.
LEMMA LastNumber ==
    ASSUME NEW S, NEW q \in Seq(S), q # <<>>
    PROVE  q[Len(q)] \in S /\ Len(q) \in DOMAIN q
OBVIOUS

LEMMA NumbersAreNumbers == \A n \in Numbers : n \in Int /\ n \in 0..MaxRows
BY TelemetryAssumption DEF Numbers

\* A message appended.
LEMMA AppendNumber ==
    ASSUME NEW S, NEW q \in Seq(S), NEW n \in S
    PROVE  /\ Append(q, n) \in Seq(S) /\ Append(q, n) # <<>>
           /\ Append(q, n)[Len(Append(q, n))] = n
           /\ \A i \in DOMAIN Append(q, n) :
                 \/ i \in DOMAIN q /\ Append(q, n)[i] = q[i]
                 \/ i = Len(Append(q, n)) /\ Append(q, n)[i] = n
OBVIOUS

\* The messages behind the one that is received.
LEMMA TailNumber ==
    ASSUME NEW S, NEW q \in Seq(S), q # <<>>
    PROVE  /\ Head(q) \in S /\ Head(q) = q[1] /\ 1 \in DOMAIN q
           /\ Tail(q) \in Seq(S)
           /\ \A i \in DOMAIN Tail(q) :
                 i \in Nat /\ i + 1 \in DOMAIN q /\ Tail(q)[i] = q[i + 1] /\ 1 <= i + 1
OBVIOUS

\* The deque keeps the message that comes, up to its window.
LEMMA KeepType ==
    ASSUME NEW S, data \in Seq(S), Len(data) <= Window, NEW n \in S
    PROVE  /\ Keep(n) \in Seq(S) /\ Len(Keep(n)) <= Window
           /\ Keep(n) # <<>> /\ Keep(n)[Len(Keep(n))] = n
<1>1. Window \in Nat \ {0} /\ Len(data) \in Nat
  BY TelemetryAssumption
<1>2. CASE Len(data) < Window
  <2>1. Len(Append(data, n)) = Len(data) + 1
    OBVIOUS
  <2>2. Keep(n) = Append(data, n)
    BY <1>2 DEF Keep
  <2> QED  BY <1>1, <1>2, <2>1, <2>2, AppendNumber
<1>3. CASE ~(Len(data) < Window)
  <2>1. data # <<>>
    BY <1>1, <1>3
  <2>2. Tail(data) \in Seq(S) /\ Len(Tail(data)) = Len(data) - 1
    BY <2>1
  <2>3. Len(Append(Tail(data), n)) = Len(data)
    BY <2>2
  <2>4. Keep(n) = Append(Tail(data), n)
    BY <1>3 DEF Keep
  <2> QED  BY <1>1, <2>2, <2>3, <2>4, AppendNumber
<1> QED  BY <1>2, <1>3

LEMMA PublishedInOrder ==
    SamplerInv /\ CollectorInv /\ DashboardInv /\ Sample => CollectorInv' /\ DashboardInv'
<1> SUFFICES ASSUME SamplerInv, CollectorInv, DashboardInv, Sample
             PROVE  CollectorInv' /\ DashboardInv'
  OBVIOUS
<1> DEFINE n == Len(rows) + 1
<1>1. /\ pc = "sleep" /\ rows' = Append(rows, NewRow)
      /\ listening' = listening /\ data' = data
      /\ frame' = frame /\ latest' = latest /\ dashboard' = dashboard
      /\ wire' = wire \/ wire' = Append(wire, n)
  BY DEF Sample, NewRow, PublishStatus, collectorVars, dashboardVars
<1>2. Len(rows') = Len(rows) + 1 /\ Len(rows) \in Nat
  BY <1>1, NewRowType, AppendProperties DEF SamplerInv
<1>3. n \in Numbers
  BY <1>1, <1>2, TelemetryAssumption DEF SamplerInv, Numbers
<1>4. \A q \in Seq(Numbers) : \A i \in DOMAIN q : q[i] \in Int
  BY ElementOfSeq, LenProperties, NumbersAreNumbers
<1>5. data # <<>> => data[Len(data)] \in Int
  BY LastNumber, NumbersAreNumbers DEF CollectorInv
<1>6. CASE wire' = wire
  <2>1. \A i \in DOMAIN wire : wire[i] <= Len(rows')
    BY <1>2, <1>4 DEF CollectorInv
  <2>2. data # <<>> => data[Len(data)] <= Len(rows')
    BY <1>2, <1>5 DEF CollectorInv
  <2> QED  BY <1>1, <1>6, <2>1, <2>2 DEF CollectorInv, DashboardInv
<1>7. CASE wire' = Append(wire, n)
  <2> HIDE DEF n
  <2>1. /\ wire' \in Seq(Numbers)
        /\ \A i \in DOMAIN wire' :
              \/ i \in DOMAIN wire /\ wire'[i] = wire[i]
              \/ i = Len(wire') /\ wire'[i] = n
    BY <1>3, <1>7, AppendNumber DEF CollectorInv
  <2>2. n = Len(rows') /\ n \in Int /\ Len(rows') = Len(rows) + 1 /\ Len(rows) \in Nat
    BY <1>2 DEF n
  <2>3. \A i \in DOMAIN wire' : wire'[i] <= Len(rows')
    BY <2>1, <2>2, <1>4 DEF CollectorInv
  <2>4. ASSUME NEW i \in DOMAIN wire', NEW j \in DOMAIN wire', i <= j
        PROVE  wire'[i] <= wire'[j]
    <3>1. CASE j \in DOMAIN wire /\ wire'[j] = wire[j]
      <4>1. Len(wire') = Len(wire) + 1 /\ Len(wire) \in Nat /\ DOMAIN wire = 1..Len(wire)
        BY <1>3, <1>7 DEF CollectorInv
      <4>2. DOMAIN wire' = 1..Len(wire')
        BY <2>1
      <4>3. i \in DOMAIN wire /\ wire'[i] = wire[i]
        BY <2>1, <2>4, <3>1, <4>1, <4>2
      <4> QED  BY <2>4, <3>1, <4>3 DEF CollectorInv
    <3>2. CASE j = Len(wire') /\ wire'[j] = n
      BY <2>2, <2>3, <3>2
    <3> QED  BY <2>1, <3>1, <3>2
  <2>5. ASSUME data # <<>>
        PROVE  /\ data[Len(data)] <= Len(rows')
               /\ \A i \in DOMAIN wire' : data[Len(data)] <= wire'[i]
    <3>1. data[Len(data)] <= Len(rows') /\ data[Len(data)] <= n
      BY <1>5, <2>2, <2>5 DEF CollectorInv
    <3> QED  BY <2>1, <2>5, <3>1 DEF CollectorInv
  <2>6. CollectorInv'
    BY <1>1, <2>1, <2>3, <2>4, <2>5 DEF CollectorInv
  <2> QED  BY <1>1, <2>6 DEF DashboardInv
<1> QED  BY <1>1, <1>6, <1>7

LEMMA CollectedInOrder ==
    CollectorInv /\ DashboardInv /\ Collect => CollectorInv' /\ DashboardInv'
<1> SUFFICES ASSUME CollectorInv, DashboardInv, Collect PROVE CollectorInv' /\ DashboardInv'
  OBVIOUS
<1> DEFINE n == Head(wire)
<1>1. /\ wire # <<>> /\ wire' = Tail(wire) /\ data' = Keep(n)
      /\ rows' = rows /\ listening' = listening
      /\ frame' = frame /\ latest' = latest /\ dashboard' = dashboard
  BY DEF Collect, samplerVars, dashboardVars
<1>2. /\ n \in Numbers /\ n = wire[1] /\ 1 \in DOMAIN wire
      /\ Tail(wire) \in Seq(Numbers)
      /\ \A i \in DOMAIN Tail(wire) :
            i \in Nat /\ i + 1 \in DOMAIN wire /\ Tail(wire)[i] = wire[i + 1] /\ 1 <= i + 1
  BY <1>1, TailNumber DEF CollectorInv
<1> HIDE DEF n
<1>3. /\ data' \in Seq(Numbers) /\ Len(data') <= Window
      /\ data' # <<>> /\ data'[Len(data')] = n
  BY <1>1, <1>2, KeepType DEF CollectorInv
<1>4. CollectorInv'
  <2>1. \A i \in DOMAIN wire' : wire'[i] <= Len(rows') /\ n <= wire'[i]
    BY <1>1, <1>2 DEF CollectorInv
  <2>2. n <= Len(rows')
    BY <1>1, <1>2 DEF CollectorInv
  <2>3. ASSUME NEW i \in DOMAIN wire', NEW j \in DOMAIN wire', i <= j
        PROVE  wire'[i] <= wire'[j]
    <3>1. i \in DOMAIN Tail(wire) /\ j \in DOMAIN Tail(wire)
      BY <1>1, <2>3
    <3>2. i + 1 \in DOMAIN wire /\ j + 1 \in DOMAIN wire /\ i + 1 <= j + 1
      BY <1>2, <2>3, <3>1
    <3> QED  BY <1>1, <1>2, <3>1, <3>2 DEF CollectorInv
  <2> QED  BY <1>1, <1>2, <1>3, <2>1, <2>2, <2>3 DEF CollectorInv
<1>5. ASSUME data # <<>> PROVE data[Len(data)] <= n /\ data[Len(data)] \in Int
  BY <1>2, <1>5, LastNumber, NumbersAreNumbers DEF CollectorInv
<1>6. frame # <<>> => frame[Len(frame)] \in Int
  BY LastNumber, NumbersAreNumbers DEF DashboardInv
<1>7. dashboard = "latest" => frame[Len(frame)] <= data'[Len(data')]
  BY <1>2, <1>3, <1>5, <1>6, NumbersAreNumbers DEF DashboardInv
<1>8. DashboardInv'
  BY <1>1, <1>3, <1>7 DEF DashboardInv
<1> QED  BY <1>4, <1>8

LEMMA DashboardStep == CollectorInv /\ DashboardInv /\ Dashboard => CollectorInv' /\ DashboardInv'
<1> SUFFICES ASSUME CollectorInv, DashboardInv, Dashboard PROVE CollectorInv' /\ DashboardInv'
  OBVIOUS
<1>1. rows' = rows /\ wire' = wire /\ listening' = listening /\ data' = data
  BY DEF Dashboard, ListNodes, GetDataframe, GetLatest, Rerun, Turn, samplerVars, collectorVars
<1>2. CollectorInv'
  BY <1>1 DEF CollectorInv
<1>3. CASE ListNodes
  BY <1>1, <1>2, <1>3 DEF ListNodes, Turn, DashboardInv
<1>4. CASE GetDataframe
  <2>1. /\ dashboard = "frame" /\ dashboard' = "latest" /\ frame' = data /\ latest' = latest
    BY <1>4 DEF GetDataframe, Turn
  <2>2. data # <<>> /\ data \in Seq(Numbers)
    BY <2>1 DEF DashboardInv, CollectorInv
  <2>3. data[Len(data)] <= data[Len(data)]
    BY <2>2, LastNumber, NumbersAreNumbers
  <2> QED  BY <1>1, <1>2, <2>1, <2>2, <2>3 DEF DashboardInv
<1>5. CASE GetLatest
  <2>1. /\ dashboard = "latest" /\ dashboard' = "show" /\ frame' = frame
        /\ latest' = data[Len(data)]
    BY <1>5 DEF GetLatest, Turn, Newest
  <2>2. data[Len(data)] \in Numbers
    BY <2>1, LastNumber DEF DashboardInv, CollectorInv
  <2>3. latest' \in 0..MaxRows
    BY <2>1, <2>2, NumbersAreNumbers
  <2> QED  BY <1>1, <1>2, <2>1, <2>3 DEF DashboardInv
<1>6. CASE Rerun
  BY <1>1, <1>2, <1>6 DEF Rerun, Turn, DashboardInv
<1> QED  BY <1>2, <1>3, <1>4, <1>5, <1>6 DEF Dashboard

LEMMA CollectorStep ==
    SamplerInv /\ CollectorInv /\ DashboardInv /\ [TelemetryNext]_telemetryVars
        => CollectorInv' /\ DashboardInv'
<1> SUFFICES ASSUME SamplerInv, CollectorInv, DashboardInv, [TelemetryNext]_telemetryVars
             PROVE  CollectorInv' /\ DashboardInv'
  OBVIOUS
<1>1. CASE Connected
  <2>1. /\ listening' = TRUE /\ rows' = rows /\ wire' = wire /\ data' = data
        /\ frame' = frame /\ latest' = latest /\ dashboard' = dashboard
    BY <1>1 DEF Connected, samplerVars, dashboardVars
  <2>2. listening' \in BOOLEAN
    BY <2>1, Zenon
  <2> QED  BY <2>1, <2>2 DEF CollectorInv, DashboardInv
<1>2. CASE Sleep \/ SampleRaises \/ Transfer \/ Second \/ SetClock \/ TelemetryOver
           \/ UNCHANGED telemetryVars
  <2>1. /\ listening' = listening /\ rows' = rows /\ wire' = wire /\ data' = data
        /\ frame' = frame /\ latest' = latest /\ dashboard' = dashboard
    BY <1>2 DEF Sleep, SampleRaises, Transfer, Second, SetClock, TelemetryOver,
         telemetryVars, samplerVars, collectorVars, dashboardVars
  <2> QED  BY <2>1 DEF CollectorInv, DashboardInv
<1> QED  BY <1>1, <1>2, PublishedInOrder, CollectedInOrder, DashboardStep DEF TelemetryNext

LEMMA CollectorStart == TelemetryInit => CollectorInv /\ DashboardInv
<1> SUFFICES ASSUME TelemetryInit PROVE CollectorInv /\ DashboardInv
  OBVIOUS
<1>1. /\ wire = <<>> /\ data = <<>> /\ frame = <<>> /\ rows = <<>>
      /\ latest = 0 /\ dashboard = "list" /\ listening = FALSE
  BY DEF TelemetryInit
<1>2. <<>> \in Seq(Numbers) /\ Len(<<>>) = 0 /\ DOMAIN <<>> = {}
  OBVIOUS
<1>3. 0 <= Window /\ 0 \in 0..MaxRows
  BY TelemetryAssumption
<1>4. listening \in BOOLEAN
  BY <1>1, Zenon
<1>5. CollectorInv
  BY <1>1, <1>2, <1>3, <1>4 DEF CollectorInv
<1> QED  BY <1>1, <1>2, <1>3, <1>5 DEF DashboardInv

TelemetryInv == SamplerInv /\ CollectorInv /\ DashboardInv

LEMMA TelemetryInvHolds == TelemetrySpec => []TelemetryInv
BY SamplerStart, SamplerStep, CollectorStart, CollectorStep, PTL DEF TelemetrySpec, TelemetryInv

\* The numbers above a chart are those of its last point or later ones, for any
\* window of the deque and any speed of the collector and the page.
THEOREM TelemetryLatest == TelemetrySpec => []LatestBelongsToChart
<1>1. DashboardInv => LatestBelongsToChart
  BY DEF DashboardInv, LatestBelongsToChart
<1> QED  BY <1>1, TelemetryInvHolds, PTL DEF TelemetryInv
LEMMA TelemetryTypes == TelemetryInv => TelemetryTypeOK
<1> SUFFICES ASSUME TelemetryInv PROVE TelemetryTypeOK
  OBVIOUS
<1>1. SamplerInv /\ CollectorInv /\ DashboardInv
  BY DEF TelemetryInv
<1>2. {counted, clockSet, listening} \subseteq BOOLEAN
  <2>1. counted \in BOOLEAN /\ clockSet \in BOOLEAN /\ listening \in BOOLEAN
    BY <1>1 DEF SamplerInv, CollectorInv
  <2> QED  BY <2>1, Zenon
<1>3. \A i \in DOMAIN rows : rows[i].amount \in 0..MaxBytes /\ rows[i].over \in Int
  <2>1. \A i \in DOMAIN rows : rows[i] \in Row
    BY <1>1, ElementOfSeq, LenProperties DEF SamplerInv
  <2> QED  BY <2>1 DEF Row
<1>4. from \in 0..MaxBytes
  BY <1>1, TelemetryAssumption DEF SamplerInv
<1> QED  BY <1>1, <1>2, <1>3, <1>4 DEF SamplerInv, CollectorInv, DashboardInv, TelemetryTypeOK

-----------------------------------------------------------------------------
(* The rates: what the samples add up to.                                  *)

RowAmounts == [i \in 1..Len(rows) |-> rows[i].amount]

\* Amounts adds up the amounts of the rows.
LEMMA AmountsTotal == rows \in Seq(Row) => Amounts = Total(RowAmounts, Len(rows))
<1> SUFFICES ASSUME rows \in Seq(Row) PROVE Amounts = Total(RowAmounts, Len(rows))
  OBVIOUS
<1> DEFINE N == Len(rows)
           E(S) == [n \in 0..N |-> IF n = 0 THEN 0 ELSE rows[n].amount + S[n - 1]]
           C == CHOOSE S : S = E(S)
<1>1. Amounts = C[N]
  BY DEF Amounts
<1>2. N \in Nat /\ \A n \in 1..N : RowAmounts[n] = rows[n].amount /\ RowAmounts[n] \in Int
  <2>1. N \in Nat /\ \A n \in 1..N : rows[n] \in Row
    BY ElementOfSeq, LenProperties
  <2> QED  BY <2>1 DEF RowAmounts, Row
<1> HIDE DEF N
<1>3. \A S : IsSum(S, RowAmounts, N) <=> S = E(S)
  BY <1>2 DEF IsSum
<1>4. PICK S : IsSum(S, RowAmounts, N)
  BY <1>2, SumExists
<1>5. C = E(C)
  <2>1. S = E(S)
    BY <1>3, <1>4
  <2> HIDE DEF E
  <2> QED  BY <2>1
<1>6. IsSum(C, RowAmounts, N)
  <2> HIDE DEF C, E
  <2> QED  BY <1>3, <1>5
<1> HIDE DEF C
<1>7. Total(RowAmounts, N) = C[N]
  BY <1>2, <1>6, TotalSum
<1> QED  BY <1>1, <1>7 DEF N

\* A row adds its amount.
LEMMA AmountsNext ==
    ASSUME rows \in Seq(Row), NEW r \in Row, rows' = Append(rows, r)
    PROVE  Amounts' = Amounts + r.amount /\ Amounts \in Int
<1>1. /\ rows' \in Seq(Row) /\ Len(rows') = Len(rows) + 1 /\ Len(rows) \in Nat
      /\ \A i \in 1..Len(rows) : rows'[i] = rows[i]
      /\ rows'[Len(rows) + 1] = r
  BY AppendProperties, LenProperties
<1>2. Amounts = Total(RowAmounts, Len(rows))
  BY AmountsTotal
<1>3. Amounts' = Total(RowAmounts', Len(rows'))
  <2>1. (rows \in Seq(Row) => Amounts = Total(RowAmounts, Len(rows)))'
    BY AmountsTotal, PTL
  <2> QED  BY <1>1, <2>1 DEF Row
<1>4. \A i \in 1..Len(rows) : rows[i] \in Row
  BY ElementOfSeq
<1>5. /\ \A i \in 1..Len(rows) : RowAmounts[i] \in Int /\ RowAmounts[i] = RowAmounts'[i]
      /\ RowAmounts'[Len(rows) + 1] = r.amount /\ r.amount \in Int
  BY <1>1, <1>4 DEF RowAmounts, Row
<1>6. \A i \in 1..(Len(rows) + 1) : RowAmounts'[i] \in Int
  <2>1. \A i \in 1..(Len(rows) + 1) : i \in 1..Len(rows) \/ i = Len(rows) + 1
    BY <1>1
  <2> QED  BY <1>5, <2>1
<1>7. Total(RowAmounts', Len(rows) + 1)
        = Total(RowAmounts', Len(rows)) + RowAmounts'[Len(rows) + 1]
  BY <1>1, <1>6, TotalNext
<1>8. Total(RowAmounts', Len(rows)) = Total(RowAmounts, Len(rows))
  BY <1>1, <1>5, TotalAgree
<1>9. Amounts \in Int
  BY <1>1, <1>2, <1>5, TotalType
<1> QED  BY <1>1, <1>2, <1>3, <1>5, <1>7, <1>8, <1>9

\* What is counted is in the counter: up to the first reading while a sampler of
\* the first kind sleeps, up to its last reading for monitor.py.  The wall clock
\* is behind a reading of it only after it was set.
RatesInv ==
    /\ RatesSound
    /\ Amounts \in Int
    /\ pc = "sleep" => Amounts <= from
    /\ ~clockSet => since <= wall

LEMMA RatesStart == TelemetryInit => RatesInv
<1> SUFFICES ASSUME TelemetryInit PROVE RatesInv
  OBVIOUS
<1>1. rows = <<>> /\ rows \in Seq(Row) /\ Len(rows) = 0 /\ DOMAIN rows = {}
  BY DEF TelemetryInit
<1>2. Amounts = 0
  BY <1>1, AmountsTotal, TotalZero
<1> QED  BY <1>1, <1>2 DEF TelemetryInit, RatesInv, RatesSound

LEMMA SampleRates == SamplerInv /\ RatesInv /\ Sample => RatesInv'
<1> SUFFICES ASSUME SamplerInv, RatesInv, Sample PROVE RatesInv'
  OBVIOUS
<1>1. /\ pc = "sleep" /\ pc' = "read" /\ monitor' = monitor /\ bytes' = bytes
      /\ wall' = wall /\ clockSet' = clockSet
      /\ rows' = Append(rows, NewRow)
      /\ from' = NextReading /\ since' = wall
      /\ monitor = "csv" => counted /\ Elapsed # 0
  BY DEF Sample, deviceVars, NewRow
<1>2. NewRow \in Row
  BY NewRowType
<1>3. Amounts' = Amounts + NewRow.amount /\ Amounts \in Int
  BY <1>1, <1>2, AmountsNext DEF SamplerInv
<1>4. /\ NewRow.amount = IF counted THEN bytes - from ELSE 0
      /\ NewRow.over = Elapsed
  BY DEF NewRow
<1>5. from \in Int /\ bytes \in Int /\ from <= bytes /\ Amounts <= from
  BY <1>1, TelemetryAssumption DEF SamplerInv, RatesInv
<1>6. Amounts' <= bytes' /\ Amounts' \in Int
  BY <1>1, <1>3, <1>4, <1>5
<1>7. monitor' = "csv" => Amounts' = from'
  <2> SUFFICES ASSUME monitor = "csv" PROVE Amounts' = from'
    BY <1>1
  <2>1. Amounts = from /\ from' = bytes /\ NewRow.amount = bytes - from
    BY <1>1, <1>4 DEF RatesInv, RatesSound, NextReading
  <2> QED  BY <1>3, <1>5, <2>1
<1>8. NewRow.over <= 0 => clockSet /\ monitor = "csv"
  <2>1. CASE monitor = "csv"
    <3>1. Elapsed = wall - since /\ Elapsed # 0
      BY <1>1, <2>1 DEF Elapsed
    <3>2. ~clockSet => Elapsed > 0
      BY <3>1 DEF RatesInv, SamplerInv
    <3> QED  BY <1>4, <2>1, <3>1, <3>2 DEF SamplerInv
  <2>2. CASE monitor # "csv"
    <3>1. Elapsed = Interval /\ Interval \in Nat \ {0}
      BY <2>2, TelemetryAssumption DEF Elapsed
    <3> QED  BY <1>4, <3>1
  <2> QED  BY <2>1, <2>2
<1>9. \A i \in DOMAIN rows' : rows'[i].over <= 0 => clockSet' /\ monitor' = "csv"
  <2>1. \A i \in DOMAIN rows' :
           \/ i \in DOMAIN rows /\ rows'[i] = rows[i]
           \/ rows'[i] = NewRow
    BY <1>1, <1>2, AppendNumber DEF SamplerInv
  <2> QED  BY <1>1, <1>8, <2>1 DEF RatesInv, RatesSound
<1>10. ~clockSet' => since' <= wall'
  BY <1>1 DEF SamplerInv
<1> QED  BY <1>1, <1>6, <1>7, <1>9, <1>10 DEF RatesInv, RatesSound

LEMMA RatesStep == SamplerInv /\ RatesInv /\ [TelemetryNext]_telemetryVars => RatesInv'
<1> SUFFICES ASSUME SamplerInv, RatesInv, [TelemetryNext]_telemetryVars, ~Sample
             PROVE  RatesInv'
  BY SampleRates
<1>0. /\ bytes \in Int /\ from \in Int /\ from <= bytes /\ wall \in Int /\ since \in Int
  BY TelemetryAssumption DEF SamplerInv
<1>1. rows' = rows /\ monitor' = monitor /\ since' = since
  BY DEF TelemetryNext, Sleep, SampleRaises, Transfer, Second, SetClock, Connected, Collect,
         Dashboard, ListNodes, GetDataframe, GetLatest, Rerun, Turn, TelemetryOver,
         telemetryVars, deviceVars, samplerVars
<1>2. Amounts' = Amounts
  BY <1>1 DEF Amounts
<1>3. CASE Sleep
  <2>1. /\ pc' = "sleep" /\ from' = FirstReading /\ bytes' = bytes
        /\ wall' = wall /\ clockSet' = clockSet
    BY <1>3 DEF Sleep, deviceVars
  <2>2. Amounts <= FirstReading /\ (monitor = "csv" => FirstReading = from)
    BY <1>0 DEF RatesInv, RatesSound, FirstReading
  <2> QED  BY <1>1, <1>2, <2>1, <2>2 DEF RatesInv, RatesSound
<1>4. CASE Transfer
  <2>1. /\ bytes' = bytes + 1 /\ pc' = pc /\ from' = from
        /\ wall' = wall /\ clockSet' = clockSet
    BY <1>4 DEF Transfer, samplerVars
  <2>2. Amounts <= bytes'
    BY <1>0, <2>1 DEF RatesInv, RatesSound
  <2> QED  BY <1>1, <1>2, <2>1, <2>2 DEF RatesInv, RatesSound
<1>5. CASE Second
  <2>1. /\ bytes' = bytes /\ pc' = pc /\ from' = from
        /\ wall' = wall + 1 /\ clockSet' = clockSet
    BY <1>5 DEF Second, samplerVars
  <2>2. since <= wall => since <= wall'
    BY <1>0, <2>1
  <2> QED  BY <1>1, <1>2, <2>1, <2>2 DEF RatesInv, RatesSound
<1>6. CASE SetClock
  <2>1. bytes' = bytes /\ pc' = pc /\ from' = from /\ clockSet' = TRUE /\ monitor = "csv"
    BY <1>6 DEF SetClock, samplerVars
  <2> QED  BY <1>1, <1>2, <2>1 DEF RatesInv, RatesSound
<1>7. CASE \/ SampleRaises \/ Connected \/ Collect \/ Dashboard \/ TelemetryOver
           \/ UNCHANGED telemetryVars
  <2>1. /\ bytes' = bytes /\ from' = from /\ (pc' = "sleep" => pc = "sleep")
        /\ wall' = wall /\ clockSet' = clockSet
    BY <1>7 DEF SampleRaises, Connected, Collect,
         Dashboard, ListNodes, GetDataframe, GetLatest, Rerun, Turn, TelemetryOver,
         telemetryVars, deviceVars, samplerVars
  <2> QED  BY <1>1, <1>2, <2>1 DEF RatesInv, RatesSound
<1> QED  BY <1>3, <1>4, <1>5, <1>6, <1>7 DEF TelemetryNext

\* No byte is in two samples and, in monitor.py, every byte up to the last reading
\* is in one; a rate is over a time that is not positive only in monitor.py after
\* the wall clock was set: for any number of samples, interval and steps of the clock.
THEOREM TelemetryRates == TelemetrySpec => []RatesSound
<1>1. RatesInv => RatesSound
  BY DEF RatesInv
<1>2. TelemetrySpec => []RatesInv
  BY RatesStart, RatesStep, TelemetryInvHolds, PTL DEF TelemetrySpec, TelemetryInv
<1> QED  BY <1>1, <1>2, PTL
-----------------------------------------------------------------------------
(* The alert service of .draft/: types.                                    *)

Decision == [labels : Verdicts, at : Nat, how : {"alert", "summary"}]

PictureIds == 1..MaxPictures
PendingEntry == [id : PictureIds, flag : Nat, deadline : Nat]

AlertInv ==
    /\ time \in 0..MaxAlertTime
    /\ paths \subseteq Paths
    /\ mail \in [Paths -> [Publishers -> Seq(Mail)]]
    /\ made \in [Publishers -> Nat] /\ made["image"] <= MaxPictures
    /\ \A p \in Paths : \A i \in DOMAIN mail[p]["image"] :
          mail[p]["image"][i].motion <= made["image"]
    /\ phase \in {"flush", "read"}
    /\ currentFlag \in Nat
    /\ pending \subseteq PendingEntry /\ IsFiniteSet(pending)
    /\ sending \in AlertChannels \cup {"none"}
    /\ recent \in [Verdicts -> Nat \cup {Never}]
    /\ handled \in [PictureIds -> Nat]
    /\ decisions \in Seq(Decision)

LEMMA AlertBounds ==
    /\ AlertCooldown \in Nat /\ DetectionWait \in Nat /\ MaxAlertTime \in Nat
    /\ MaxMotions \in Nat /\ MaxPictures \in Nat /\ MaxResults \in Nat
    /\ {} \in Verdicts
BY DraftAlertAssumption

\* A request is made on a channel that is enabled.
LEMMA ChannelType == ASSUME NEW c PROVE NextChannel(c) \in AlertChannels \cup {"none"}
BY DEF NextChannel

\* What the limiter does with an event.
LEMMA DecideType ==
    ASSUME AlertInv, NEW V \in Verdicts, DecideEvent(V)
    PROVE  /\ sending' \in AlertChannels \cup {"none"}
           /\ recent' \in [Verdicts -> Nat \cup {Never}]
           /\ decisions' \in Seq(Decision)
<1>1. CASE UNCHANGED limiterVars
  BY <1>1 DEF AlertInv, limiterVars
<1>2. CASE ~UNCHANGED limiterVars
  <2> DEFINE d == [labels |-> V, at |-> time,
                   how |-> IF WasSentRecently(V) THEN "alert" ELSE "summary"]
  <2>1. /\ recent' = [recent EXCEPT ![V] = time]
        /\ decisions' = Append(decisions, d)
        /\ sending' = IF WasSentRecently(V) /\ ~AlertDryRun THEN NextChannel("start") ELSE "none"
    BY <1>2 DEF DecideEvent
  <2>2. time \in Nat
    BY AlertBounds DEF AlertInv
  <2>3. d \in Decision
    BY <2>2 DEF Decision
  <2>4. decisions' \in Seq(Decision)
    <3> HIDE DEF d
    <3> QED  BY <2>1, <2>3, AppendProperties DEF AlertInv
  <2>5. sending' \in AlertChannels \cup {"none"}
    BY <2>1, ChannelType
  <2>6. recent' \in [Verdicts -> Nat \cup {Never}]
    BY <2>1, <2>2 DEF AlertInv
  <2> QED  BY <2>4, <2>5, <2>6
<1> QED  BY <1>1, <1>2

\* A message that is taken: it is the first of its queue, the others stay.
LEMMA TakeIs ==
    ASSUME AlertInv, NEW p \in Paths, NEW k \in Publishers, Take(p, k)
    PROVE  /\ mail[p][k] # <<>> /\ Head(mail[p][k]) \in Mail
           /\ Head(mail[p][k]) = mail[p][k][1] /\ 1 \in DOMAIN mail[p][k]
           /\ mail' \in [Paths -> [Publishers -> Seq(Mail)]]
           /\ mail'[p][k] = Tail(mail[p][k])
           /\ \A q \in Paths, l \in Publishers : q # p \/ l # k => mail'[q][l] = mail[q][l]
           /\ \A i \in DOMAIN mail'[p][k] :
                 /\ i \in Nat /\ i + 1 \in DOMAIN mail[p][k] /\ 1 <= i + 1
                 /\ mail'[p][k][i] = mail[p][k][i + 1]
           /\ phase' = "flush" /\ time' = time /\ paths' = paths /\ made' = made
<1>1. /\ mail[p][k] # <<>> /\ mail' = [mail EXCEPT ![p][k] = Tail(mail[p][k])]
      /\ phase' = "flush" /\ time' = time /\ paths' = paths /\ made' = made
  BY DEF Take, worldVars
<1>2. mail \in [Paths -> [Publishers -> Seq(Mail)]]
  BY DEF AlertInv
<1>3. mail[p][k] \in Seq(Mail)
  BY <1>2
<1>4. /\ Head(mail[p][k]) \in Mail /\ Head(mail[p][k]) = mail[p][k][1] /\ 1 \in DOMAIN mail[p][k]
      /\ Tail(mail[p][k]) \in Seq(Mail)
      /\ \A i \in DOMAIN Tail(mail[p][k]) :
            /\ i \in Nat /\ i + 1 \in DOMAIN mail[p][k]
            /\ Tail(mail[p][k])[i] = mail[p][k][i + 1] /\ 1 <= i + 1
  BY <1>1, <1>3, TailNumber
<1>5. mail' \in [Paths -> [Publishers -> Seq(Mail)]] /\ mail'[p][k] = Tail(mail[p][k])
  BY <1>1, <1>2, <1>4
<1>6. \A q \in Paths, l \in Publishers : q # p \/ l # k => mail'[q][l] = mail[q][l]
  BY <1>1, <1>2
<1> QED  BY <1>1, <1>4, <1>5, <1>6

\* A message that is delivered: at the end of a queue of every path.
LEMMA DeliverIs ==
    ASSUME AlertInv, NEW k \in Publishers, NEW m \in Mail, Deliver(k, m)
    PROVE  /\ mail' \in [Paths -> [Publishers -> Seq(Mail)]]
           /\ \A p \in Paths, l \in Publishers :
                 mail'[p][l] = IF p \in paths /\ l = k THEN Append(mail[p][l], m) ELSE mail[p][l]
<1>1. mail' = [p \in Paths |-> IF p \in paths
                               THEN [mail[p] EXCEPT ![k] = Append(mail[p][k], m)]
                               ELSE mail[p]]
  BY DEF Deliver
<1>2. mail \in [Paths -> [Publishers -> Seq(Mail)]]
  BY DEF AlertInv
<1>3. ASSUME NEW p \in Paths
      PROVE  [mail[p] EXCEPT ![k] = Append(mail[p][k], m)] \in [Publishers -> Seq(Mail)]
  <2>1. mail[p] \in [Publishers -> Seq(Mail)]
    BY <1>2
  <2>2. Append(mail[p][k], m) \in Seq(Mail)
    BY <2>1, AppendProperties
  <2> QED  BY <2>1, <2>2
<1>4. mail' \in [Paths -> [Publishers -> Seq(Mail)]]
  BY <1>1, <1>2, <1>3
<1>5. ASSUME NEW p \in Paths, NEW l \in Publishers
      PROVE  mail'[p][l] = IF p \in paths /\ l = k THEN Append(mail[p][l], m) ELSE mail[p][l]
  <2>1. mail[p] \in [Publishers -> Seq(Mail)]
    BY <1>2
  <2> QED  BY <1>1, <2>1
<1> QED  BY <1>4, <1>5

LEMMA AlertStart == AlertInit => AlertInv
<1> SUFFICES ASSUME AlertInit PROVE AlertInv
  OBVIOUS
<1>1. mail \in [Paths -> [Publishers -> Seq(Mail)]]
  <2>1. <<>> \in Seq(Mail)
    OBVIOUS
  <2>2. [k \in Publishers |-> <<>>] \in [Publishers -> Seq(Mail)]
    BY <2>1
  <2> QED  BY <2>2 DEF AlertInit
<1>2. \A p \in Paths : DOMAIN mail[p]["image"] = {}
  BY DEF AlertInit, Publishers
<1>3. /\ time \in 0..MaxAlertTime /\ paths \subseteq Paths
      /\ made \in [Publishers -> Nat] /\ made["image"] <= MaxPictures
  BY AlertBounds DEF AlertInit, Paths, Publishers
<1>4. /\ pending \subseteq PendingEntry /\ IsFiniteSet(pending)
      /\ phase \in {"flush", "read"} /\ currentFlag \in Nat
      /\ sending \in AlertChannels \cup {"none"}
  BY FS_EmptySet DEF AlertInit, NoFlag
<1>5. /\ recent \in [Verdicts -> Nat \cup {Never}]
      /\ handled \in [PictureIds -> Nat]
      /\ decisions \in Seq(Decision)
  BY DEF AlertInit, PictureIds
<1> QED  BY <1>1, <1>2, <1>3, <1>4, <1>5 DEF AlertInv
\* The part of AlertInv about messages.
MailInv ==
    /\ mail \in [Paths -> [Publishers -> Seq(Mail)]]
    /\ made \in [Publishers -> Nat] /\ made["image"] <= MaxPictures
    /\ \A p \in Paths : \A i \in DOMAIN mail[p]["image"] :
          mail[p]["image"][i].motion <= made["image"]

LEMMA TakeKeepsMail ==
    ASSUME AlertInv, NEW p \in Paths, NEW k \in Publishers, Take(p, k)
    PROVE  MailInv'
<1>1. /\ mail' \in [Paths -> [Publishers -> Seq(Mail)]]
      /\ \A q \in Paths, l \in Publishers : q # p \/ l # k => mail'[q][l] = mail[q][l]
      /\ \A i \in DOMAIN mail'[p][k] :
            i + 1 \in DOMAIN mail[p][k] /\ mail'[p][k][i] = mail[p][k][i + 1]
      /\ made' = made
  BY TakeIs
<1>2. "image" \in Publishers
  BY DEF Publishers
<1>3. ASSUME NEW q \in Paths, NEW i \in DOMAIN mail'[q]["image"]
      PROVE  mail'[q]["image"][i].motion <= made'["image"]
  <2>1. CASE q = p /\ k = "image"
    BY <1>1, <1>3, <2>1 DEF AlertInv
  <2>2. CASE ~(q = p /\ k = "image")
    <3>1. mail'[q]["image"] = mail[q]["image"]
      BY <1>1, <1>2, <2>2
    <3> QED  BY <1>1, <1>3, <3>1 DEF AlertInv
  <2> QED  BY <2>1, <2>2
<1> QED  BY <1>1, <1>3 DEF AlertInv, MailInv

LEMMA TakeFlagInv == ASSUME NEW p \in Paths PROVE AlertInv /\ TakeFlag(p) => AlertInv'
<1> SUFFICES ASSUME AlertInv, TakeFlag(p) PROVE AlertInv'
  OBVIOUS
<1>1. Take(p, "flag") /\ "flag" \in Publishers
  BY DEF TakeFlag, Publishers
<1>2. /\ MailInv' /\ Head(mail[p]["flag"]) \in Mail
      /\ phase' = "flush" /\ time' = time /\ paths' = paths
  BY <1>1, TakeKeepsMail, TakeIs
<1>3. currentFlag' \in Nat
  BY <1>2 DEF TakeFlag, AlertInv, Mail
<1>4. UNCHANGED <<pending, handled, limiterVars>>
  BY DEF TakeFlag
<1> QED  BY <1>2, <1>3, <1>4 DEF AlertInv, MailInv, limiterVars

LEMMA RoundFailsInv ==
    ASSUME NEW p \in Paths, NEW k \in Publishers
    PROVE  AlertInv /\ RoundFails(p, k) => AlertInv'
<1> SUFFICES ASSUME AlertInv, RoundFails(p, k) PROVE AlertInv'
  OBVIOUS
<1>1. Take(p, k) /\ UNCHANGED <<currentFlag, pending, handled, limiterVars>>
  BY DEF RoundFails
<1>2. MailInv' /\ phase' = "flush" /\ time' = time /\ paths' = paths
  BY <1>1, TakeKeepsMail, TakeIs
<1> QED  BY <1>1, <1>2 DEF AlertInv, MailInv, limiterVars

\* What TakeImage does to the pending events.
NewEntry(n) == [id |-> n, flag |-> currentFlag, deadline |-> time + DetectionWait]

LEMMA TakeImageIs ==
    ASSUME AlertInv, NEW p \in Paths, TakeImage(p)
    PROVE  LET n == Head(mail[p]["image"]).motion IN
           /\ Take(p, "image") /\ UNCHANGED <<handled, limiterVars>>
           /\ n \in Nat /\ n <= made["image"]
           /\ \/ UNCHANGED <<currentFlag, pending>>
              \/ /\ currentFlag # NoFlag /\ currentFlag' = NoFlag
                 /\ n \in PictureIds /\ NewEntry(n) \in PendingEntry
                 /\ pending' = {e \in pending : e.id # n} \cup {NewEntry(n)}
<1> DEFINE m == Head(mail[p]["image"])
<1>1. Take(p, "image") /\ UNCHANGED <<handled, limiterVars>> /\ "image" \in Publishers
  BY DEF TakeImage, Publishers
<1>2. m \in Mail /\ m = mail[p]["image"][1] /\ 1 \in DOMAIN mail[p]["image"]
  BY <1>1, TakeIs
<1>3. m.motion \in Nat /\ m.motion <= made["image"]
  BY <1>2 DEF Mail, AlertInv
<1>4. CASE currentFlag = NoFlag \/ m.motion = NoId
  <2>1. UNCHANGED <<currentFlag, pending>>
    BY <1>4 DEF TakeImage
  <2> QED  BY <1>1, <1>3, <2>1
<1>5. CASE ~(currentFlag = NoFlag \/ m.motion = NoId)
  <2>1. /\ pending' = {e \in pending : e.id # m.motion} \cup {NewEntry(m.motion)}
        /\ currentFlag' = NoFlag
    BY <1>5 DEF TakeImage, NewEntry, SpendFlag
  <2>2. made["image"] \in Nat /\ made["image"] <= MaxPictures
    BY DEF AlertInv, Publishers
  <2>3. m.motion \in PictureIds
    BY <1>3, <1>5, <2>2, AlertBounds DEF PictureIds, NoId
  <2>4. time + DetectionWait \in Nat /\ currentFlag \in Nat
    BY AlertBounds DEF AlertInv
  <2>5. NewEntry(m.motion) \in PendingEntry
    BY <2>3, <2>4 DEF NewEntry, PendingEntry
  <2> HIDE DEF m
  <2> QED  BY <1>1, <1>3, <1>5, <2>1, <2>3, <2>5 DEF m
<1> QED  BY <1>4, <1>5

LEMMA TakeImageInv == ASSUME NEW p \in Paths PROVE AlertInv /\ TakeImage(p) => AlertInv'
<1> SUFFICES ASSUME AlertInv, TakeImage(p) PROVE AlertInv'
  OBVIOUS
<1> DEFINE n == Head(mail[p]["image"]).motion
<1>1. /\ Take(p, "image") /\ UNCHANGED <<handled, limiterVars>>
      /\ \/ UNCHANGED <<currentFlag, pending>>
         \/ /\ currentFlag' = NoFlag /\ NewEntry(n) \in PendingEntry
            /\ pending' = {e \in pending : e.id # n} \cup {NewEntry(n)}
  BY TakeImageIs
<1>2. /\ MailInv' /\ phase' = "flush" /\ time' = time /\ paths' = paths
  BY <1>1, TakeKeepsMail, TakeIs DEF Publishers
<1>3. currentFlag' \in Nat /\ pending' \subseteq PendingEntry
  BY <1>1 DEF AlertInv, NoFlag
<1>4. IsFiniteSet(pending')
  <2>1. IsFiniteSet({e \in pending : e.id # n}) /\ IsFiniteSet(pending)
    BY FS_Subset DEF AlertInv
  <2>2. IsFiniteSet({e \in pending : e.id # n} \cup {NewEntry(n)})
    BY <2>1, FS_AddElement
  <2> QED  BY <1>1, <2>1, <2>2
<1> QED  BY <1>1, <1>2, <1>3, <1>4 DEF AlertInv, MailInv, limiterVars

\* What TakeDetection does: the events of the image are processed, or nothing.
LEMMA TakeDetectionIs ==
    ASSUME AlertInv, NEW p \in Paths, TakeDetection(p)
    PROVE  LET m == Head(mail[p]["detection"]) IN
           /\ Take(p, "detection") /\ m \in Mail /\ UNCHANGED currentFlag
           /\ \/ UNCHANGED <<pending, handled, limiterVars>>
              \/ /\ m.motion \in PictureIds
                 /\ \E e \in pending : e.id = m.motion
                 /\ pending' = {e \in pending : e.id # m.motion}
                 /\ handled' = [handled EXCEPT ![m.motion] = handled[m.motion] + 1]
                 /\ DecideEvent(m.labels)
<1> DEFINE m == Head(mail[p]["detection"])
           Found == \E e \in pending : e.id = m.motion /\ m.motion # NoId
<1>1. Take(p, "detection") /\ UNCHANGED currentFlag /\ "detection" \in Publishers
  BY DEF TakeDetection, Publishers
<1>2. m \in Mail
  BY <1>1, TakeIs
<1>3. /\ pending' = pending \ TakenBy(m)
      /\ IF Found
         THEN /\ handled' = [handled EXCEPT ![m.motion] = handled[m.motion] + 1]
              /\ DecideEvent(m.labels)
         ELSE UNCHANGED <<handled, limiterVars>>
  BY DEF TakeDetection
<1>4. TakenBy(m) = {e \in pending : e.id = m.motion /\ m.motion # NoId}
  BY DEF TakenBy
<1> HIDE DEF m
<1>5. CASE Found
  <2>1. PICK e \in pending : e.id = m.motion /\ m.motion # NoId
    BY <1>5
  <2>2. m.motion \in PictureIds
    BY <2>1 DEF AlertInv, PendingEntry
  <2>3. pending' = {f \in pending : f.id # m.motion}
    BY <1>3, <1>4, <2>1
  <2> QED  BY <1>1, <1>2, <1>3, <1>5, <2>1, <2>2, <2>3 DEF m
<1>6. CASE ~Found
  <2>1. pending' = pending
    BY <1>3, <1>4, <1>6
  <2> QED  BY <1>1, <1>2, <1>3, <1>6, <2>1 DEF m
<1> QED  BY <1>5, <1>6

LEMMA TakeDetectionInv == ASSUME NEW p \in Paths PROVE AlertInv /\ TakeDetection(p) => AlertInv'
<1> SUFFICES ASSUME AlertInv, TakeDetection(p) PROVE AlertInv'
  OBVIOUS
<1> DEFINE m == Head(mail[p]["detection"])
<1>1. /\ Take(p, "detection") /\ m \in Mail /\ UNCHANGED currentFlag
      /\ \/ UNCHANGED <<pending, handled, limiterVars>>
         \/ /\ m.motion \in PictureIds
            /\ pending' = {e \in pending : e.id # m.motion}
            /\ handled' = [handled EXCEPT ![m.motion] = handled[m.motion] + 1]
            /\ DecideEvent(m.labels)
  BY TakeDetectionIs
<1>2. /\ MailInv' /\ phase' = "flush" /\ time' = time /\ paths' = paths
  BY <1>1, TakeKeepsMail, TakeIs DEF Publishers
<1> HIDE DEF m
<1>3. pending' \subseteq PendingEntry /\ IsFiniteSet(pending')
  <2>1. pending' \subseteq pending
    BY <1>1
  <2> QED  BY <2>1, FS_Subset DEF AlertInv
<1>4. handled' \in [PictureIds -> Nat]
  <2>1. handled \in [PictureIds -> Nat]
    BY DEF AlertInv
  <2>2. CASE handled' = handled
    BY <2>1, <2>2
  <2>3. CASE /\ m.motion \in PictureIds
             /\ handled' = [handled EXCEPT ![m.motion] = handled[m.motion] + 1]
    BY <2>1, <2>3
  <2> QED  BY <1>1, <2>2, <2>3
<1>5. /\ sending' \in AlertChannels \cup {"none"}
      /\ recent' \in [Verdicts -> Nat \cup {Never}]
      /\ decisions' \in Seq(Decision)
  <2>1. CASE UNCHANGED limiterVars
    BY <2>1 DEF AlertInv, limiterVars
  <2>2. CASE DecideEvent(m.labels)
    <3>1. m.labels \in Verdicts
      BY <1>1 DEF Mail
    <3> QED  BY <2>2, <3>1, DecideType
  <2> QED  BY <1>1, <2>1, <2>2
<1> QED  BY <1>1, <1>2, <1>3, <1>4, <1>5 DEF AlertInv, MailInv

LEMMA FlushStaleInv == AlertInv /\ FlushStale => AlertInv'
<1> SUFFICES ASSUME AlertInv, FlushStale PROVE AlertInv'
  OBVIOUS
<1>1. /\ pending' = pending \ Stale /\ phase' = "read"
      /\ handled' = [n \in DOMAIN handled |->
                       handled[n] + Cardinality({e \in Stale : e.id = n})]
      /\ UNCHANGED <<time, mail, currentFlag, limiterVars, worldVars>>
  BY DEF FlushStale
<1>2. \A n : Cardinality({e \in Stale : e.id = n}) \in Nat
  <2>1. ASSUME NEW n PROVE IsFiniteSet({e \in Stale : e.id = n})
    <3>1. {e \in Stale : e.id = n} \subseteq pending
      BY DEF Stale
    <3> QED  BY <3>1, FS_Subset DEF AlertInv
  <2> QED  BY <2>1, FS_CardinalityType
<1>3. handled' \in [PictureIds -> Nat]
  <2>1. handled \in [PictureIds -> Nat] /\ DOMAIN handled = PictureIds
    BY DEF AlertInv
  <2> DEFINE count(n) == Cardinality({e \in Stale : e.id = n})
  <2>2. \A n \in PictureIds : handled[n] + count(n) \in Nat
    <3>1. \A n : count(n) \in Nat
      BY <1>2
    <3> HIDE DEF count
    <3> QED  BY <2>1, <3>1
  <2> QED  BY <1>1, <2>1, <2>2
<1>4. pending' \subseteq PendingEntry /\ IsFiniteSet(pending')
  BY <1>1, FS_Subset DEF AlertInv
<1> QED  BY <1>1, <1>3, <1>4 DEF AlertInv, limiterVars, worldVars

\* What PublishMail delivers.
LEMMA PublishIs ==
    ASSUME AlertInv, NEW k \in Publishers, PublishMail(k)
    PROVE  /\ made' = [made EXCEPT ![k] = made[k] + 1]
           /\ made["image"] < MaxPictures \/ k # "image"
           /\ UNCHANGED <<time, paths, loopVars, limiterVars>>
           /\ \E m \in Mail :
                 /\ k = "detection" \/ m.motion \in {0, made[k] + 1}
                 /\ k = "detection" => m.motion \in 0..made["image"]
                 /\ Deliver(k, m)
<1>1. /\ made' = [made EXCEPT ![k] = made[k] + 1]
      /\ UNCHANGED <<time, paths, loopVars, limiterVars>>
  BY DEF PublishMail
<1>2. made["image"] < MaxPictures \/ k # "image"
  BY DEF PublishMail
<1>3. PICK n \in IF k = "detection" THEN 0..made["image"] ELSE {0, made[k] + 1} :
         \E V \in IF k = "detection" THEN Verdicts ELSE {{}} :
            Deliver(k, [motion |-> n, labels |-> V])
  BY DEF PublishMail
<1>4. PICK V \in IF k = "detection" THEN Verdicts ELSE {{}} :
         Deliver(k, [motion |-> n, labels |-> V])
  BY <1>3
<1>5. made[k] \in Nat /\ made["image"] \in Nat
  BY DEF AlertInv, Publishers
<1>6. n \in Nat /\ V \in Verdicts
  BY <1>5, AlertBounds
<1>7. [motion |-> n, labels |-> V] \in Mail
  BY <1>6 DEF Mail
<1>8. /\ k = "detection" \/ n \in {0, made[k] + 1}
      /\ k = "detection" => n \in 0..made["image"]
  BY <1>3
<1>9. \E m \in Mail :
         /\ k = "detection" \/ m.motion \in {0, made[k] + 1}
         /\ k = "detection" => m.motion \in 0..made["image"]
         /\ Deliver(k, m)
  <2> DEFINE m == [motion |-> n, labels |-> V]
  <2>1. m.motion = n /\ m \in Mail /\ Deliver(k, m)
    BY <1>4, <1>7
  <2> HIDE DEF m
  <2> QED  BY <1>8, <2>1
<1> QED  BY <1>1, <1>2, <1>9

LEMMA PublishMailInv == ASSUME NEW k \in Publishers PROVE AlertInv /\ PublishMail(k) => AlertInv'
<1> SUFFICES ASSUME AlertInv, PublishMail(k) PROVE AlertInv'
  OBVIOUS
<1>1. /\ made' = [made EXCEPT ![k] = made[k] + 1]
      /\ made["image"] < MaxPictures \/ k # "image"
      /\ UNCHANGED <<time, paths, loopVars, limiterVars>>
  BY PublishIs
<1>2. PICK m \in Mail :
         /\ k = "detection" \/ m.motion \in {0, made[k] + 1}
         /\ Deliver(k, m)
  BY PublishIs
<1>3. /\ mail' \in [Paths -> [Publishers -> Seq(Mail)]]
      /\ \A p \in Paths, l \in Publishers :
            mail'[p][l] = IF p \in paths /\ l = k THEN Append(mail[p][l], m) ELSE mail[p][l]
  BY <1>2, DeliverIs
<1>4. made \in [Publishers -> Nat] /\ made[k] \in Nat /\ made["image"] \in Nat
  BY DEF AlertInv, Publishers
<1>5. /\ made' \in [Publishers -> Nat]
      /\ made'["image"] = IF k = "image" THEN made["image"] + 1 ELSE made["image"]
  BY <1>1, <1>4 DEF Publishers
<1>6. made'["image"] <= MaxPictures
  BY <1>1, <1>4, <1>5, AlertBounds DEF AlertInv
<1>7. ASSUME NEW p \in Paths, NEW i \in DOMAIN mail'[p]["image"]
      PROVE  mail'[p]["image"][i].motion <= made'["image"]
  <2>0. "image" \in Publishers
    BY DEF Publishers
  <2>1. /\ mail[p]["image"] \in Seq(Mail)
        /\ \A j \in DOMAIN mail[p]["image"] : mail[p]["image"][j].motion \in Nat
    <3>1. mail[p]["image"] \in Seq(Mail)
      BY <2>0 DEF AlertInv
    <3>2. \A j \in DOMAIN mail[p]["image"] : mail[p]["image"][j] \in Mail
      BY <3>1, ElementOfSeq, LenProperties
    <3> QED  BY <3>1, <3>2 DEF Mail
  <2>2. CASE p \in paths /\ k = "image"
    <3>1. mail'[p]["image"] = Append(mail[p]["image"], m)
      BY <1>3, <2>0, <2>2
    <3>2. \/ i \in DOMAIN mail[p]["image"] /\ mail'[p]["image"][i] = mail[p]["image"][i]
          \/ mail'[p]["image"][i] = m
      BY <1>7, <2>1, <3>1, AppendNumber
    <3>3. m.motion <= made'["image"]
      BY <1>2, <1>4, <1>5, <2>2
    <3> QED  BY <1>4, <1>5, <2>1, <2>2, <3>2, <3>3 DEF AlertInv
  <2>3. CASE ~(p \in paths /\ k = "image")
    <3>1. mail'[p]["image"] = mail[p]["image"]
      BY <1>3, <2>0, <2>3
    <3>2. mail'[p]["image"][i].motion <= made["image"]
      BY <1>7, <3>1 DEF AlertInv
    <3> QED  BY <1>4, <1>5, <1>7, <2>1, <3>1, <3>2
  <2> QED  BY <2>2, <2>3
<1> QED  BY <1>1, <1>3, <1>5, <1>6, <1>7 DEF AlertInv, loopVars, limiterVars

LEMMA AlertStep == AlertInv /\ [AlertNext]_alertVars => AlertInv'
<1> SUFFICES ASSUME AlertInv, [AlertNext]_alertVars PROVE AlertInv'
  OBVIOUS
<1>1. CASE PollNothing
  BY <1>1 DEF PollNothing, AlertInv, limiterVars, worldVars
<1>2. CASE Sending
  <2>1. sending' \in AlertChannels \cup {"none"}
    BY <1>2, ChannelType DEF Sending, RequestReturns
  <2> QED  BY <1>2, <2>1 DEF Sending, AlertInv, loopVars, worldVars
<1>3. CASE DiscoverLan
  BY <1>3 DEF DiscoverLan, AlertInv, loopVars, limiterVars
<1>4. CASE TimePasses
  <2>1. time' \in 0..MaxAlertTime
    BY <1>4, AlertBounds DEF TimePasses, AlertInv
  <2> QED  BY <1>4, <2>1 DEF TimePasses, AlertInv, loopVars, limiterVars, worldVars
<1>5. CASE UNCHANGED alertVars
  BY <1>5 DEF alertVars, loopVars, limiterVars, worldVars, AlertInv
<1>6. CASE \E p \in Paths :
              \/ TakeFlag(p) \/ TakeImage(p) \/ TakeDetection(p)
              \/ \E k \in Publishers : RoundFails(p, k)
  BY <1>6, TakeFlagInv, TakeImageInv, TakeDetectionInv, RoundFailsInv
<1> QED
  BY <1>1, <1>2, <1>3, <1>4, <1>5, <1>6, FlushStaleInv, PublishMailInv
  DEF AlertNext, SubscriberRound

LEMMA AlertInvHolds == AlertSpec => []AlertInv
BY AlertStart, AlertStep, PTL DEF AlertSpec
-----------------------------------------------------------------------------
(* The limiter of .draft/: what an alert needs.                            *)

\* recent holds, for each class set that was decided on, when it was last.
RecentInv ==
    \A V \in Verdicts :
        /\ recent[V] # Never =>
              /\ recent[V] <= time
              /\ \E j \in DOMAIN decisions :
                    decisions[j].labels = V /\ decisions[j].at = recent[V]
        /\ \A j \in DOMAIN decisions :
              decisions[j].labels = V => recent[V] # Never /\ decisions[j].at <= recent[V]

LEMMA DecideRepeats ==
    ASSUME AlertInv, RecentInv, OnlyRepeatsAlert, NEW V \in Verdicts, DecideEvent(V),
           time' = time
    PROVE  RecentInv' /\ OnlyRepeatsAlert'
<1>1. CASE UNCHANGED limiterVars
  BY <1>1 DEF limiterVars, RecentInv, OnlyRepeatsAlert
<1>2. CASE ~UNCHANGED limiterVars
  <2> DEFINE d == [labels |-> V, at |-> time,
                   how |-> IF WasSentRecently(V) THEN "alert" ELSE "summary"]
             n == Len(decisions)
  <2>1. recent' = [recent EXCEPT ![V] = time] /\ decisions' = Append(decisions, d)
    BY <1>2 DEF DecideEvent
  <2>2. /\ time \in Nat /\ AlertCooldown \in Nat
        /\ recent \in [Verdicts -> Nat \cup {Never}]
        /\ decisions \in Seq(Decision)
    BY AlertBounds DEF AlertInv
  <2>3. d \in Decision /\ d.labels = V /\ d.at = time
        /\ (d.how = "alert" <=> WasSentRecently(V))
    BY <2>2 DEF Decision
  <2> HIDE DEF d
  <2>4. /\ DOMAIN decisions = 1..n /\ n \in Nat /\ DOMAIN decisions' = 1..(n + 1)
        /\ \A i \in 1..n : decisions'[i] = decisions[i]
        /\ decisions'[n + 1] = d
    BY <2>1, <2>2, <2>3, AppendProperties, LenProperties
  <2>5. \A i \in 1..n : decisions[i].at \in Nat
    <3>1. \A i \in 1..n : decisions[i] \in Decision
      BY <2>2, ElementOfSeq
    <3> QED  BY <3>1 DEF Decision
  <2>6. \A W \in Verdicts : recent'[W] = IF W = V THEN time ELSE recent[W]
    BY <2>1, <2>2
  <2> HIDE DEF n
  <2>7. RecentInv'
    <3> SUFFICES ASSUME NEW W \in Verdicts
                 PROVE  /\ recent'[W] # Never =>
                              /\ recent'[W] <= time
                              /\ \E j \in 1..(n + 1) :
                                    decisions'[j].labels = W /\ decisions'[j].at = recent'[W]
                        /\ \A j \in 1..(n + 1) :
                              decisions'[j].labels = W =>
                                 recent'[W] # Never /\ decisions'[j].at <= recent'[W]
      BY <2>4 DEF RecentInv
    <3>1. \A j \in 1..(n + 1) : j \in 1..n \/ j = n + 1
      BY <2>4
    <3>2. n + 1 \in 1..(n + 1) /\ \A j \in 1..n : j \in 1..(n + 1)
      BY <2>4
    <3>3. CASE W = V
      <4>1. recent'[W] = time /\ time # Never
        BY <2>2, <2>6, <3>3 DEF Never
      <4>2. \A j \in 1..n : decisions[j].labels = W => decisions[j].at <= time
        BY <2>2, <2>4, <2>5, <3>3 DEF RecentInv
      <4> QED  BY <2>2, <2>3, <2>4, <3>1, <3>2, <3>3, <4>1, <4>2
    <3>4. CASE W # V
      <4>1. recent'[W] = recent[W]
        BY <2>6, <3>4
      <4>2. /\ recent[W] # Never =>
                  recent[W] <= time /\ \E j \in 1..n :
                     decisions[j].labels = W /\ decisions[j].at = recent[W]
            /\ \A j \in 1..n :
                  decisions[j].labels = W => recent[W] # Never /\ decisions[j].at <= recent[W]
        BY <2>4 DEF RecentInv
      <4> QED  BY <2>3, <2>4, <3>1, <3>2, <3>4, <4>1, <4>2
    <3> QED  BY <3>3, <3>4
  <2>8. WasSentRecently(V) <=>
           \E j \in 1..n : decisions[j].labels = V /\ time - decisions[j].at < AlertCooldown
    <3>1. ASSUME WasSentRecently(V)
          PROVE  \E j \in 1..n : decisions[j].labels = V /\ time - decisions[j].at < AlertCooldown
      BY <2>4, <3>1 DEF WasSentRecently, RecentInv
    <3>2. ASSUME NEW j \in 1..n, decisions[j].labels = V, time - decisions[j].at < AlertCooldown
          PROVE  WasSentRecently(V)
      <4>1. recent[V] # Never /\ decisions[j].at <= recent[V]
        BY <2>4, <3>2 DEF RecentInv
      <4>2. recent[V] \in Nat
        BY <2>2, <4>1
      <4> QED  BY <2>2, <2>5, <3>2, <4>1, <4>2 DEF WasSentRecently
    <3> QED  BY <3>1, <3>2
  <2>9. ASSUME NEW i \in 1..(n + 1)
        PROVE  decisions'[i].how = "alert" <=>
                  \E j \in 1..(i - 1) :
                     /\ decisions'[j].labels = decisions'[i].labels
                     /\ decisions'[i].at - decisions'[j].at < AlertCooldown
    <3>1. CASE i = n + 1
      <4>1. 1..(i - 1) = 1..n
        BY <2>4, <3>1
      <4> QED  BY <2>3, <2>4, <2>8, <3>1, <4>1
    <3>2. CASE i # n + 1
      <4>1. i \in 1..n /\ \A j \in 1..(i - 1) : j \in 1..n
        BY <2>4, <3>2
      <4>2. decisions[i].how = "alert" <=>
               \E j \in 1..(i - 1) :
                  /\ decisions[j].labels = decisions[i].labels
                  /\ decisions[i].at - decisions[j].at < AlertCooldown
        BY <2>4, <4>1 DEF OnlyRepeatsAlert
      <4> QED  BY <2>4, <4>1, <4>2
    <3> QED  BY <3>1, <3>2
  <2>10. OnlyRepeatsAlert'
    BY <2>4, <2>9 DEF OnlyRepeatsAlert
  <2> QED  BY <2>7, <2>10
<1> QED  BY <1>1, <1>2

LEMMA RepeatsStep ==
    AlertInv /\ RecentInv /\ OnlyRepeatsAlert /\ [AlertNext]_alertVars
        => RecentInv' /\ OnlyRepeatsAlert'
<1> SUFFICES ASSUME AlertInv, RecentInv, OnlyRepeatsAlert, [AlertNext]_alertVars
             PROVE  RecentInv' /\ OnlyRepeatsAlert'
  OBVIOUS
<1>1. CASE \E p \in Paths : TakeDetection(p)
  <2>1. PICK p \in Paths : TakeDetection(p)
    BY <1>1
  <2> DEFINE m == Head(mail[p]["detection"])
  <2>2. /\ Take(p, "detection") /\ m \in Mail
        /\ UNCHANGED limiterVars \/ DecideEvent(m.labels)
    BY <2>1, TakeDetectionIs
  <2>3. time' = time
    BY <2>2 DEF Take
  <2>4. m.labels \in Verdicts
    BY <2>2 DEF Mail
  <2> HIDE DEF m
  <2>5. CASE UNCHANGED limiterVars
    BY <2>3, <2>5 DEF limiterVars, RecentInv, OnlyRepeatsAlert
  <2>6. CASE DecideEvent(m.labels)
    BY <2>3, <2>4, <2>6, DecideRepeats
  <2> QED  BY <2>2, <2>5, <2>6
<1>2. CASE TimePasses
  <2>1. time' = time + 1 /\ UNCHANGED limiterVars /\ time \in Nat
    BY <1>2, AlertBounds DEF TimePasses, AlertInv
  <2>2. \A V \in Verdicts : recent[V] # Never => recent[V] \in Nat
    BY DEF AlertInv
  <2>3. RecentInv'
    BY <2>1, <2>2 DEF RecentInv, limiterVars
  <2> QED  BY <2>1, <2>3 DEF limiterVars, OnlyRepeatsAlert
<1>3. CASE ~TimePasses /\ ~(\E p \in Paths : TakeDetection(p))
  <2>1. recent' = recent /\ decisions' = decisions /\ time' = time
    BY <1>3 DEF AlertNext, SubscriberRound, FlushStale, PollNothing, TakeFlag, TakeImage,
         RoundFails, Take, Sending, DiscoverLan, PublishMail, alertVars, loopVars, limiterVars
  <2> QED  BY <2>1 DEF RecentInv, OnlyRepeatsAlert
<1> QED  BY <1>1, <1>2, <1>3

\* process_event of .draft/ alerts exactly for the events whose classes were
\* decided on less than the cooldown before, for any cooldown and class sets.
THEOREM DraftOnlyRepeatsAlert == AlertSpec => []OnlyRepeatsAlert
<1>1. AlertInit => RecentInv /\ OnlyRepeatsAlert
  BY DEF AlertInit, RecentInv, OnlyRepeatsAlert
<1>2. AlertSpec => [](RecentInv /\ OnlyRepeatsAlert)
  BY <1>1, RepeatsStep, AlertInvHolds, PTL DEF AlertSpec
<1> QED  BY <1>2, PTL
-----------------------------------------------------------------------------
(* Every message once on every path.                                       *)

Carries(q, n) == \E i \in DOMAIN q : q[i].motion = n

\* The serial numbers of a queue, NoFlag and NoId aside, grow up to last.
Serial(q, last) ==
    /\ \A i \in DOMAIN q : q[i].motion <= last
    /\ \A i, j \in DOMAIN q :
          i < j /\ q[i].motion # 0 /\ q[j].motion # 0 => q[i].motion < q[j].motion

\* A publisher that is not connected to sends nothing; flags and images arrive in
\* the order they were published in.
QueueInv ==
    /\ \A p \in Paths \ paths, k \in Publishers : mail[p][k] = <<>>
    /\ \A p \in Paths, k \in {"flag", "image"} : Serial(mail[p][k], made[k])

LEMMA SerialTail ==
    ASSUME NEW q \in Seq(Mail), q # <<>>, NEW last \in Nat, Serial(q, last)
    PROVE  /\ Serial(Tail(q), last)
           /\ Carries(q, Head(q).motion)
           /\ \A n : Carries(Tail(q), n) => Carries(q, n)
           /\ Head(q).motion # 0 => ~Carries(Tail(q), Head(q).motion)
<1>1. /\ Head(q) = q[1] /\ 1 \in DOMAIN q
      /\ \A i \in DOMAIN Tail(q) :
            i \in Nat /\ i + 1 \in DOMAIN q /\ Tail(q)[i] = q[i + 1] /\ 1 < i + 1
  <2>1. \A i \in DOMAIN Tail(q) : i \in Nat \ {0}
    OBVIOUS
  <2> QED  BY <2>1, TailNumber
<1>2. Serial(Tail(q), last)
  <2>1. ASSUME NEW i \in DOMAIN Tail(q), NEW j \in DOMAIN Tail(q), i < j
        PROVE  i + 1 < j + 1
    BY <1>1, <2>1
  <2> QED  BY <1>1, <2>1 DEF Serial
<1>3. ASSUME Head(q).motion # 0, NEW i \in DOMAIN Tail(q), Tail(q)[i].motion = Head(q).motion
      PROVE  FALSE
  <2>1. q[1].motion # 0 /\ q[i + 1].motion = q[1].motion /\ i + 1 \in DOMAIN q /\ 1 < i + 1
    BY <1>1, <1>3
  <2>2. q[1].motion < q[i + 1].motion
    BY <1>1, <2>1 DEF Serial
  <2>3. q[1].motion \in Nat
    <3>1. q[1] \in Mail
      BY <1>1, ElementOfSeq, LenProperties
    <3> QED  BY <3>1 DEF Mail
  <2> QED  BY <2>1, <2>2, <2>3
<1>4. Head(q).motion # 0 => ~Carries(Tail(q), Head(q).motion)
  BY <1>3 DEF Carries
<1>5. \A n : Carries(Tail(q), n) => Carries(q, n)
  BY <1>1 DEF Carries
<1>6. Carries(q, Head(q).motion)
  BY <1>1 DEF Carries
<1> QED  BY <1>2, <1>4, <1>5, <1>6

LEMMA SerialAppend ==
    ASSUME NEW q \in Seq(Mail), NEW last \in Nat, Serial(q, last),
           NEW m \in Mail, m.motion \in {0, last + 1}
    PROVE  Serial(Append(q, m), last + 1)
<1> DEFINE r == Append(q, m)
<1>1. /\ DOMAIN q = 1..Len(q) /\ Len(q) \in Nat /\ DOMAIN r = 1..(Len(q) + 1)
      /\ \A i \in 1..Len(q) : r[i] = q[i]
      /\ r[Len(q) + 1] = m
  BY AppendProperties, LenProperties
<1>2. \A i \in DOMAIN q : q[i].motion \in Nat /\ q[i].motion <= last
  <2>1. \A i \in DOMAIN q : q[i] \in Mail
    BY ElementOfSeq, LenProperties
  <2> QED  BY <2>1 DEF Mail, Serial
<1> HIDE DEF r
<1>3. \A i \in DOMAIN r : i \in DOMAIN q \/ i = Len(q) + 1
  BY <1>1
<1>4. \A i \in DOMAIN r : r[i].motion <= last + 1
  BY <1>1, <1>2, <1>3
<1>5. ASSUME NEW i \in DOMAIN r, NEW j \in DOMAIN r, i < j, r[i].motion # 0, r[j].motion # 0
      PROVE  r[i].motion < r[j].motion
  <2>1. i \in DOMAIN q /\ r[i] = q[i]
    BY <1>1, <1>5
  <2>2. CASE j \in DOMAIN q
    BY <1>1, <1>5, <2>1, <2>2 DEF Serial
  <2>3. CASE j = Len(q) + 1
    BY <1>1, <1>2, <1>5, <2>1, <2>3
  <2> QED  BY <1>3, <2>2, <2>3
<1>6. Serial(r, last + 1)
  BY <1>4, <1>5 DEF Serial
<1> QED  BY <1>6 DEF r

LEMMA AppendCarries ==
    ASSUME NEW q \in Seq(Mail), NEW m \in Mail, NEW n
    PROVE  Carries(Append(q, m), n) <=> Carries(q, n) \/ m.motion = n
<1>1. /\ DOMAIN q = 1..Len(q) /\ Len(q) \in Nat /\ DOMAIN Append(q, m) = 1..(Len(q) + 1)
      /\ \A i \in 1..Len(q) : Append(q, m)[i] = q[i]
      /\ Append(q, m)[Len(q) + 1] = m
  BY AppendProperties, LenProperties
<1>2. /\ \A i \in 1..(Len(q) + 1) : i \in 1..Len(q) \/ i = Len(q) + 1
      /\ Len(q) + 1 \in 1..(Len(q) + 1) /\ \A i \in 1..Len(q) : i \in 1..(Len(q) + 1)
  BY <1>1
<1> QED  BY <1>1, <1>2 DEF Carries

LEMMA SerialLater ==
    ASSUME NEW q \in Seq(Mail), NEW last \in Nat, Serial(q, last)
    PROVE  Serial(q, last + 1)
<1>1. \A i \in DOMAIN q : q[i].motion \in Nat
  <2>1. \A i \in DOMAIN q : q[i] \in Mail
    BY ElementOfSeq, LenProperties
  <2> QED  BY <2>1 DEF Mail
<1> QED  BY <1>1 DEF Serial

LEMMA QueueTake ==
    ASSUME AlertInv, QueueInv, NEW p \in Paths, NEW k \in Publishers, Take(p, k)
    PROVE  QueueInv' /\ p \in paths
<1>1. /\ mail[p][k] # <<>> /\ mail'[p][k] = Tail(mail[p][k])
      /\ \A q \in Paths, l \in Publishers : q # p \/ l # k => mail'[q][l] = mail[q][l]
      /\ paths' = paths /\ made' = made
  BY TakeIs
<1>2. p \in paths
  BY <1>1 DEF QueueInv
<1>3. \A q \in Paths \ paths', l \in Publishers : mail'[q][l] = <<>>
  BY <1>1, <1>2 DEF QueueInv
<1>4. ASSUME NEW q \in Paths, NEW l \in {"flag", "image"} PROVE Serial(mail'[q][l], made'[l])
  <2>1. Serial(mail[q][l], made[l]) /\ l \in Publishers
    BY DEF QueueInv, Publishers
  <2>2. made[l] \in Nat /\ mail[q][l] \in Seq(Mail)
    BY <2>1 DEF AlertInv
  <2>3. CASE q = p /\ l = k
    BY <1>1, <2>1, <2>2, <2>3, SerialTail
  <2>4. CASE ~(q = p /\ l = k)
    BY <1>1, <2>1, <2>4
  <2> QED  BY <2>3, <2>4
<1> QED  BY <1>2, <1>3, <1>4 DEF QueueInv

LEMMA QueuePublish ==
    ASSUME AlertInv, QueueInv, NEW k \in Publishers, PublishMail(k)
    PROVE  QueueInv'
<1>1. made' = [made EXCEPT ![k] = made[k] + 1] /\ paths' = paths
  BY PublishIs
<1>2. PICK m \in Mail : (k = "detection" \/ m.motion \in {0, made[k] + 1}) /\ Deliver(k, m)
  BY PublishIs
<1>3. \A p \in Paths, l \in Publishers :
         mail'[p][l] = IF p \in paths /\ l = k THEN Append(mail[p][l], m) ELSE mail[p][l]
  BY <1>2, DeliverIs
<1>4. \A q \in Paths \ paths', l \in Publishers : mail'[q][l] = <<>>
  BY <1>1, <1>3 DEF QueueInv
<1>5. ASSUME NEW q \in Paths, NEW l \in {"flag", "image"} PROVE Serial(mail'[q][l], made'[l])
  <2>1. Serial(mail[q][l], made[l]) /\ l \in Publishers
    BY DEF QueueInv, Publishers
  <2>2. made[l] \in Nat /\ mail[q][l] \in Seq(Mail) /\ made \in [Publishers -> Nat]
    BY <2>1 DEF AlertInv
  <2>3. CASE l # k
    <3>1. mail'[q][l] = mail[q][l] /\ made'[l] = made[l]
      BY <1>1, <1>3, <2>1, <2>2, <2>3
    <3> QED  BY <2>1, <3>1
  <2>4. CASE l = k
    <3>1. made'[l] = made[l] + 1
      BY <1>1, <2>1, <2>2, <2>4
    <3>2. m.motion \in {0, made[l] + 1}
      BY <1>2, <2>4
    <3>3. mail'[q][l] = Append(mail[q][l], m) \/ mail'[q][l] = mail[q][l]
      BY <1>3, <2>1
    <3> QED  BY <2>1, <2>2, <3>1, <3>2, <3>3, SerialAppend, SerialLater
  <2> QED  BY <2>3, <2>4
<1> QED  BY <1>4, <1>5 DEF QueueInv

LEMMA QueueStep == AlertInv /\ QueueInv /\ [AlertNext]_alertVars => QueueInv'
<1> SUFFICES ASSUME AlertInv, QueueInv, [AlertNext]_alertVars PROVE QueueInv'
  OBVIOUS
<1>1. CASE \E p \in Paths :
              \/ TakeFlag(p) \/ TakeImage(p) \/ TakeDetection(p)
              \/ \E k \in Publishers : RoundFails(p, k)
  <2>1. PICK p \in Paths :
              \/ TakeFlag(p) \/ TakeImage(p) \/ TakeDetection(p)
              \/ \E k \in Publishers : RoundFails(p, k)
    BY <1>1
  <2>2. PICK k \in Publishers : Take(p, k)
    BY <2>1 DEF TakeFlag, TakeImage, TakeDetection, RoundFails, Publishers
  <2> QED  BY <2>2, QueueTake
<1>2. CASE DiscoverLan
  <2>1. paths' = Paths /\ mail' = mail /\ made' = made
    BY <1>2 DEF DiscoverLan
  <2> QED  BY <2>1 DEF QueueInv
<1>3. CASE FlushStale \/ PollNothing \/ Sending \/ TimePasses \/ UNCHANGED alertVars
  <2>1. paths' = paths /\ mail' = mail /\ made' = made
    BY <1>3 DEF FlushStale, PollNothing, Sending, TimePasses, alertVars, worldVars
  <2> QED  BY <2>1 DEF QueueInv
<1> QED  BY <1>1, <1>2, <1>3, QueuePublish DEF AlertNext, SubscriberRound

LEMMA QueueStart == AlertInit => QueueInv
<1> SUFFICES ASSUME AlertInit PROVE QueueInv
  OBVIOUS
<1>1. \A p \in Paths, k \in Publishers : mail[p][k] = <<>>
  BY DEF AlertInit
<1>2. \A p \in Paths, k \in {"flag", "image"} : DOMAIN mail[p][k] = {}
  BY <1>1 DEF Publishers
<1> QED  BY <1>1, <1>2 DEF QueueInv, Serial
-----------------------------------------------------------------------------
(* An image makes at most one event per connection.                        *)

\* The connections an image is still to be read from, and the events it has made.
Copies(n) == {p \in paths : Carries(mail[p]["image"], n)}
EventsOf(n) == {e \in pending : e.id = n}

CopyInv ==
    \A n \in PictureIds :
        /\ handled[n] + Cardinality(EventsOf(n)) + Cardinality(Copies(n)) <= Cardinality(paths)
        /\ n > made["image"] => handled[n] = 0 /\ EventsOf(n) = {}

LEMMA SmallerSet ==
    ASSUME NEW S, IsFiniteSet(S), NEW T, T \subseteq S
    PROVE  /\ IsFiniteSet(T) /\ Cardinality(T) \in Nat /\ Cardinality(S) \in Nat
           /\ Cardinality(T) <= Cardinality(S)
           /\ \A x \in S : x \notin T => Cardinality(T) + 1 <= Cardinality(S)
<1>1. /\ IsFiniteSet(T) /\ Cardinality(T) \in Nat /\ Cardinality(S) \in Nat
      /\ Cardinality(T) <= Cardinality(S)
  BY FS_Subset, FS_CardinalityType
<1>2. ASSUME NEW x \in S, x \notin T PROVE Cardinality(T) + 1 <= Cardinality(S)
  <2>1. IsFiniteSet(T \cup {x}) /\ Cardinality(T \cup {x}) = Cardinality(T) + 1
    BY <1>1, <1>2, FS_AddElement
  <2>2. Cardinality(T \cup {x}) <= Cardinality(S)
    BY <1>2, FS_Subset
  <2> QED  BY <2>1, <2>2
<1> QED  BY <1>1, <1>2

LEMMA AlertFinite ==
    ASSUME AlertInv
    PROVE  /\ IsFiniteSet(Paths) /\ IsFiniteSet(paths) /\ Cardinality(paths) \in Nat
           /\ \A n : IsFiniteSet(Copies(n)) /\ Cardinality(Copies(n)) \in Nat
           /\ \A n : IsFiniteSet(EventsOf(n)) /\ Cardinality(EventsOf(n)) \in Nat
<1>1. IsFiniteSet(Paths)
  <2>1. IsFiniteSet({"local"}) /\ Paths = {"local"} \cup {"lan"}
    BY FS_Singleton DEF Paths
  <2> QED  BY <2>1, FS_AddElement
<1>2. IsFiniteSet(paths) /\ Cardinality(paths) \in Nat
  BY <1>1, SmallerSet DEF AlertInv
<1>3. ASSUME NEW n PROVE IsFiniteSet(Copies(n)) /\ Cardinality(Copies(n)) \in Nat
  <2>1. Copies(n) \subseteq paths
    BY DEF Copies
  <2> QED  BY <1>2, <2>1, SmallerSet
<1>4. ASSUME NEW n PROVE IsFiniteSet(EventsOf(n)) /\ Cardinality(EventsOf(n)) \in Nat
  <2>1. EventsOf(n) \subseteq pending
    BY DEF EventsOf
  <2> QED  BY <2>1, SmallerSet DEF AlertInv
<1> QED  BY <1>1, <1>2, <1>3, <1>4

\* A message that is taken is one copy less, of its own number only.
LEMMA TakeCopies ==
    ASSUME AlertInv, QueueInv, NEW p \in Paths, NEW k \in Publishers, Take(p, k)
    PROVE  /\ \A n : Copies(n)' \subseteq Copies(n)
           /\ \A n : Cardinality(Copies(n)') \in Nat
                       /\ Cardinality(Copies(n)') <= Cardinality(Copies(n))
           /\ \A n : k = "image" /\ n = Head(mail[p]["image"]).motion /\ n # 0 =>
                 Cardinality(Copies(n)') + 1 <= Cardinality(Copies(n))
<1>1. /\ mail[p][k] # <<>> /\ mail'[p][k] = Tail(mail[p][k])
      /\ \A q \in Paths, l \in Publishers : q # p \/ l # k => mail'[q][l] = mail[q][l]
      /\ paths' = paths
  BY TakeIs
<1>2. p \in paths /\ paths \subseteq Paths
  BY QueueTake DEF AlertInv
<1>3. /\ "image" \in Publishers
      /\ made["image"] \in Nat /\ mail[p]["image"] \in Seq(Mail)
      /\ Serial(mail[p]["image"], made["image"])
  BY DEF AlertInv, QueueInv, Publishers
<1>4. k = "image" =>
         LET n == Head(mail[p]["image"]).motion IN
         /\ Carries(mail[p]["image"], n)
         /\ \A l : Carries(mail'[p]["image"], l) => Carries(mail[p]["image"], l)
         /\ n # 0 => ~Carries(mail'[p]["image"], n)
  BY <1>1, <1>3, SerialTail
<1>5. ASSUME NEW n, NEW q \in paths, Carries(mail'[q]["image"], n)
      PROVE  Carries(mail[q]["image"], n)
  <2>1. CASE q = p /\ k = "image"
    BY <1>4, <1>5, <2>1
  <2>2. CASE ~(q = p /\ k = "image")
    BY <1>1, <1>2, <1>3, <1>5, <2>2
  <2> QED  BY <2>1, <2>2
<1>6. \A n : Copies(n)' \subseteq Copies(n)
  BY <1>1, <1>5 DEF Copies
<1>7. \A n : Cardinality(Copies(n)') \in Nat /\ Cardinality(Copies(n)') <= Cardinality(Copies(n))
  <2> SUFFICES ASSUME NEW n
               PROVE  /\ Cardinality(Copies(n)') \in Nat
                      /\ Cardinality(Copies(n)') <= Cardinality(Copies(n))
    OBVIOUS
  <2>1. IsFiniteSet(Copies(n)) /\ Copies(n)' \subseteq Copies(n)
    BY <1>6, AlertFinite
  <2> QED  BY <2>1, SmallerSet
<1>8. ASSUME NEW n, k = "image", n = Head(mail[p]["image"]).motion, n # 0
      PROVE  Cardinality(Copies(n)') + 1 <= Cardinality(Copies(n))
  <2>1. p \in Copies(n) /\ p \notin Copies(n)'
    BY <1>1, <1>2, <1>4, <1>8 DEF Copies
  <2>2. IsFiniteSet(Copies(n)) /\ Copies(n)' \subseteq Copies(n)
    BY <1>6, AlertFinite
  <2> QED  BY <2>1, <2>2, SmallerSet
<1> QED  BY <1>6, <1>7, <1>8

\* A step after which no image has more copies or events, and more were not made.
LEMMA CopyFrame ==
    ASSUME AlertInv, CopyInv, paths' = paths, made'["image"] = made["image"],
           handled' = handled, pending' \subseteq pending,
           \A n \in PictureIds : /\ Cardinality(Copies(n)') \in Nat
                                 /\ Cardinality(Copies(n)') <= Cardinality(Copies(n))
    PROVE  CopyInv'
<1> SUFFICES ASSUME NEW n \in PictureIds
             PROVE  /\ handled'[n] + Cardinality(EventsOf(n)') + Cardinality(Copies(n)')
                           <= Cardinality(paths')
                    /\ n > made'["image"] => handled'[n] = 0 /\ EventsOf(n)' = {}
  BY DEF CopyInv
<1>1. EventsOf(n)' \subseteq EventsOf(n)
  BY DEF EventsOf
<1>2. Cardinality(EventsOf(n)') \in Nat /\ Cardinality(EventsOf(n)') <= Cardinality(EventsOf(n))
  BY <1>1, AlertFinite, SmallerSet
<1>3. /\ Cardinality(Copies(n)') \in Nat /\ Cardinality(Copies(n)') <= Cardinality(Copies(n))
      /\ Cardinality(Copies(n)) \in Nat /\ Cardinality(EventsOf(n)) \in Nat
      /\ Cardinality(paths) \in Nat
  BY AlertFinite
<1>4. handled[n] \in Nat
  BY DEF AlertInv
<1>5. /\ handled[n] + Cardinality(EventsOf(n)) + Cardinality(Copies(n)) <= Cardinality(paths)
      /\ n > made["image"] => handled[n] = 0 /\ EventsOf(n) = {}
  BY DEF CopyInv
<1>6. handled[n] + Cardinality(EventsOf(n)') + Cardinality(Copies(n)') <= Cardinality(paths)
  BY <1>2, <1>3, <1>4, <1>5
<1>7. n > made["image"] => handled[n] = 0 /\ EventsOf(n)' = {}
  BY <1>1, <1>5
<1> QED  BY <1>6, <1>7
LEMMA ImageCopies ==
    ASSUME AlertInv, QueueInv, CopyInv, NEW p \in Paths, TakeImage(p)
    PROVE  CopyInv'
<1> DEFINE h == Head(mail[p]["image"]).motion
<1>1. /\ Take(p, "image") /\ UNCHANGED <<handled, limiterVars>>
      /\ \/ UNCHANGED <<currentFlag, pending>>
         \/ /\ h \in PictureIds
            /\ pending' = {e \in pending : e.id # h} \cup {NewEntry(h)}
  BY TakeImageIs
<1>2. /\ paths' = paths /\ made' = made
      /\ \A n : /\ Cardinality(Copies(n)') \in Nat
                /\ Cardinality(Copies(n)') <= Cardinality(Copies(n))
      /\ \A n : n = h /\ n # 0 => Cardinality(Copies(n)') + 1 <= Cardinality(Copies(n))
  BY <1>1, TakeCopies, TakeIs DEF Publishers
<1>3. CASE UNCHANGED <<currentFlag, pending>>
  BY <1>1, <1>2, <1>3, CopyFrame
<1>4. CASE /\ h \in PictureIds
           /\ pending' = {e \in pending : e.id # h} \cup {NewEntry(h)}
  <2> SUFFICES ASSUME NEW n \in PictureIds
               PROVE  /\ handled'[n] + Cardinality(EventsOf(n)') + Cardinality(Copies(n)')
                             <= Cardinality(paths')
                      /\ n > made'["image"] => handled'[n] = 0 /\ EventsOf(n)' = {}
    BY DEF CopyInv
  <2>1. /\ Cardinality(Copies(n)) \in Nat /\ Cardinality(EventsOf(n)) \in Nat
        /\ Cardinality(paths) \in Nat /\ handled[n] \in Nat
        /\ handled[n] + Cardinality(EventsOf(n)) + Cardinality(Copies(n)) <= Cardinality(paths)
        /\ n > made["image"] => handled[n] = 0 /\ EventsOf(n) = {}
    BY AlertFinite DEF CopyInv, AlertInv
  <2>2. n \in Nat /\ n # 0
    BY DEF PictureIds
  <2>3. h <= made["image"] /\ h \in Nat /\ made["image"] \in Nat
    <3>1. made["image"] \in Nat
      BY DEF AlertInv, Publishers
    <3> QED  BY <3>1, TakeImageIs
  <2>4. NewEntry(h).id = h
    BY DEF NewEntry
  <2> HIDE DEF h
  <2>5. CASE n = h
    <3>1. EventsOf(n)' = {NewEntry(h)}
      BY <1>4, <2>4, <2>5 DEF EventsOf
    <3>2. Cardinality(EventsOf(n)') = 1
      BY <3>1, FS_Singleton
    <3>3. Cardinality(Copies(n)') + 1 <= Cardinality(Copies(n)) /\ Cardinality(Copies(n)') \in Nat
      BY <1>2, <2>2, <2>5
    <3>4. ~(n > made["image"])
      BY <2>3, <2>5
    <3>5. handled[n] + 1 + Cardinality(Copies(n)') <= Cardinality(paths)
      BY <2>1, <3>3
    <3> QED  BY <1>1, <1>2, <3>2, <3>4, <3>5
  <2>6. CASE n # h
    <3>1. EventsOf(n)' = EventsOf(n)
      BY <1>4, <2>4, <2>6 DEF EventsOf
    <3>2. Cardinality(Copies(n)') <= Cardinality(Copies(n)) /\ Cardinality(Copies(n)') \in Nat
      BY <1>2
    <3>3. handled[n] + Cardinality(EventsOf(n)) + Cardinality(Copies(n)') <= Cardinality(paths)
      BY <2>1, <3>2
    <3> QED  BY <1>1, <1>2, <2>1, <3>1, <3>3
  <2> QED  BY <2>5, <2>6
<1> QED  BY <1>1, <1>3, <1>4

LEMMA DetectionCopies ==
    ASSUME AlertInv, QueueInv, CopyInv, NEW p \in Paths, TakeDetection(p)
    PROVE  CopyInv'
<1> DEFINE h == Head(mail[p]["detection"]).motion
<1>1. /\ Take(p, "detection")
      /\ \/ UNCHANGED <<pending, handled, limiterVars>>
         \/ /\ h \in PictureIds
            /\ \E e \in pending : e.id = h
            /\ pending' = {e \in pending : e.id # h}
            /\ handled' = [handled EXCEPT ![h] = handled[h] + 1]
  BY TakeDetectionIs
<1>2. /\ paths' = paths /\ made' = made
      /\ \A n : /\ Cardinality(Copies(n)') \in Nat
                /\ Cardinality(Copies(n)') <= Cardinality(Copies(n))
  BY <1>1, TakeCopies, TakeIs DEF Publishers
<1> HIDE DEF h
<1>3. CASE UNCHANGED <<pending, handled, limiterVars>>
  BY <1>2, <1>3, CopyFrame
<1>4. CASE /\ h \in PictureIds
           /\ \E e \in pending : e.id = h
           /\ pending' = {e \in pending : e.id # h}
           /\ handled' = [handled EXCEPT ![h] = handled[h] + 1]
  <2> SUFFICES ASSUME NEW n \in PictureIds
               PROVE  /\ handled'[n] + Cardinality(EventsOf(n)') + Cardinality(Copies(n)')
                             <= Cardinality(paths')
                      /\ n > made'["image"] => handled'[n] = 0 /\ EventsOf(n)' = {}
    BY DEF CopyInv
  <2>1. /\ Cardinality(Copies(n)) \in Nat /\ Cardinality(EventsOf(n)) \in Nat
        /\ Cardinality(paths) \in Nat /\ handled[n] \in Nat
        /\ handled[n] + Cardinality(EventsOf(n)) + Cardinality(Copies(n)) <= Cardinality(paths)
        /\ n > made["image"] => handled[n] = 0 /\ EventsOf(n) = {}
    BY AlertFinite DEF CopyInv, AlertInv
  <2>2. handled'[n] = IF n = h THEN handled[n] + 1 ELSE handled[n]
    BY <1>4 DEF AlertInv
  <2>3. Cardinality(Copies(n)') <= Cardinality(Copies(n)) /\ Cardinality(Copies(n)') \in Nat
    BY <1>2
  <2>4. CASE n = h
    <3>1. PICK e \in EventsOf(n) : TRUE
      BY <1>4, <2>4 DEF EventsOf
    <3>2. EventsOf(n)' = {}
      BY <1>4, <2>4 DEF EventsOf
    <3>3. Cardinality(EventsOf(n)) >= 1
      <4>1. {} \subseteq EventsOf(n) /\ e \notin {} /\ Cardinality({}) = 0
        BY FS_EmptySet
      <4> QED  BY <3>1, <4>1, AlertFinite, SmallerSet
    <3>4. Cardinality(EventsOf(n)') = 0
      BY <3>2, FS_EmptySet
    <3>5. ~(n > made["image"])
      BY <2>1, <3>1
    <3>6. handled[n] + 1 + 0 + Cardinality(Copies(n)') <= Cardinality(paths)
      BY <2>1, <2>3, <3>3
    <3> QED  BY <1>2, <2>2, <2>4, <3>4, <3>5, <3>6
  <2>5. CASE n # h
    <3>1. EventsOf(n)' = EventsOf(n)
      BY <1>4, <2>5 DEF EventsOf
    <3>2. handled[n] + Cardinality(EventsOf(n)) + Cardinality(Copies(n)') <= Cardinality(paths)
      BY <2>1, <2>3
    <3> QED  BY <1>2, <2>1, <2>2, <2>5, <3>1, <3>2
  <2> QED  BY <2>4, <2>5
<1> QED  BY <1>1, <1>3, <1>4

\* An event is overdue or it stays.
LEMMA StaleSplit ==
    ASSUME AlertInv, NEW n
    PROVE  /\ Cardinality({e \in Stale : e.id = n}) \in Nat
           /\ Cardinality({e \in Stale : e.id = n}) + Cardinality({e \in pending \ Stale : e.id = n})
                = Cardinality(EventsOf(n))
           /\ Cardinality({e \in pending \ Stale : e.id = n}) \in Nat
<1> DEFINE A == {e \in Stale : e.id = n}
           B == {e \in pending \ Stale : e.id = n}
<1>1. A \cup B = EventsOf(n) /\ A \cap B = {}
  BY DEF EventsOf, Stale
<1> HIDE DEF A, B
<1>2. IsFiniteSet(EventsOf(n)) /\ A \subseteq EventsOf(n) /\ B \subseteq EventsOf(n)
  BY <1>1, AlertFinite
<1>3. IsFiniteSet(A) /\ IsFiniteSet(B) /\ Cardinality(A) \in Nat /\ Cardinality(B) \in Nat
  BY <1>2, SmallerSet
<1>4. Cardinality(A \cup B) = Cardinality(A) + Cardinality(B) - Cardinality(A \cap B)
  BY <1>3, FS_Union
<1>5. Cardinality(A) + Cardinality(B) = Cardinality(EventsOf(n))
  BY <1>1, <1>3, <1>4, FS_EmptySet
<1> QED  BY <1>3, <1>5 DEF A, B

LEMMA FlushCopies ==
    ASSUME AlertInv, QueueInv, CopyInv, FlushStale
    PROVE  CopyInv'
<1>1. /\ pending' = pending \ Stale
      /\ handled' = [n \in DOMAIN handled |->
                       handled[n] + Cardinality({e \in Stale : e.id = n})]
      /\ mail' = mail /\ paths' = paths /\ made' = made
  BY DEF FlushStale, worldVars
<1> SUFFICES ASSUME NEW n \in PictureIds
             PROVE  /\ handled'[n] + Cardinality(EventsOf(n)') + Cardinality(Copies(n)')
                           <= Cardinality(paths')
                    /\ n > made'["image"] => handled'[n] = 0 /\ EventsOf(n)' = {}
  BY DEF CopyInv
<1> DEFINE a == Cardinality({e \in Stale : e.id = n})
<1>2. handled'[n] = handled[n] + a
  BY <1>1 DEF AlertInv
<1>3. EventsOf(n)' = {e \in pending \ Stale : e.id = n}
  BY <1>1 DEF EventsOf
<1>4. /\ a \in Nat /\ Cardinality(EventsOf(n)') \in Nat
      /\ a + Cardinality(EventsOf(n)') = Cardinality(EventsOf(n))
  BY <1>3, StaleSplit
<1>5. Copies(n)' = Copies(n)
  BY <1>1 DEF Copies
<1>6. /\ Cardinality(Copies(n)) \in Nat /\ Cardinality(EventsOf(n)) \in Nat
      /\ Cardinality(paths) \in Nat /\ handled[n] \in Nat
      /\ handled[n] + Cardinality(EventsOf(n)) + Cardinality(Copies(n)) <= Cardinality(paths)
      /\ n > made["image"] => handled[n] = 0 /\ EventsOf(n) = {}
  BY AlertFinite DEF CopyInv, AlertInv
<1> HIDE DEF a
<1>7. handled'[n] + Cardinality(EventsOf(n)') + Cardinality(Copies(n)') <= Cardinality(paths')
  BY <1>1, <1>2, <1>4, <1>5, <1>6
<1>8. ASSUME n > made'["image"] PROVE handled'[n] = 0 /\ EventsOf(n)' = {}
  <2>1. handled[n] = 0 /\ EventsOf(n) = {}
    BY <1>1, <1>6, <1>8
  <2>2. EventsOf(n)' \subseteq EventsOf(n)
    BY <1>1 DEF EventsOf
  <2>3. a = 0
    BY <1>4, <2>1, FS_EmptySet
  <2> QED  BY <1>2, <2>1, <2>2, <2>3
<1> QED  BY <1>7, <1>8

LEMMA PublishCopies ==
    ASSUME AlertInv, QueueInv, CopyInv, NEW k \in Publishers, PublishMail(k)
    PROVE  CopyInv'
<1>1. /\ made' = [made EXCEPT ![k] = made[k] + 1] /\ paths' = paths
      /\ handled' = handled /\ pending' = pending
  BY PublishIs DEF loopVars
<1>2. PICK m \in Mail : (k = "detection" \/ m.motion \in {0, made[k] + 1}) /\ Deliver(k, m)
  BY PublishIs
<1>3. \A p \in Paths, l \in Publishers :
         mail'[p][l] = IF p \in paths /\ l = k THEN Append(mail[p][l], m) ELSE mail[p][l]
  BY <1>2, DeliverIs
<1>4. /\ "image" \in Publishers /\ paths \subseteq Paths
      /\ made \in [Publishers -> Nat] /\ made["image"] \in Nat
      /\ \A p \in Paths : mail[p]["image"] \in Seq(Mail)
  BY DEF AlertInv, Publishers
<1>5. made'["image"] >= made["image"] /\ made'["image"] \in Nat
  BY <1>1, <1>4
<1> SUFFICES ASSUME NEW n \in PictureIds
             PROVE  /\ handled'[n] + Cardinality(EventsOf(n)') + Cardinality(Copies(n)')
                           <= Cardinality(paths')
                    /\ n > made'["image"] => handled'[n] = 0 /\ EventsOf(n)' = {}
  BY DEF CopyInv
<1>6. /\ Cardinality(Copies(n)) \in Nat /\ Cardinality(EventsOf(n)) \in Nat
      /\ Cardinality(paths) \in Nat /\ handled[n] \in Nat
      /\ handled[n] + Cardinality(EventsOf(n)) + Cardinality(Copies(n)) <= Cardinality(paths)
      /\ n > made["image"] => handled[n] = 0 /\ EventsOf(n) = {}
  BY AlertFinite DEF CopyInv, AlertInv
<1>7. EventsOf(n)' = EventsOf(n) /\ n \in Nat /\ n # 0
  BY <1>1 DEF EventsOf, PictureIds
<1>8. n > made'["image"] => handled'[n] = 0 /\ EventsOf(n)' = {}
  BY <1>1, <1>4, <1>5, <1>6, <1>7
<1>9. CASE k = "image" /\ m.motion = n
  <2>1. n > made["image"]
    BY <1>2, <1>4, <1>7, <1>9
  <2>2. Copies(n)' \subseteq paths
    BY <1>1 DEF Copies
  <2>3. Cardinality(Copies(n)') <= Cardinality(paths) /\ Cardinality(Copies(n)') \in Nat
    BY <2>2, AlertFinite, SmallerSet
  <2>4. handled'[n] = 0 /\ Cardinality(EventsOf(n)') = 0
    BY <1>1, <1>6, <1>7, <2>1, FS_EmptySet
  <2> QED  BY <1>1, <1>8, <2>3, <2>4
<1>10. CASE ~(k = "image" /\ m.motion = n)
  <2>1. ASSUME NEW p \in paths
        PROVE  Carries(mail'[p]["image"], n) <=> Carries(mail[p]["image"], n)
    <3>1. CASE k = "image"
      <4>1. mail'[p]["image"] = Append(mail[p]["image"], m)
        BY <1>3, <1>4, <3>1
      <4> QED  BY <1>4, <1>10, <3>1, <4>1, AppendCarries
    <3>2. CASE k # "image"
      BY <1>3, <1>4, <3>2
    <3> QED  BY <3>1, <3>2
  <2>2. Copies(n)' = Copies(n)
    BY <1>1, <2>1 DEF Copies
  <2> QED  BY <1>1, <1>6, <1>7, <1>8, <2>2
<1> QED  BY <1>9, <1>10

LEMMA CopyStep == AlertInv /\ QueueInv /\ CopyInv /\ [AlertNext]_alertVars => CopyInv'
<1> SUFFICES ASSUME AlertInv, QueueInv, CopyInv, [AlertNext]_alertVars PROVE CopyInv'
  OBVIOUS
<1>1. ASSUME NEW p \in Paths, NEW k \in Publishers, Take(p, k),
             handled' = handled, pending' = pending
      PROVE  CopyInv'
  BY <1>1, TakeCopies, TakeIs, CopyFrame
<1>2. ASSUME NEW p \in Paths, TakeFlag(p) PROVE CopyInv'
  BY <1>1, <1>2 DEF TakeFlag, Publishers
<1>3. ASSUME NEW p \in Paths, NEW k \in Publishers, RoundFails(p, k) PROVE CopyInv'
  BY <1>1, <1>3 DEF RoundFails
<1>4. CASE DiscoverLan
  <2>1. paths' = Paths /\ mail' = mail /\ made' = made /\ handled' = handled /\ pending' = pending
    BY <1>4 DEF DiscoverLan, loopVars
  <2> SUFFICES ASSUME NEW n \in PictureIds
               PROVE  /\ handled'[n] + Cardinality(EventsOf(n)') + Cardinality(Copies(n)')
                             <= Cardinality(paths')
                      /\ n > made'["image"] => handled'[n] = 0 /\ EventsOf(n)' = {}
    BY DEF CopyInv
  <2>2. \A p \in Paths \ paths : ~Carries(mail[p]["image"], n)
    BY DEF QueueInv, Publishers, Carries
  <2>3. Copies(n)' = Copies(n) /\ EventsOf(n)' = EventsOf(n)
    BY <2>1, <2>2 DEF Copies, EventsOf, AlertInv
  <2>4. Cardinality(paths) <= Cardinality(Paths) /\ Cardinality(Paths) \in Nat
    BY AlertFinite, SmallerSet DEF AlertInv
  <2>5. /\ Cardinality(Copies(n)) \in Nat /\ Cardinality(EventsOf(n)) \in Nat
        /\ Cardinality(paths) \in Nat /\ handled[n] \in Nat
        /\ handled[n] + Cardinality(EventsOf(n)) + Cardinality(Copies(n)) <= Cardinality(paths)
        /\ n > made["image"] => handled[n] = 0 /\ EventsOf(n) = {}
    BY AlertFinite DEF CopyInv, AlertInv
  <2> QED  BY <2>1, <2>3, <2>4, <2>5
<1>5. CASE PollNothing \/ Sending \/ TimePasses \/ UNCHANGED alertVars
  <2>1. /\ paths' = paths /\ mail' = mail /\ made' = made
        /\ handled' = handled /\ pending' = pending
    BY <1>5 DEF PollNothing, Sending, TimePasses, alertVars, worldVars, loopVars
  <2>2. \A n : Copies(n)' = Copies(n) /\ EventsOf(n)' = EventsOf(n)
    BY <2>1 DEF Copies, EventsOf
  <2> QED  BY <2>1, <2>2 DEF CopyInv
<1> QED
  BY <1>2, <1>3, <1>4, <1>5, ImageCopies, DetectionCopies, FlushCopies, PublishCopies
  DEF AlertNext, SubscriberRound

LEMMA CopyStart == AlertInit => CopyInv
<1> SUFFICES ASSUME AlertInit, NEW n \in PictureIds
             PROVE  /\ handled[n] + Cardinality(EventsOf(n)) + Cardinality(Copies(n))
                           <= Cardinality(paths)
                    /\ n > made["image"] => handled[n] = 0 /\ EventsOf(n) = {}
  BY DEF CopyInv
<1>1. handled[n] = 0 /\ EventsOf(n) = {}
  BY DEF AlertInit, EventsOf, PictureIds
<1>2. Copies(n) = {}
  BY DEF AlertInit, Copies, Carries, Paths, Publishers
<1>3. Cardinality(paths) \in Nat
  <2>1. paths = {"local"}
    BY DEF AlertInit
  <2>2. Cardinality({"local"}) = 1
    BY FS_Singleton
  <2> QED  BY <2>1, <2>2
<1>4. Cardinality(EventsOf(n)) = 0 /\ Cardinality(Copies(n)) = 0
  BY <1>1, <1>2, FS_EmptySet
<1> QED  BY <1>1, <1>3, <1>4
-----------------------------------------------------------------------------
(* There are no more events than flags that were delivered.                *)

\* The deliveries of flags that are still to be read.
Tokens == {t \in paths \X (1..made["flag"]) : Carries(mail[t[1]]["flag"], t[2])}

Held == IF currentFlag = NoFlag THEN 0 ELSE 1

\* Each delivery of a flag is unread, held, waiting as an event or processed, and
\* it is at most one of them.
TokenInv ==
    Total(handled, MaxPictures) + Cardinality(pending) + Held + Cardinality(Tokens)
        <= Cardinality(paths) * made["flag"]

LEMMA HandledNumbers == ASSUME AlertInv PROVE \A n \in 1..MaxPictures : handled[n] \in Nat
<1>1. \A n \in PictureIds : handled[n] \in Nat
  BY DEF AlertInv
<1> QED  BY <1>1 DEF PictureIds

LEMMA TokenTypes ==
    ASSUME AlertInv
    PROVE  /\ Total(handled, MaxPictures) \in Int
           /\ Cardinality(pending) \in Nat /\ IsFiniteSet(pending)
           /\ Held \in {0, 1}
           /\ IsFiniteSet(Tokens) /\ Cardinality(Tokens) \in Nat
           /\ Cardinality(paths) \in Nat /\ made["flag"] \in Nat
<1>1. made["flag"] \in Nat
  BY DEF AlertInv, Publishers
<1>2. IsFiniteSet(paths \X (1..made["flag"]))
  <2>1. IsFiniteSet(1..made["flag"])
    BY <1>1, FS_Interval
  <2> QED  BY <2>1, AlertFinite, FS_Product
<1>3. IsFiniteSet(Tokens) /\ Cardinality(Tokens) \in Nat
  <2>1. Tokens \subseteq paths \X (1..made["flag"])
    BY DEF Tokens
  <2> QED  BY <1>2, <2>1, SmallerSet
<1>4. Total(handled, MaxPictures) \in Int
  <2>1. \A n \in 1..MaxPictures : handled[n] \in Int
    BY HandledNumbers
  <2> QED  BY <2>1, AlertBounds, TotalType
<1>5. Cardinality(pending) \in Nat /\ IsFiniteSet(pending)
  BY FS_CardinalityType DEF AlertInv
<1> QED  BY <1>1, <1>3, <1>4, <1>5, AlertFinite DEF Held

LEMMA TakeTokens ==
    ASSUME AlertInv, QueueInv, NEW p \in Paths, NEW k \in Publishers, Take(p, k)
    PROVE  /\ Cardinality(Tokens') \in Nat /\ Cardinality(Tokens') <= Cardinality(Tokens)
           /\ k = "flag" /\ Head(mail[p]["flag"]).motion # 0 =>
                 Cardinality(Tokens') + 1 <= Cardinality(Tokens)
<1>1. /\ mail[p][k] # <<>> /\ mail'[p][k] = Tail(mail[p][k])
      /\ \A q \in Paths, l \in Publishers : q # p \/ l # k => mail'[q][l] = mail[q][l]
      /\ paths' = paths /\ made' = made
  BY TakeIs
<1>2. p \in paths /\ paths \subseteq Paths
  BY QueueTake DEF AlertInv
<1>3. /\ "flag" \in Publishers
      /\ made["flag"] \in Nat /\ mail[p]["flag"] \in Seq(Mail)
      /\ Serial(mail[p]["flag"], made["flag"])
  BY DEF AlertInv, QueueInv, Publishers
<1>4. k = "flag" =>
         LET n == Head(mail[p]["flag"]).motion IN
         /\ Carries(mail[p]["flag"], n)
         /\ \A l : Carries(mail'[p]["flag"], l) => Carries(mail[p]["flag"], l)
         /\ n # 0 => ~Carries(mail'[p]["flag"], n)
  BY <1>1, <1>3, SerialTail
<1>5. ASSUME NEW n, NEW q \in paths, Carries(mail'[q]["flag"], n)
      PROVE  Carries(mail[q]["flag"], n)
  <2>1. CASE q = p /\ k = "flag"
    BY <1>4, <1>5, <2>1
  <2>2. CASE ~(q = p /\ k = "flag")
    BY <1>1, <1>2, <1>3, <1>5, <2>2
  <2> QED  BY <2>1, <2>2
<1>6. Tokens' \subseteq Tokens
  <2>1. \A t \in paths \X (1..made["flag"]) : t[1] \in paths
    OBVIOUS
  <2> QED  BY <1>1, <1>5, <2>1 DEF Tokens
<1>7. IsFiniteSet(Tokens)
  BY TokenTypes
<1>8. Cardinality(Tokens') \in Nat /\ Cardinality(Tokens') <= Cardinality(Tokens)
  BY <1>6, <1>7, SmallerSet
<1>9. ASSUME k = "flag", Head(mail[p]["flag"]).motion # 0
      PROVE  Cardinality(Tokens') + 1 <= Cardinality(Tokens)
  <2> DEFINE n == Head(mail[p]["flag"]).motion
             t == <<p, n>>
  <2>1. n \in 1..made["flag"]
    <3>1. /\ Head(mail[p]["flag"]) = mail[p]["flag"][1] /\ 1 \in DOMAIN mail[p]["flag"]
          /\ Head(mail[p]["flag"]) \in Mail
      BY <1>9, TakeIs
    <3>2. n \in Nat /\ n <= made["flag"]
      BY <1>3, <3>1 DEF Mail, Serial
    <3> QED  BY <1>3, <1>9, <3>2
  <2>2. Carries(mail[p]["flag"], n) /\ ~Carries(mail'[p]["flag"], n)
    BY <1>4, <1>9
  <2> HIDE DEF n
  <2>3. t \in paths \X (1..made["flag"]) /\ t[1] = p /\ t[2] = n
    BY <1>2, <2>1
  <2> HIDE DEF t
  <2>4. t \in Tokens /\ t \notin Tokens'
    BY <2>2, <2>3 DEF Tokens
  <2> QED  BY <1>6, <1>7, <2>4, SmallerSet
<1> QED  BY <1>8, <1>9

\* A step with which the number of events and held flags does not grow by more
\* than the number of unread flags falls.
LEMMA TokenFrame ==
    ASSUME AlertInv, TokenInv, paths' = paths, made'["flag"] = made["flag"],
           Total(handled, MaxPictures)' \in Int, Cardinality(pending') \in Nat, Held' \in Nat,
           Cardinality(Tokens') \in Nat,
           Total(handled, MaxPictures)' + Cardinality(pending') + Held' + Cardinality(Tokens')
              <= Total(handled, MaxPictures) + Cardinality(pending) + Held + Cardinality(Tokens)
    PROVE  TokenInv'
<1> DEFINE a == Total(handled, MaxPictures) + Cardinality(pending) + Held + Cardinality(Tokens)
           b == Total(handled, MaxPictures)' + Cardinality(pending') + Held' + Cardinality(Tokens')
           c == Cardinality(paths) * made["flag"]
<1>1. a \in Int /\ b \in Int /\ c \in Int
  BY TokenTypes
<1>2. b <= a /\ a <= c
  BY DEF TokenInv
<1> HIDE DEF a, b, c
<1>3. b <= c
  BY <1>1, <1>2
<1> QED  BY <1>3 DEF b, c, TokenInv
LEMMA FlagTokens ==
    ASSUME AlertInv, QueueInv, TokenInv, NEW p \in Paths, TakeFlag(p)
    PROVE  TokenInv'
<1> DEFINE n == Head(mail[p]["flag"]).motion
<1>1. /\ Take(p, "flag") /\ UNCHANGED <<pending, handled, limiterVars>>
      /\ currentFlag' = IF n = NoFlag THEN currentFlag ELSE n
  BY DEF TakeFlag
<1>2. /\ paths' = paths /\ made' = made
      /\ Cardinality(Tokens') \in Nat /\ Cardinality(Tokens') <= Cardinality(Tokens)
      /\ n # 0 => Cardinality(Tokens') + 1 <= Cardinality(Tokens)
  BY <1>1, TakeTokens, TakeIs DEF Publishers
<1> HIDE DEF n
<1>3. /\ Held' \in {0, 1} /\ Held \in {0, 1}
      /\ n = 0 => Held' = Held
  BY <1>1 DEF Held, NoFlag
<1>4. Held' + Cardinality(Tokens') <= Held + Cardinality(Tokens)
  BY <1>2, <1>3, TokenTypes
<1>5. Total(handled, MaxPictures)' = Total(handled, MaxPictures) /\ pending' = pending
  BY <1>1
<1> QED  BY <1>2, <1>3, <1>4, <1>5, TokenTypes, TokenFrame

LEMMA ImageTokens ==
    ASSUME AlertInv, QueueInv, TokenInv, NEW p \in Paths, TakeImage(p)
    PROVE  TokenInv'
<1> DEFINE n == Head(mail[p]["image"]).motion
<1>1. /\ Take(p, "image") /\ UNCHANGED <<handled, limiterVars>>
      /\ \/ UNCHANGED <<currentFlag, pending>>
         \/ /\ currentFlag # NoFlag /\ currentFlag' = NoFlag
            /\ pending' = {e \in pending : e.id # n} \cup {NewEntry(n)}
  BY TakeImageIs
<1>2. /\ paths' = paths /\ made' = made
      /\ Cardinality(Tokens') \in Nat /\ Cardinality(Tokens') <= Cardinality(Tokens)
  BY <1>1, TakeTokens, TakeIs DEF Publishers
<1> HIDE DEF n
<1>3. /\ Held' \in Nat /\ Cardinality(pending') \in Nat
      /\ Held' + Cardinality(pending') <= Held + Cardinality(pending)
  <2>1. CASE UNCHANGED <<currentFlag, pending>>
    BY <2>1, TokenTypes DEF Held
  <2>2. CASE /\ currentFlag # NoFlag /\ currentFlag' = NoFlag
             /\ pending' = {e \in pending : e.id # n} \cup {NewEntry(n)}
    <3> DEFINE S == {e \in pending : e.id # n}
    <3>1. S \subseteq pending
      OBVIOUS
    <3> HIDE DEF S
    <3>2. IsFiniteSet(S) /\ Cardinality(S) \in Nat /\ Cardinality(S) <= Cardinality(pending)
      BY <3>1, TokenTypes, SmallerSet
    <3>3. Cardinality(S \cup {NewEntry(n)}) \in {Cardinality(S), Cardinality(S) + 1}
      BY <3>2, FS_AddElement
    <3>4. pending' = S \cup {NewEntry(n)}
      BY <2>2 DEF S
    <3>5. Held = 1 /\ Held' = 0
      BY <2>2 DEF Held
    <3> QED  BY <3>2, <3>3, <3>4, <3>5, TokenTypes
  <2> QED  BY <1>1, <2>1, <2>2
<1>4. Total(handled, MaxPictures)' = Total(handled, MaxPictures)
  BY <1>1
<1> QED  BY <1>2, <1>3, <1>4, TokenTypes, TokenFrame

\* One event more that was processed.
LEMMA OneMore ==
    ASSUME AlertInv, NEW h \in PictureIds, handled' = [handled EXCEPT ![h] = handled[h] + 1]
    PROVE  Total(handled, MaxPictures)' = Total(handled, MaxPictures) + 1
<1> DEFINE one == [n \in 1..MaxPictures |-> IF n = h THEN 1 ELSE 0]
           E == {[id |-> h]}
<1>1. MaxPictures \in Nat /\ h \in 1..MaxPictures
  BY AlertBounds DEF PictureIds
<1>2. IsFiniteSet(E) /\ Cardinality(E) = 1
  BY FS_Singleton
<1>3. ASSUME NEW n \in 1..MaxPictures
      PROVE  one[n] = Cardinality({e \in E : e.id = n})
  <2>1. CASE n = h
    <3>1. {e \in E : e.id = n} = E
      BY <2>1
    <3> QED  BY <1>2, <2>1, <3>1
  <2>2. CASE n # h
    <3>1. {e \in E : e.id = n} = {}
      BY <2>2
    <3> QED  BY <2>2, <3>1, FS_EmptySet
  <2> QED  BY <2>1, <2>2
<1>4. \A e \in E : e.id \in 1..MaxPictures
  BY <1>1
<1>5. \A n \in 1..MaxPictures : handled[n] \in Int /\ one[n] \in Int /\ handled'[n] = handled[n] + one[n]
  <2>1. \A n \in PictureIds : handled[n] \in Nat
    BY DEF AlertInv
  <2>2. \A n \in PictureIds : handled'[n] = IF n = h THEN handled[n] + 1 ELSE handled[n]
    BY DEF AlertInv
  <2> QED  BY <2>1, <2>2 DEF PictureIds
<1> HIDE DEF one, E
<1>6. Total(one, MaxPictures) = 1
  BY <1>1, <1>2, <1>3, <1>4, TotalCount
<1>7. Total(handled', MaxPictures) = Total(handled, MaxPictures) + Total(one, MaxPictures)
  BY <1>1, <1>5, TotalAdd
<1> QED  BY <1>6, <1>7

LEMMA DetectionTokens ==
    ASSUME AlertInv, QueueInv, TokenInv, NEW p \in Paths, TakeDetection(p)
    PROVE  TokenInv'
<1> DEFINE h == Head(mail[p]["detection"]).motion
<1>1. /\ Take(p, "detection") /\ currentFlag' = currentFlag
      /\ \/ UNCHANGED <<pending, handled, limiterVars>>
         \/ /\ h \in PictureIds
            /\ \E e \in pending : e.id = h
            /\ pending' = {e \in pending : e.id # h}
            /\ handled' = [handled EXCEPT ![h] = handled[h] + 1]
  BY TakeDetectionIs
<1>2. /\ paths' = paths /\ made' = made
      /\ Cardinality(Tokens') \in Nat /\ Cardinality(Tokens') <= Cardinality(Tokens)
      /\ Held' = Held
  BY <1>1, TakeTokens, TakeIs DEF Publishers, Held
<1> HIDE DEF h
<1>3. CASE UNCHANGED <<pending, handled, limiterVars>>
  <2>1. Total(handled, MaxPictures)' = Total(handled, MaxPictures) /\ pending' = pending
    BY <1>3
  <2> QED  BY <1>2, <2>1, TokenTypes, TokenFrame
<1>4. CASE /\ h \in PictureIds
           /\ \E e \in pending : e.id = h
           /\ pending' = {e \in pending : e.id # h}
           /\ handled' = [handled EXCEPT ![h] = handled[h] + 1]
  <2>1. Total(handled, MaxPictures)' = Total(handled, MaxPictures) + 1
    BY <1>4, OneMore
  <2>2. PICK e \in pending : e.id = h
    BY <1>4
  <2>3. pending' \subseteq pending /\ e \notin pending'
    BY <1>4, <2>2
  <2>4. Cardinality(pending') \in Nat /\ Cardinality(pending') + 1 <= Cardinality(pending)
    BY <2>3, TokenTypes, SmallerSet
  <2> QED  BY <1>2, <2>1, <2>4, TokenTypes, TokenFrame
<1> QED  BY <1>1, <1>3, <1>4

LEMMA FlushTokens == ASSUME AlertInv, TokenInv, FlushStale PROVE TokenInv'
<1>1. /\ pending' = pending \ Stale /\ currentFlag' = currentFlag
      /\ handled' = [n \in DOMAIN handled |->
                       handled[n] + Cardinality({e \in Stale : e.id = n})]
      /\ mail' = mail /\ paths' = paths /\ made' = made
  BY DEF FlushStale, worldVars
<1>2. Stale \subseteq pending /\ pending \subseteq PendingEntry
  BY DEF Stale, AlertInv
<1>3. IsFiniteSet(Stale) /\ Cardinality(Stale) \in Nat /\ IsFiniteSet(pending)
  BY <1>2, TokenTypes, SmallerSet
<1> DEFINE f == [n \in 1..MaxPictures |-> Cardinality({e \in Stale : e.id = n})]
<1>4. Total(f, MaxPictures) = Cardinality(Stale)
  <2>1. \A n \in 1..MaxPictures : f[n] = Cardinality({e \in Stale : e.id = n})
    OBVIOUS
  <2>2. \A e \in Stale : e.id \in 1..MaxPictures
    BY <1>2 DEF PendingEntry, PictureIds
  <2> HIDE DEF f
  <2> QED  BY <1>3, <2>1, <2>2, AlertBounds, TotalCount
<1>5. \A n \in 1..MaxPictures :
         handled[n] \in Int /\ f[n] \in Int /\ handled'[n] = handled[n] + f[n]
  <2> SUFFICES ASSUME NEW n \in 1..MaxPictures
               PROVE  handled[n] \in Int /\ f[n] \in Int /\ handled'[n] = handled[n] + f[n]
    OBVIOUS
  <2>1. handled[n] \in Nat
    BY HandledNumbers
  <2>2. f[n] = Cardinality({e \in Stale : e.id = n}) /\ f[n] \in Nat
    BY StaleSplit
  <2>3. n \in DOMAIN handled
    BY DEF AlertInv, PictureIds
  <2>4. handled'[n] = handled[n] + Cardinality({e \in Stale : e.id = n})
    BY <1>1, <2>3
  <2> HIDE DEF f
  <2> QED  BY <2>1, <2>2, <2>4
<1> HIDE DEF f
<1>6. Total(handled', MaxPictures) = Total(handled, MaxPictures) + Total(f, MaxPictures)
  BY <1>5, AlertBounds, TotalAdd
<1>7. Cardinality(pending') = Cardinality(pending) - Cardinality(Stale) /\ Cardinality(pending') \in Nat
  <2>1. pending \cap Stale = Stale
    BY <1>2
  <2>2. IsFiniteSet(pending') /\ Cardinality(pending') = Cardinality(pending) - Cardinality(pending \cap Stale)
    BY <1>1, <1>3, FS_Difference
  <2> QED  BY <2>1, <2>2, FS_CardinalityType
<1>8. Held' = Held /\ Tokens' = Tokens
  BY <1>1 DEF Held, Tokens
<1>9. Total(handled, MaxPictures)' = Total(handled, MaxPictures) + Cardinality(Stale)
  BY <1>4, <1>6
<1> QED  BY <1>1, <1>3, <1>7, <1>8, <1>9, TokenTypes, TokenFrame
LEMMA MoreFlags ==
    ASSUME NEW c \in Nat, NEW d \in Nat, NEW n \in Nat, c <= d
    PROVE  c * (n + 1) = c * n + c /\ c * n <= d * n /\ c * n \in Nat
<1>1. c * (n + 1) = c * n + c /\ c * n \in Nat
  BY SMT
<1>2. c * n <= d * n
  BY SMT
<1> QED  BY <1>1, <1>2

LEMMA PublishTokens ==
    ASSUME AlertInv, QueueInv, TokenInv, NEW k \in Publishers, PublishMail(k)
    PROVE  TokenInv'
<1>1. /\ made' = [made EXCEPT ![k] = made[k] + 1] /\ paths' = paths
      /\ handled' = handled /\ pending' = pending /\ currentFlag' = currentFlag
  BY PublishIs DEF loopVars
<1>2. PICK m \in Mail : (k = "detection" \/ m.motion \in {0, made[k] + 1}) /\ Deliver(k, m)
  BY PublishIs
<1>3. \A p \in Paths, l \in Publishers :
         mail'[p][l] = IF p \in paths /\ l = k THEN Append(mail[p][l], m) ELSE mail[p][l]
  BY <1>2, DeliverIs
<1>4. /\ "flag" \in Publishers /\ paths \subseteq Paths
      /\ made \in [Publishers -> Nat] /\ made["flag"] \in Nat
      /\ \A p \in Paths : mail[p]["flag"] \in Seq(Mail)
  BY DEF AlertInv, Publishers
<1>5. /\ Total(handled, MaxPictures)' = Total(handled, MaxPictures)
      /\ Cardinality(pending') = Cardinality(pending) /\ Held' = Held
  BY <1>1 DEF Held
<1>6. CASE k # "flag"
  <2>1. \A p \in paths : mail'[p]["flag"] = mail[p]["flag"]
    BY <1>3, <1>4, <1>6
  <2>2. made'["flag"] = made["flag"]
    BY <1>1, <1>4, <1>6
  <2>3. Tokens' = Tokens
    <3>1. \A t \in paths \X (1..made["flag"]) : t[1] \in paths
      OBVIOUS
    <3> QED  BY <1>1, <2>1, <2>2, <3>1 DEF Tokens
  <2> QED  BY <1>1, <1>5, <2>2, <2>3, TokenTypes, TokenFrame
<1>7. CASE k = "flag"
  <2> DEFINE c == made["flag"] + 1
             New == paths \X {c}
  <2>1. made'["flag"] = c /\ m.motion \in {0, c} /\ c \in Nat
    BY <1>1, <1>2, <1>4, <1>7
  <2>2. \A p \in paths : mail'[p]["flag"] = Append(mail[p]["flag"], m)
    BY <1>3, <1>4, <1>7
  <2>3. ASSUME NEW t \in Tokens' PROVE t \in Tokens \cup New
    <3>1. t \in paths \X (1..c) /\ Carries(mail'[t[1]]["flag"], t[2])
      BY <1>1, <2>1, <2>3 DEF Tokens
    <3>2. PICK q \in paths, n \in 1..c : t = <<q, n>>
      BY <3>1
    <3>3. CASE n = c
      BY <3>2, <3>3
    <3>4. CASE n # c
      <4>1. n \in 1..made["flag"] /\ m.motion # n
        BY <1>4, <2>1, <3>4
      <4>2. Carries(Append(mail[q]["flag"], m), n)
        BY <2>2, <3>1, <3>2
      <4>3. Carries(mail[q]["flag"], n)
        BY <1>4, <4>1, <4>2, AppendCarries
      <4>4. t \in paths \X (1..made["flag"]) /\ t[1] = q /\ t[2] = n
        BY <3>2, <4>1
      <4> QED  BY <4>3, <4>4 DEF Tokens
    <3> QED  BY <3>3, <3>4
  <2>4. /\ IsFiniteSet(New) /\ Cardinality(New) = Cardinality(paths)
    <3>1. IsFiniteSet({c}) /\ Cardinality({c}) = 1
      BY FS_Singleton
    <3>2. IsFiniteSet(New) /\ Cardinality(New) = Cardinality(paths) * 1
      <4> HIDE DEF c
      <4> QED  BY <3>1, AlertFinite, FS_Product
    <3> HIDE DEF New
    <3> QED  BY <3>2, TokenTypes
  <2> HIDE DEF New
  <2>5. IsFiniteSet(Tokens \cup New) /\ Cardinality(Tokens \cup New) <= Cardinality(Tokens) + Cardinality(New)
    <3>1. /\ IsFiniteSet(Tokens \cup New)
          /\ Cardinality(Tokens \cup New)
                = Cardinality(Tokens) + Cardinality(New) - Cardinality(Tokens \cap New)
      BY <2>4, TokenTypes, FS_Union
    <3>2. Cardinality(Tokens \cap New) \in Nat
      <4>1. Tokens \cap New \subseteq Tokens
        OBVIOUS
      <4> QED  BY <4>1, TokenTypes, SmallerSet
    <3> QED  BY <2>4, <3>1, <3>2, TokenTypes
  <2>6. Cardinality(Tokens') \in Nat /\ Cardinality(Tokens') <= Cardinality(Tokens) + Cardinality(paths)
    <3>1. Tokens' \subseteq Tokens \cup New
      BY <2>3
    <3>2. /\ Cardinality(Tokens') \in Nat /\ Cardinality(Tokens \cup New) \in Nat
          /\ Cardinality(Tokens') <= Cardinality(Tokens \cup New)
      BY <2>5, <3>1, SmallerSet
    <3> QED  BY <2>4, <2>5, <3>2, TokenTypes
  <2> DEFINE r == Cardinality(paths) * made["flag"]
  <2>7. Cardinality(paths') * made'["flag"] = r + Cardinality(paths) /\ r \in Nat
    BY <1>1, <2>1, MoreFlags, TokenTypes
  <2>8. Total(handled, MaxPictures) + Cardinality(pending) + Held + Cardinality(Tokens) <= r
    BY DEF TokenInv
  <2> HIDE DEF r
  <2>9. Total(handled, MaxPictures) + Cardinality(pending) + Held + Cardinality(Tokens')
           <= r + Cardinality(paths)
    BY <2>6, <2>7, <2>8, TokenTypes
  <2> QED  BY <1>5, <2>7, <2>9 DEF TokenInv
<1> QED  BY <1>6, <1>7

LEMMA TokenStep == AlertInv /\ QueueInv /\ TokenInv /\ [AlertNext]_alertVars => TokenInv'
<1> SUFFICES ASSUME AlertInv, QueueInv, TokenInv, [AlertNext]_alertVars PROVE TokenInv'
  OBVIOUS
<1>1. ASSUME NEW p \in Paths, NEW k \in Publishers, RoundFails(p, k) PROVE TokenInv'
  <2>1. /\ Take(p, k) /\ handled' = handled /\ pending' = pending
        /\ currentFlag' = currentFlag
    BY <1>1 DEF RoundFails
  <2>2. /\ paths' = paths /\ made' = made
        /\ Cardinality(Tokens') \in Nat /\ Cardinality(Tokens') <= Cardinality(Tokens)
    BY <2>1, TakeTokens, TakeIs
  <2>3. /\ Total(handled, MaxPictures)' = Total(handled, MaxPictures)
        /\ Cardinality(pending') = Cardinality(pending) /\ Held' = Held
    BY <2>1 DEF Held
  <2> QED  BY <2>2, <2>3, TokenTypes, TokenFrame
<1>2. CASE DiscoverLan
  <2>1. /\ paths' = Paths /\ mail' = mail /\ made' = made /\ handled' = handled
        /\ pending' = pending /\ currentFlag' = currentFlag
    BY <1>2 DEF DiscoverLan, loopVars
  <2>2. \A n : \A p \in Paths \ paths : ~Carries(mail[p]["flag"], n)
    BY DEF QueueInv, Publishers, Carries
  <2>3. Tokens' = Tokens
    <3>1. paths \subseteq Paths
      BY DEF AlertInv
    <3>2. ASSUME NEW t \in Tokens' PROVE t \in Tokens
      <4>1. t \in Paths \X (1..made["flag"]) /\ Carries(mail[t[1]]["flag"], t[2])
        BY <2>1, <3>2 DEF Tokens
      <4>2. t[1] \in paths /\ t \in paths \X (1..made["flag"])
        BY <2>2, <4>1
      <4> QED  BY <4>1, <4>2 DEF Tokens
    <3>3. ASSUME NEW t \in Tokens PROVE t \in Tokens'
      <4>1. t \in paths \X (1..made["flag"]) /\ Carries(mail[t[1]]["flag"], t[2])
        BY <3>3 DEF Tokens
      <4>2. t \in Paths \X (1..made["flag"])
        BY <3>1, <4>1
      <4> QED  BY <2>1, <4>1, <4>2 DEF Tokens
    <3> QED  BY <3>2, <3>3
  <2>4. Cardinality(paths) <= Cardinality(Paths) /\ Cardinality(Paths) \in Nat
    BY AlertFinite, SmallerSet DEF AlertInv
  <2>5. /\ Total(handled, MaxPictures)' = Total(handled, MaxPictures)
        /\ Cardinality(pending') = Cardinality(pending) /\ Held' = Held
    BY <2>1 DEF Held
  <2> DEFINE r == Cardinality(paths) * made["flag"]
             s == Cardinality(Paths) * made["flag"]
  <2>6. r <= s /\ r \in Nat /\ s \in Nat
    BY <2>4, MoreFlags, TokenTypes
  <2>7. Total(handled, MaxPictures) + Cardinality(pending) + Held + Cardinality(Tokens) <= r
    BY DEF TokenInv
  <2>8. Cardinality(paths') * made'["flag"] = s
    BY <2>1
  <2> HIDE DEF r, s
  <2>9. Total(handled, MaxPictures) + Cardinality(pending) + Held + Cardinality(Tokens) <= s
    BY <2>6, <2>7, TokenTypes
  <2> QED  BY <2>3, <2>5, <2>8, <2>9 DEF TokenInv
<1>3. CASE PollNothing \/ Sending \/ TimePasses \/ UNCHANGED alertVars
  <2>1. /\ paths' = paths /\ mail' = mail /\ made' = made /\ handled' = handled
        /\ pending' = pending /\ currentFlag' = currentFlag
    BY <1>3 DEF PollNothing, Sending, TimePasses, alertVars, worldVars, loopVars
  <2>2. Tokens' = Tokens /\ Held' = Held
    BY <2>1 DEF Tokens, Held
  <2> QED  BY <2>1, <2>2 DEF TokenInv
<1> QED
  BY <1>1, <1>2, <1>3, FlagTokens, ImageTokens, DetectionTokens, FlushTokens, PublishTokens
  DEF AlertNext, SubscriberRound

LEMMA TokenStart == AlertInit => TokenInv
<1> SUFFICES ASSUME AlertInit PROVE TokenInv
  OBVIOUS
<1>1. made["flag"] = 0 /\ pending = {} /\ Held = 0 /\ paths = {"local"}
  BY DEF AlertInit, Publishers, Held
<1>2. Tokens = {}
  BY <1>1 DEF Tokens
<1>3. Total(handled, MaxPictures) = 0
  <2> DEFINE none == [n \in 1..MaxPictures |-> 0]
  <2>1. \A n \in 1..MaxPictures : none[n] = Cardinality({e \in {} : e.id = n})
    <3>1. \A n : {e \in {} : e.id = n} = {}
      OBVIOUS
    <3> QED  BY <3>1, FS_EmptySet
  <2>2. Total(none, MaxPictures) = 0
    <3>1. \A e \in {} : e.id \in 1..MaxPictures
      OBVIOUS
    <3>2. IsFiniteSet({}) /\ Cardinality({}) = 0
      BY FS_EmptySet
    <3> HIDE DEF none
    <3> QED  BY <2>1, <3>1, <3>2, AlertBounds, TotalCount
  <2>3. handled = none
    BY DEF AlertInit
  <2> QED  BY <2>2, <2>3
<1>4. Cardinality(paths) = 1
  BY <1>1, FS_Singleton
<1>5. Cardinality(pending) = 0 /\ Cardinality(Tokens) = 0
  BY <1>1, <1>2, FS_EmptySet
<1> QED  BY <1>1, <1>3, <1>4, <1>5 DEF TokenInv

LEMMA CopiesAndTokens == AlertInv /\ CopyInv /\ TokenInv => EventPerCopy
<1> SUFFICES ASSUME AlertInv, CopyInv, TokenInv PROVE EventPerCopy
  OBVIOUS
<1> DEFINE C == CHOOSE S : S = [n \in 0..MaxPictures |-> IF n = 0 THEN 0 ELSE handled[n] + S[n - 1]]
<1>1. C[MaxPictures] = Total(handled, MaxPictures)
  BY DEF Total, IsSum
<1> HIDE DEF C
<1>2. ASSUME NEW n \in 1..MaxPictures
      PROVE  handled[n] + Cardinality(EventsOf(n)) <= Cardinality(paths)
  <2>1. /\ Cardinality(Copies(n)) \in Nat /\ Cardinality(EventsOf(n)) \in Nat
        /\ Cardinality(paths) \in Nat /\ handled[n] \in Nat
    BY AlertFinite, HandledNumbers
  <2>2. handled[n] + Cardinality(EventsOf(n)) + Cardinality(Copies(n)) <= Cardinality(paths)
    BY DEF CopyInv, PictureIds
  <2> QED  BY <2>1, <2>2
<1>3. C[MaxPictures] + Cardinality(pending) <= Cardinality(paths) * made["flag"]
  <2> DEFINE r == Cardinality(paths) * made["flag"]
  <2>1. Total(handled, MaxPictures) + Cardinality(pending) + Held + Cardinality(Tokens) <= r
    BY DEF TokenInv
  <2>2. r \in Int
    BY TokenTypes
  <2> HIDE DEF r
  <2>3. Total(handled, MaxPictures) + Cardinality(pending) <= r
    BY <2>1, <2>2, TokenTypes
  <2> QED  BY <1>1, <2>3 DEF r
<1> QED  BY <1>2, <1>3 DEF EventPerCopy, EventsOf, C

\* An image makes at most one event per connection to its publisher, and there are
\* no more events than deliveries of flags: for any numbers of flags, images and
\* results, and failures of any round.
THEOREM DraftEventPerCopy == AlertSpec => []EventPerCopy
<1>1. AlertSpec => [](AlertInv /\ QueueInv /\ CopyInv /\ TokenInv)
  BY AlertStart, AlertStep, QueueStart, QueueStep, CopyStart, CopyStep, TokenStart, TokenStep, PTL
  DEF AlertSpec
<1> QED  BY <1>1, CopiesAndTokens, PTL
-----------------------------------------------------------------------------
(* Types of the three services together.                                   *)

LEMMA AlertTypes == AlertInv => AlertTypeOK
<1> SUFFICES ASSUME AlertInv PROVE AlertTypeOK
  OBVIOUS
<1>1. \A p \in Paths, k \in Publishers : \A i \in DOMAIN mail[p][k] : mail[p][k][i] \in Mail
  <2> SUFFICES ASSUME NEW p \in Paths, NEW k \in Publishers, NEW i \in DOMAIN mail[p][k]
               PROVE  mail[p][k][i] \in Mail
    OBVIOUS
  <2>1. mail[p][k] \in Seq(Mail)
    BY DEF AlertInv
  <2> QED  BY <2>1, ElementOfSeq, LenProperties
<1>2. pending \subseteq Entry
  BY DEF AlertInv, PendingEntry, Entry, PictureIds
<1>3. handled \in [1..MaxPictures -> Nat]
  BY DEF AlertInv, PictureIds
<1> QED  BY <1>1, <1>2, <1>3 DEF AlertInv, AlertTypeOK

\* Each step of the instance is a step of one service, and stutters in the others.
LEMMA ServiceSteps ==
    [MCNext]_<<part, detectionVars, telemetryVars, alertVars>>
        => /\ [DetectionNext]_detectionVars
           /\ [TelemetryNext]_telemetryVars
           /\ [AlertNext]_alertVars
BY DEF MCNext

\* The detection node, the monitors with the dashboard and the alert service keep
\* their types, for any constants and from any of the starts of the instance.
THEOREM ServicesTypeCorrect == MCSpec => []ServicesTypeOK
<1>1. MCInit => DetectionInv /\ TelemetryInv /\ AlertInv
  BY DetectionStart, SamplerStart, CollectorStart, AlertStart DEF MCInit, TelemetryInv
<1>2. DetectionInv /\ TelemetryInv /\ AlertInv
         /\ [MCNext]_<<part, detectionVars, telemetryVars, alertVars>>
      => (DetectionInv /\ TelemetryInv /\ AlertInv)'
  BY ServiceSteps, DetectionStep, SamplerStep, CollectorStep, AlertStep DEF TelemetryInv
<1>3. DetectionInv /\ TelemetryInv /\ AlertInv => ServicesTypeOK
  BY TelemetryTypes, AlertTypes DEF ServicesTypeOK, DetectionInv
<1> QED  BY <1>1, <1>2, <1>3, PTL DEF MCSpec
=============================================================================
