# Verification of ds_2026

TLA+ modules, TLC runs and TLAPS proofs about the distributed video surveillance
system in this repository: a camera stream is searched for motion, images of
motion are searched for objects, alerts are sent, and a script keeps the services
spread over a Docker Swarm.  `.draft/` holds an earlier version over ZeroMQ, which
is modelled as well.

Paths and line numbers below are those of the repository. `PROJECT.json` lists
the runs, the source lines each definition models, the hazards and the findings.

## 1. Inventory

### Components

| Component | Code | State | Operations |
|---|---|---|---|
| motion detector | `motion/motion.py` | previous frame, `last_motion_state`, `image_id`, time of the last image, the ffmpeg process | probe, read a frame, detect motion, publish a flag, publish an image; retry of the probe, wait after a short read |
| detection nodes (coco, fire) | `detection/detection.py` | the queue of the subscription | on each image: decode, infer, publish the result with the image's `sender` and `image_id` |
| alert node | `alert/alert.py`, `AlertNode` | `current_events` (flag per sender), `pending_events` (image event per sender and image id, with a deadline) | four subscriptions, a 0.5 s timer, all on one single-threaded executor |
| alert manager | `alert/alert.py`, `AlertManager` | `recent_alerts` (time per node and class set) | `process_event`, the cooldown, `_dispatch` to Telegram and webhook |
| rebalancer | `rebalancer/rebalancer.sh` | cooldown stamps in `/tmp`, the counts of a poll | poll, count services per node, force-update one service |
| placement | `docker-compose.yml` | where Swarm runs each service | constraints, restarts; the namespace of `shared/ros_common.py` follows the host |
| configuration | `shared/config.py`, `config.yaml` | module constants | flatten, override from the environment, coerce |
| system monitor | `system_monitor/system_monitor.py` | none | sample, sleep, publish |
| ROS helpers | `shared/ros_common.py` | none | device name, namespace, logging |
| discovery and connections (earlier version) | `.draft/utils.py` and a copy of its loop in each program: `node.py`, `node_pubsub.py`, `img/*.py`, `yolo/detection_zeromq.py`, `requests/api_subscriber.py`, `alert/api_subscriber.py`, `server.py`, `detection_weapon.py`, `motion_ffmpeg.py`, `system_monitor.py`, `record.py` | `peers_info`, what each program remembers of its connections, its sockets | broadcast, receive, iterate and connect, status requests, stop |
| events and recordings (earlier version) | `.draft/motion/motion_ffmpeg.py`, `.draft/requests/api_subscriber.py`, `.draft/alert/app.py`, `.draft/test_server.py`, `.draft/record.py` | `current_event`, the list of events and its file, `is_recording` | flags, images, POST, load and save, clips |
| alerting (earlier version) | `.draft/alert/api_subscriber.py`, `.draft/alert/alerting.py` | `current_events`, `pending_events`, `recent_alerts` | the loop of one thread, its requests |
| monitors and dashboard (earlier version) | `.draft/system_monitor.py`, `.draft/monitor/monitor.py`, `.draft/server.py` | last reading, one deque per node | sample, collect, show |
| evaluation | `.result/`, `report/`, `graphify-out/` | - | offline scripts and documents |

### Interaction

`motion` publishes flags (`motion/flag`) and JPEG images (`motion/image`); both
detectors and the alert node subscribe to the images; the detectors publish
results (`detection/coco`, `detection/fire`); the alert node correlates the three
by sender and image id and calls its `AlertManager`, which posts to Telegram and
a webhook.  All of it is asynchronous over DDS with RELIABLE, KEEP_LAST queues:
in order per topic, in any order across topics, the oldest message dropped when
a queue is full, nothing kept for a subscriber that restarts.  Swarm restarts
every container that dies, and the rebalancer makes it move them.

The programs of `.draft/` find each other by UDP broadcasts and connect ZeroMQ
sockets; in each of them a discovery thread fills a dictionary that another
thread iterates over.

### What is hard, and what correctness means

* Correlation (alert node): messages of four topics in any order, two answers to
  one image, a timer that races the answers, image ids that are used again after
  a restart of `motion`, an executor blocked by a slow request.  An event must be
  made once per flag, be processed at most once, leave in the end, and be
  answered by the result of its own image.
* Rate limiting (alert manager): the boundary of the cooldown, keys that fall
  together, events suppressed although nothing was delivered, a restart that
  forgets.  Alerts of a key must stay apart and nothing be suppressed without a
  cause.
* Dispatch (alert manager): one channel fails, hangs or raises; the others must
  still be served, each once, and the executor must come back.
* Motion: an exception between two publications leaves the state machine behind
  what subscribers were told; images fail to encode while the cooldown starts;
  the 8-bit difference; a stream that ends.  Images must belong to motion, be
  spaced and not missing.
* Rebalancing: counts read one by one while Swarm moves tasks, commands that
  fail silently, idle nodes that may not run anything, stamps lost at a restart.
  Moves must be spaced and justified, and lead to balance.
* Hosts: a service puts its topics into the namespace of the host it was started
  on, and an image carries a time of day of its host's clock.  Results must stay
  in their namespace, and the logged age be right up to what the clocks explain.
* Discovery (earlier version): a dictionary shared by two threads without a lock,
  peers remembered by id and never followed, request sockets that are stuck after
  a timeout, sockets that are not closed when a program stops.
* Events (earlier version): two posts at once, a file that is truncated before it is
  written, one remembered flag for all nodes, messages that come over 127.0.0.1
  and over the device's address.  What was acknowledged must survive, and an image
  not be combined with a wrong flag of its own node.
* Monitors: counters read twice around a sleep, rates divided by a wall clock that
  may be set, chart and latest value read one after the other.

## 2. Modules

| Module | Models | How |
|---|---|---|
| `AlertManager` | class `AlertManager` | `recentAlerts` is `self.recent_alerts`; `posting` says in which blocking request the thread is; `verdicts` and `posts` log the decisions and the requests. `ProcessEvent` is `process_event` up to the first request, `TelegramReturns` and `WebhookReturns` are the requests of `_dispatch`, `ManagerRestart` the restart of the container |
| `AlertThrottle` | what the limiter promises | alerts of a key of one process are `Gap` apart; knows nothing of summaries, channels and logs |
| `AlertNode` | class `AlertNode` | EXTENDS `AlertManager`. One action per callback: `OnMotionFlag`, `IgnoreImage` and `QueueImage` (`on_motion_image`), `Correlate` and `IgnoreDetection` (`on_detection`), `FlushPending`. All of them need `Idle`: a blocked request blocks the executor. Queues `flags`, `images`, `detections`; `Restart` empties them |
| `EventLifecycle` | what correlation promises | an event is admitted once, waits, and leaves once: answered, expired or lost; only an answer leads to a decision |
| `MotionDetector` | `motion/motion.py` | a frame is one action (`StartMotion`, `ContinueMotion`, `EndMotion`, `Quiet`, or `FailFrame` for the `except`); `ffmpeg` and `streaming` model the probe and the end of the stream; `out` logs what was published |
| `Rebalancer` | `rebalancer/rebalancer.sh` | one action per docker command; `pc` and the loops' positions say where the script is; Swarm (`NodeFails`, `NodeReturns`, `Reschedule`, `BestNodes`) is external |
| `Shared` | `shared/ros_common.py`, `shared/config.py`, the queue age of `detection.py` | operators: `Sanitize`, `RosNamespace`, `ResolveDeviceHostname`, `Coerce`, `Load`, `QueueAge` |
| `DetectionNode` | `detection/detection.py` between `motion` and `alert`, each on a host | `imageQueue` is its subscription; `PublishToDetector`, `OnImage`, and `MoveService`, a restart on this or another host, which reads the configuration again |
| `Telemetry` | `system_monitor/system_monitor.py`, and the two monitors, the collector and the page of `.draft/` | `monitor` says which one runs; `Sleep`, `Sample`, `SampleRaises`; `Collect` is the collector's thread, `ListNodes`, `GetDataframe`, `GetLatest`, `Rerun` the page between its two reads under the lock |
| `PeerNode` | a process of `.draft/`, whichever of thirteen programs | `peersInfo` is the shared dictionary; `Broadcast`, `Receive`, `ReceiveTimeout` are the discovery thread; `BeginScan`, `Visit`, `EndScan` an iteration of the other one, `Grown` and `BadMessage` what raises in it, `Forget`, `Ignore`, `Die`, `GiveUp` what the programs do then; `SendStatus`, `Answer`, `AnswerTimeout` the REQ sockets of `node.py`; `SendToApi` the post of `requests/api_subscriber.py`, which has no timeout, and `PostReturns` the server's answer, if it comes; `FoundPeer`, `UseLocalhost` the search of the weapon detector; `Wanted` the peers `server.py` connects to; `Stop`, `Exit` |
| `DraftEvents` | motion flag and image, subscriber, REST server and file | `queue` holds, per subscriber and node, what is not read yet: a SUB socket keeps the order of one publisher only, so a flag of one node may be combined with an image of another. `Frame`, `ReadFlag`, `ReadImage`; a handler thread goes through `AppendEvent`, `OpenFile` (which truncates), `WriteFile`, `Reply`; `Crash`, `Start` |
| `Recorder` | `.draft/record.py` | `HandleFlag` in the main thread, `RecordClip` and `MakedirsFails` in the clip's |
| `DraftAlert` | `.draft/alert/` | `FlushStale` and the `Take...` actions are a round of the only thread, `Sending` a request that blocks it; two `paths` to the same publishers |
| `AlertManagerProofs`, `AlertNodeProofs`, `MotionDetectorProofs`, `RebalancerProofs`, `PeerNodeProofs` | theorems about the module named | see section 5 |
| `ServicesProofs` | theorems about `DetectionNode`, `Telemetry`, `DraftAlert` and their instance `MCServices` | see section 5 |
| `DraftProofs` | theorems about `DraftEvents`, `Recorder` and the instance `MCDrafts` | see section 5 |
| `Sums` | lemmas about sums by recursive functions | used by `ServicesProofs` |
| `MC...` | instances | values of the constants for TLC |

Composition: `AlertNode` EXTENDS `AlertManager` and calls its operators as the
code calls its methods.  `AlertNode`'s environment (`PublishFlag`,
`PublishImage`, `CameraRestart`, `PublishDetection`) is open: it may do all that
`motion.py` and `detection.py` may, and more.  `DetectionNode` uses `Shared`.
`MCServices`, `MCPipeline`, `MCControl` and `MCDrafts` put parts that share nothing
side by side: the variable `part` says which one a behaviour is about, so one run
checks several small state spaces and never their product.

The definitions commented "Mutant of X" are wrong variants of X: each property of
a passing run is violated when the one named for it in `PROJECT.json` takes X's
place, so the property depends on the code that X models.

### Abstractions

* A message is a record of the fields the code reads, and serial numbers stand
  for timestamps (a flag) and for the picture (`frame`); the code reads neither.
* The text key `node|class,class` of the limiter is the pair of node and class set.
* A request of the manager is one action that returns success or failure; its
  duration is the ticks that pass while `posting` is not "none".
* A frame is the gray, blurred picture: a brightness in 0..255 per pixel. The
  difference is computed modulo 256 as numpy's uint8 does; the ratio threshold is
  a number of pixels.
* The rebalancer's stamps are ages that stop at the cooldown, since the script
  only asks whether an age is below it. `sleep`, log output and the formatting of
  docker's answers are left out.
* A datagram is the sender's id and an address number; connecting a ZeroMQ socket
  twice to an endpoint is connecting it once.  Of the messages of `PeerNode` only
  the one that cannot be handled matters, and it may come at any time.
* A posted event is the pair of its flag and its image. The file is a list, or
  `Torn` from the truncation until the writing ends; two handlers that overlap in
  `test_server.py` leave either.
* One counter stands for bytes read, written, sent and received. CPU, memory and
  temperature are passed on unchanged and left out.
* A name is a sequence of characters, of which only those that matter to
  `ros_namespace` are given; a text of the environment is known by what `float`
  makes of it; a time of day is a number of ticks modulo `Day`.

## 3. Runs

Bounds are in the `.cfg` files. Time is counted in ticks. Passing runs:

| Run | Question | Bounds and why they are enough |
|---|---|---|
| `control` | Manager: Are alerts spaced, suppressions justified and dispatches complete, at any times, with failing requests and a restart? Does the manager implement `AlertThrottle`? Rebalancer: Are moves spaced and justified, and is balance restored after failures end? | manager: Cooldown 2 ticks, clock 0..2, so the boundary is met; three verdicts, so a summary can stand between two alerts; labels that fall together when lower-cased; both channels. Rebalancer: three nodes, two of which may fail, three services, one with a constraint, cooldown of two polls (four in `docker-compose.yml`). No bound on time or failures: the state space is finite |
| `correlation` | Is an event made once per flag and processed once, with the picture of its own image, also when queues overflow, image ids repeat and the node restarts? Does the node implement `EventLifecycle`? | two flags, two images, queues of one message (50 in the code), so that each queue overflows; a restart of the motion process after which id 1 returns; a restart of the node; one tick, with a deadline at its end, since the order of reads and not the length of the wait matters |
| `progress` | Do results find the event that waits, is every message read and does every overdue event leave, with a blocking Telegram and a restart of the node? | liveness, no symmetry; one image, two flags; Wait 2 ticks of 4 (4 timer periods in the code), so that results come before and after the deadline |
| `pipeline` | Motion node: Are images published during motion only, spaced and never missing? Does the last flag tell the state? Other services: Do results stay in their namespace, is the logged age explained by the clocks? Are rates sound and chart and latest value consistent? Does the loop of the old alert service make no more events than copies, and go on? | motion node: five frames: start, two images of a motion, end, new start; cooldown 2 of 3 ticks; every exception; one restart; the stream may end at any time. Other services: three hosts, two of whose names become one namespace and one with a leading digit, a clock behind by 1 of a day of 2 ticks, every override (a number, zero, no number), one move; three monitors, three samples in a deque of two, a clock set by -2, -1 or 1; one flag, two images, one result, each of which may come twice |
| `drafts` | Are discovered peers connected and followed, are answers matched, do stopped programs end? Do acknowledged events survive crashes, is the file the list, are flags and images combined rightly? One clip at a time? | each of the thirteen programs, two peers, one a system monitor, which `server.py` connects to, and one that is not, which moves once; posts that return and posts that hang; a buffer of one datagram, so that datagrams are lost; two requests per peer, so that a late answer meets a second one; two motion nodes with three and one frames, two subscribers, one connected to both nodes and one to the second, so that flags and images of two nodes meet and two handlers overlap; either server; one crash |

The types and the other invariants of a run are checked together; `ServicesTypeOK`
and `DraftsTypeOK` are the conjunctions of the modules' type invariants.

Runs that refute what a document, a log line or the README says:

| Run | Statement | What the run shows |
|---|---|---|
| `webhook` | README.md:55 "Webhook POST (optional)" | `json=` cannot serialise `image_bytes`: no alert with a picture reaches the webhook |
| `fire_lost` | README.md:9 "fires immediately for fire / weapon" | the empty COCO result takes the event; the fire result finds none |
| `stale_picture` | README.md:41 "unique `image_id`" | after a restart of `motion`, a late result of the old image 1 is matched with the new image 1 |
| `late_timer` | alert.py:294 "events that never received a correlated detection in time" | the timer runs before a subscription that is ready: an event expires while its result, published in time, is in the node's queue |
| `dimming` | motion/motion.md:53 "Pixel differences > 50 are considered motion" | a scene darker by 1 is motion: 99 - 100 is 255 in 8 bits |
| `rebalance_stuck` | README.md:61 "to restore balance" | with the real constraints the script restarts services of the busiest node that may not run on the idle one, for ever |
| `anti_spam` | .draft/config.py:76 "Anti-spam", and :84 "Send first accepted detection immediately" | the limiter is inverted: the first event of a kind is suppressed |

Divergences met while modelling that have no run of their own: the cooldown is per
node and class *set*, not per class (README.md:150), and every suppressed event
renews it (README.md:52 promises 60 s); `ALERT_IMMEDIATE_CLASSES` (README.md:151) is
not in the code; after the 2 s wait nothing is dispatched, because an event without
a result has no class (README.md:9 says "then dispatches"); motion that flickers
publishes an image at every start, whatever `MOTION_IMAGE_PUBLISH_COOLDOWN` says
(README.md:146, which is why `ImagesSpaced` is about the images of one motion); a
`docker service ps` that fails, or a task that Swarm moves during a count, can make
the rebalancer act although no node is idle (rebalancer.sh:3, which is why
`MoveJustified` is about undisturbed polls); when the stream has ended,
`motion/motion.py:154` logs "Waiting 2 seconds and retrying", but nothing starts
ffmpeg again and the loop reads a dead pipe for ever.

In `.draft/`: `motion_ffmpeg.py:208` says "Send a single 0", but flag 0 goes out in
every frame after one with motion; its images carry no `image_id`, so
`alert/api_subscriber.py` skips every one; `requests/api_subscriber.py` keeps one
flag for all nodes, so an image may be posted with the flag of another node
(`OwnFlag` is about images and flags of one node); a REQ socket of `node.py` whose
answer timed out refuses every later send; `img/sub_img.py:98` says "Reconnect on
error", but a peer that moves is reconnected only by the accident of an exception
(`FirstAddressPinned`); `node.py` and `node_pubsub.py` never end once stopped,
because a thread goes on after `ContextTerminated`, nor does a weapon detector that
is stopped while it searches (which is why `StopExits` leaves these three out);
`requests/api_subscriber.py:92` posts without a timeout, so a web server that hangs
keeps the thread and, once stopped, the program for ever; on the device of the
motion node every event comes twice, over 127.0.0.1 and over the device's address
(`EventPerCopy`).

## 4. Fairness and what ends a behaviour

* `AlertManager`, `AlertNode`: a request returns (its `timeout` in the code
  ensures it), and the executor serves each ready subscription and the timer in
  turn, so there is weak fairness for each callback. Nothing is assumed of the
  environment and of time. Where the modelled time is up, `TimeUp` lets the
  behaviour stutter; TLC reports every other state without a step as a deadlock.
* `MotionDetector`: the loop goes on while the process lives: weak fairness of
  `ReadFrame` and `Probe`. Streams and restarts are not fair. No property needs
  it, and `MCPipeline` leaves it out.
* `Rebalancer`: the script runs and time passes (weak fairness), and Swarm places
  a task that it can place (weak fairness of `Reschedule`). `BalanceRestored`
  says in its premise that failures stop.
* `PeerNode`: each thread runs (weak fairness of the discovery loop, of the
  connecting thread's steps and of `Exit`). Nothing is assumed of peers and
  datagrams, nor of the web server that `requests/api_subscriber.py` posts to
  without a timeout: `PostReturns` is a step of the environment without fairness,
  and `PeersFollowed` and `StopExits` say in their premise, `PostsReturn`, that no
  post hangs. Without that premise TLC finds a stop that waits for ever.
* `Telemetry`: the collector's thread and the page run (weak fairness of `Collect`
  and `Dashboard`). `DraftAlert`: the loop runs and a request returns, since it has
  a timeout of 10 s (weak fairness of `SubscriberRound` and `Sending`).
* `AlertThrottle`, `EventLifecycle`, `DetectionNode`, `DraftEvents`, `Recorder`:
  safety only. A subscriber of `DraftEvents` waits without a timeout for a server
  that may not come back, and nothing is promised of it.

## 5. Proofs

| Theorem | Says |
|---|---|
| `ManagerTypeCorrect`, `ManagerSpacing`, `ManagerSuppression`, `ManagerDispatch` | `ManagerSpec => []P` for `ManagerTypeOK`, `AlertSpacing`, `SummaryJustified`, `DispatchComplete` |
| `ManagerImplementsThrottle` | `ManagerSpec => ThrottlePromise`: the manager implements `AlertThrottle` |
| `NodeTypeCorrect`, `NodeSpacing`, `NodeDispatch`, `NodeWaitingEventIsFound`, `NodeAtMostOnce`, `NodePictureMatches` | `Spec => []P` (AlertNode) for `TypeOK`, `AlertSpacing /\ SummaryJustified`, `DispatchComplete`, `WaitingEventIsFound`, `AtMostOnce`, `PictureMatchesInOneLife` |
| `NodeImplementsThrottle`, `NodeImplementsLifecycle` | `Spec => ThrottlePromise`, `Spec => LifecyclePromise`: the node implements `AlertThrottle` and `EventLifecycle` |
| `MotionTypeCorrect`, `MotionImages`, `MotionSpacing`, `MotionFlagTellsState` | `Spec => []P` (MotionDetector) for `TypeOK`, `ImageUnderFlag`, `ImagesSpaced`, `FlagTellsState` |
| `MotionIsShown` | `Spec => MotionShown`, an action property |
| `RebalancerTypeOK` | `Spec => []TypeOK` (Rebalancer) |
| `RebalancerMovesSpaced`, `RebalancerMoveJustified` | `Spec => MovesSpaced`, `Spec => MoveJustified`, action properties |
| `NamespaceIsSafe` | what `RosNamespace` makes of any name is a legal namespace, and its own namespace (`shared/ros_common.py:15`) |
| `DetectionOwnNamespace`, `DetectionAge` | `DetectionSpec => []P` for `OwnNamespace`, `AgeUpToDays` |
| `TelemetryRates`, `TelemetryLatest` | `TelemetrySpec => []P` for `RatesSound`, `LatestBelongsToChart` |
| `DraftEventPerCopy` | `AlertSpec => []EventPerCopy` |
| `DraftOnlyRepeatsAlert` | `AlertSpec => []OnlyRepeatsAlert`: what the limiter of `.draft/` does where `AntiSpam` is refuted |
| `PeerTypeCorrect`, `PeerAnswersMatch`, `PeerFirstAddressPinned` | `Spec => []P` (PeerNode) for `TypeOK`, `AnswersMatch`, `FirstAddressPinned` |
| `EventPathTypeOK`, `ServerKeepsAcked`, `ServerFileKept`, `SubscriberOwnFlag` | `EventsSpec => []P` for `EventsTypeOK`, `AckedKept`, `FileKept`, `OwnFlag` |
| `RecorderOneClip` | `RecorderSpec => []OneClip` |
| `ServicesTypeCorrect`, `DraftsTypeCorrect` | `MCSpec => []ServicesTypeOK`, `MCSpec => []DraftsTypeOK`: the types of the parts in the instances, which start and step as their parts do |

So every safety property that a passing run checks is proved, and all refinements
are.  The theorems hold for every value of the constants that satisfies the named
assumption of the module (`ManagerAssumption`, `NodeAssumption`, ...).  These
say little more than what the values are numbers, sets and functions of: a host has
a name, a queue has room for a message, the nodes and services of the rebalancer
are lists without repetition, `{}` is among the results of a detector of
`.draft/`.  The bounds are among the constants, so the bounded runs are instances
of what is proved.

### Alert manager

`AlertSpacing` alone is not inductive: it does not say that the limiter still
knows the alerts of the log.  `LimiterInv` adds it: no verdict of the running
process on a key is later than the time stored for the key, and each stored time
is that of a verdict.  A new alert is then at least `Cooldown` after every
earlier one, and a summary has the verdict whose time is stored as its cause.
Each operation has its own lemma (`DecideInv`, `PostingInv`, `ClockInv`,
`RestartInv`), and `AlertNodeProofs` cites them again for the callbacks of the node.

`DispatchComplete` says nothing of an alert whose requests are under way.
`DispatchInv` does: of the alerts of this process only the last one may lack
posts, and it lacks exactly those to `Due`, the channel in use and the ones after it.

The refinement of `AlertThrottle` takes the last alert of a key from the log.
That the times of a key have a maximum is an invariant of its own (`HasLatest`);
an alert moves the maximum to `now`, a restart empties the set, and any other step
stutters.  `NodeTakesManagerSteps` carries both results over to the node.

### Alert node

`AtMostOnce` needs an order: `FlagOrder` says that of each sender the flags used in
events are older than the remembered one, and this one older than those in the
queue.  An event that is made has then a flag newer than all before it, which
holds however the queue overflows and image ids repeat; an event that leaves is
taken out of the pending ones in the same step.  The same order shows that a step
maps to one of `EventLifecycle`: the event admitted is new, and what leaves
`pendingEvents` is in exactly one of the logs.  `WaitingEventIsFound` needs
`ResultsSeen`: a result logged as unmatched was read when no event of its key
was pending, and events of later times have later deadlines.

`PictureMatchesInOneLife` is about the log only.  `OneLife` follows a picture from
the camera to it: while the motion process of a sender has not restarted, its next
image id is one more than the number of its frames, and in every queue and in every
event the id is the frame.

### Motion detector

`ImageUnderFlag` and `ImagesSpaced` need what the detector's variables stand for:
`Announced` (while `last_motion_state` is 1, the process has sent a flag 1 and no
flag 0 since) and `LastPublishLatest` (no image of this process is younger than
`last_publish_time`).  Both survive an exception because the code assigns the two
variables only after the publications.  `BeginInv` and `OneLineInv` prove the
invariant for the two ways the log grows, and `FrameKinds` reduces a frame to six
of them.  `MotionShown` needs the converse of `LastPublishLatest`, `PublishLogged`:
`last_publish_time` is the time of an image, or of an attempt, that is in the log.

### Rebalancer

The script counts with indices into two lists.  `PollOK` says what it knows in the
middle of a count: the idle and the busy node are ones the outer loop is through
with, and a count above zero has a busy node; without it, the types of the later
commands do not follow.  `MovesSpaced` compares ages that two commands set one after the other.
`SpacedInv` says that a stamp is never older than the last move of its service
except between `service update` and the writing of the stamp, and that the script
sleeps before each poll.  `MoveJustified` needs that counting one by one is right
if nothing interferes: `CountInv` says that `count` is the number of services among
those asked for that are on the node (`FirstOn`), that the idle node is empty and
that no node the loop has passed has more than the busy one.

### Detection node, monitors, old alert service

A result cannot leave its namespace because no image can: `DetectionInv` says that
each image in the queue was published in the namespace of the detector's host, with
the time of day of its publisher's clock.  `AgeUpToDays` is then
arithmetic modulo `Day` (`AgeOfDelay`).

`Amounts` and the sum in `EventPerCopy` are recursive functions.  The induction
theorems of the library take an operator, but a set of naturals with 0 and all
successors is `Nat` (`NatInductive`, from the well-foundedness of `<`), and by that
`Sums` shows that such a function exists, is unique, has integer values and
changes with one of its terms.  `RatesSound` follows with `RatesInv`: what was counted so far
is at most the first reading of the sampler that sleeps, and the wall clock is behind
an earlier reading only after it was set.  `LatestBelongsToChart` relates two reads
with the collector in between: messages arrive in order (`CollectorInv`), so the
end of the deque never goes back behind the chart that was read first
(`DashboardInv`).

`OnlyRepeatsAlert` needs `RecentInv` (the stored time of a class set is that of its
last decision).  `EventPerCopy` counts: `CopyInv` says that the events an image has
made and the connections it is still to be read from are together at most the
connections, since each queue has its numbers in order and so at most once
(`Serial`); `TokenInv` says the same of deliveries of flags, each of which is
unread, held in `currentFlag`, waiting as an event or handled, and never two of these.

### Earlier version

`AnswersMatch` needs to know what is under way (`Awaited`): a socket that waits
waits for its last request, and no other answer is under way; one that timed out
never sends and never reads again.  `FirstAddressPinned` needs that what a program remembers and
what it is connected to agree until an exception.  `AckedKept` rests on `Kept`: each
acknowledged pair, and each pair a handler is about to acknowledge, is in the list,
and in the file if the server is down.  `FileKept` needs the lock (`Locked`: at most
one handler is between the list and the file) for `app.py`, and for `test_server.py`
that a torn file is never repaired.

`OwnFlag` needs the order of each node's messages (`InOrder`: flags 1 grow, and an
image that is not the first message comes right after the flag of its motion), that what is unread
is newer than what a subscriber remembers or has posted (`Newer`), and that the
remembered flag was not posted (`Fresh`).  `ContentInv` says that all there is
on the path was announced by a motion node, which bounds the types.

### What the proofs changed, and what they leave to TLC

Two parts of the model were too weak and were corrected.  `DraftEvents` had one queue per
subscriber, in which a flag and its image were always neighbours: an image could
never meet the flag of another node, which `requests/api_subscriber.py:129` allows.
Now the queue is per subscriber and node, with the connections in `Connected`.
`DraftAlert` took the labels of flags and images to be `{}` without assuming that
`{}` is in `Verdicts`.

Only model-checked: the liveness properties (`NothingStuck`, `BalanceRestored`,
`PeersFollowed`, `StopExits`, `MessageShown`, `RoundsGoOn`), which are out of the
prover's reach with the fairness they need, and the seven statements that are refuted.

## 6. Not modelled, and what could follow

| Module | Content | Status |
|---|---|---|
| `AlertManager`, `AlertThrottle`, `AlertManagerProofs` | the limiter and the dispatch; the abstract promise of a rate limiter; proofs | done |
| `AlertNode`, `EventLifecycle`, `AlertNodeProofs` | correlation with an open environment; the abstract life of an event; proofs | done |
| `MotionDetector`, `MotionDetectorProofs` | the frame loop; proofs | done |
| `Rebalancer`, `RebalancerProofs` | the polling script against Swarm; proofs | done |
| `Shared`, `DetectionNode`, `ServicesProofs` | namespaces, overrides, the queue age; the detector on moving hosts; proofs | done |
| `Telemetry`, `Sums`, `ServicesProofs` | the monitors and the dashboard; proofs | done |
| `PeerNode`, `DraftEvents`, `Recorder`, `PeerNodeProofs`, `DraftProofs` | the ZeroMQ programs; proofs | done |
| `DraftAlert`, `Sums`, `ServicesProofs` | the old alert service; proofs | done |
| - | invariants behind the liveness properties, such as that a round of the old alert service always has a next step | open |

There is no module that composes motion, detectors and alert node end to end: the
alert node's environment already sends every sequence of messages the other two
can, so that what holds of `AlertNode` holds of the composition.

Hazards that no property covers, mostly because neither the code nor a document
clearly promises anything to hold it against (`PROJECT.json` gives each at its
line): an alert whose requests failed is not repeated, and its repetitions are
suppressed; events under the cooldown renew it; a docker command that fails looks
like an idle node; motion that flickers publishes at every start; a flag whose image
could not be encoded is used for a later image; a dead ffmpeg is never started
again; a restart of the rebalancer clears its stamps; an override that does not
parse is dropped silently; `node.py`, `node_pubsub.py` and a searching weapon
detector do not end.

Left out for good:

* the YOLO inference (an arbitrary set of labels, or a certainty) and the generated
  network parameters of the models;
* of the helpers: the override `ROS_NS`, which `docker-compose.yml` does not set, the
  flattening of `config.yaml`, the coercion of Booleans and strings, log output;
* `deploy_stack.sh`, which builds and deploys once;
* the layout of the dashboard's page;
* of `.draft/`: `config.py` (constants), `motion/motion_opencv.py`, `yolo/detection.py`
  and `mediamtx/playback.py` (a loop or a pass over a file that talks to nobody);
* the evaluation scripts and documents: text in, charts out, one pass and no state.
