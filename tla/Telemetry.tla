------------------------------ MODULE Telemetry ------------------------------
(***************************************************************************)
(* The monitors that sample a device's counters, and the dashboard.        *)
(*                                                                         *)
(*   "ros"    system_monitor/system_monitor.py, a timer callback           *)
(*   "draft"  .draft/system_monitor.py, a loop; .draft/server.py collects  *)
(*            what it publishes and shows it                               *)
(*   "csv"    .draft/monitor/monitor.py, which writes lines to a file      *)
(*                                                                         *)
(* The first two read the counters before and after a sleep and divide by  *)
(* the length they asked for; the third one keeps the last reading and     *)
(* divides by the difference of two readings of the wall clock, which may  *)
(* be set.  One counter stands for the disk's and the network's.           *)
(***************************************************************************)
EXTENDS Integers, Sequences

CONSTANTS
    Monitors,       \* the monitors that are considered
    Interval,       \* SYSTEM_MONITOR_INTERVAL, in ticks
    Window,         \* maxlen of the collector's deque
    MaxRows,        \* bound: samples taken
    MaxBytes,       \* bound: the counter
    LastTick,       \* bound: time
    ClockSteps      \* bound: the changes the wall clock is set by

ASSUME TelemetryAssumption ==
    /\ {Interval, Window} \subseteq Nat \ {0}
    /\ {MaxRows, MaxBytes, LastTick} \subseteq Nat
    /\ ClockSteps \subseteq Int

VARIABLES
    monitor,        \* the monitor that runs
    counted,        \* psutil has counters (None in some containers)
    bytes,          \* the counter
    ticks, wall,    \* true time and wall clock
    clockSet,       \* the wall clock was set (history)
    pc,             \* where the sampler is: "read", "sleep", "ended"
    from, since, slept, \* io1 or prev_disk, prev_time, when the sleep began
    rows,           \* samples: what was counted and the time it is divided by
    listening,      \* the collector's socket is connected
    wire,           \* numbers of the messages on their way
    data,           \* the deque of the node, numbers of messages
    frame, latest,  \* what the dashboard read: get_dataframe, get_latest
    dashboard       \* where the dashboard is: "list", "frame", "latest", "show"

deviceVars == <<monitor, counted, bytes, ticks, wall, clockSet>>
samplerVars == <<pc, from, since, slept, rows>>
collectorVars == <<listening, data>>
dashboardVars == <<frame, latest, dashboard>>
telemetryVars == <<deviceVars, samplerVars, wire, collectorVars, dashboardVars>>

TelemetryInit ==
    /\ monitor \in Monitors
    /\ counted \in BOOLEAN
    /\ bytes = 0
    /\ ticks = 0 /\ wall = 0 /\ clockSet = FALSE
    /\ pc = "read"
    /\ from = 0 /\ since = 0 /\ slept = 0
    /\ rows = <<>>
    /\ listening = FALSE /\ wire = <<>> /\ data = <<>>
    /\ frame = <<>> /\ latest = 0 /\ dashboard = "list"

-----------------------------------------------------------------------------
(* The samplers.                                                           *)

\* Mutant of FirstReading: the last reading of the previous sample is used.
LastReading == from

\* io1 = psutil.disk_io_counters(): what was transferred since the previous
\* sample is not in any; monitor.py goes on from its last reading.
FirstReading == IF monitor = "csv" THEN from ELSE bytes

Sleep ==
    /\ pc = "read" /\ Len(rows) < MaxRows
    /\ pc' = "sleep"
    /\ from' = FirstReading
    /\ slept' = ticks
    /\ UNCHANGED <<deviceVars, since, rows, wire, collectorVars, dashboardVars>>

\* What the difference is divided by.
Elapsed == IF monitor = "csv" THEN wall - since ELSE Interval

NextReading == IF monitor = "csv" THEN bytes ELSE from

\* status_pub.send_json; nobody subscribes to the other monitors.
PublishStatus(n) ==
    wire' = IF monitor = "draft" /\ listening THEN Append(wire, n) ELSE wire

\* The second reading, the row and its publication.  Without counters the
\* first two report 0.
Sample ==
    /\ pc = "sleep" /\ ticks - slept >= Interval
    /\ monitor = "csv" => counted /\ Elapsed # 0
    /\ rows' = Append(rows, [amount |-> IF counted THEN bytes - from ELSE 0, over |-> Elapsed])
    /\ PublishStatus(Len(rows) + 1)
    /\ from' = NextReading
    /\ since' = wall
    /\ pc' = "read"
    /\ UNCHANGED <<deviceVars, slept, collectorVars, dashboardVars>>

\* monitor.py: None has no attributes, and a rate over no time at all cannot be
\* computed; the exception ends the program.
SampleRaises ==
    /\ pc = "sleep" /\ ticks - slept >= Interval
    /\ monitor = "csv" /\ (~counted \/ Elapsed = 0)
    /\ pc' = "ended"
    /\ UNCHANGED <<deviceVars, from, since, slept, rows, wire, collectorVars, dashboardVars>>

\* The device transfers bytes, time passes, somebody or NTP sets the clock.
Transfer ==
    /\ bytes < MaxBytes
    /\ bytes' = bytes + 1
    /\ UNCHANGED <<monitor, counted, ticks, wall, clockSet, samplerVars, wire,
                   collectorVars, dashboardVars>>

Second ==
    /\ ticks < LastTick
    /\ ticks' = ticks + 1 /\ wall' = wall + 1
    /\ UNCHANGED <<monitor, counted, bytes, clockSet, samplerVars, wire,
                   collectorVars, dashboardVars>>

SetClock ==
    /\ ~clockSet /\ monitor = "csv"
    /\ \E d \in ClockSteps : wall' = wall + d
    /\ clockSet' = TRUE
    /\ UNCHANGED <<monitor, counted, bytes, ticks, samplerVars, wire,
                   collectorVars, dashboardVars>>

-----------------------------------------------------------------------------
(* The collector's thread and the dashboard, which share data and its lock. *)

Connected ==
    /\ ~listening /\ monitor = "draft"
    /\ listening' = TRUE
    /\ UNCHANGED <<deviceVars, samplerVars, wire, data, dashboardVars>>

\* Mutant of Keep: the newest messages are dropped.
KeepOldest(n) == IF Len(data) < Window THEN Append(data, n) ELSE data

\* deque(maxlen=60).append
Keep(n) == Append(IF Len(data) < Window THEN data ELSE Tail(data), n)

Collect ==
    /\ wire # <<>>
    /\ wire' = Tail(wire)
    /\ data' = Keep(Head(wire))
    /\ UNCHANGED <<deviceVars, samplerVars, listening, dashboardVars>>

Turn(at, to) ==
    /\ monitor = "draft" /\ dashboard = at
    /\ dashboard' = to
    /\ UNCHANGED <<deviceVars, samplerVars, wire, collectorVars>>

\* run_dashboard: the nodes there are; without any it starts again.
ListNodes == data # <<>> /\ Turn("list", "frame") /\ UNCHANGED <<frame, latest>>

GetDataframe == Turn("frame", "latest") /\ frame' = data /\ UNCHANGED latest

\* Mutant of Newest: the first entry of the deque.
Oldest == data[1]

Newest == data[Len(data)]

GetLatest == Turn("latest", "show") /\ latest' = Newest /\ UNCHANGED frame

\* The page is drawn and run again after an interval.
Rerun == Turn("show", "list") /\ UNCHANGED <<frame, latest>>

Dashboard == ListNodes \/ GetDataframe \/ GetLatest \/ Rerun

TelemetryOver == ticks = LastTick /\ UNCHANGED telemetryVars

TelemetryNext ==
    \/ Sleep \/ Sample \/ SampleRaises
    \/ Transfer \/ Second \/ SetClock
    \/ Connected \/ Collect \/ Dashboard \/ TelemetryOver

\* The collector's thread and the page run.
TelemetryFairness == WF_telemetryVars(Collect) /\ WF_telemetryVars(Dashboard)

TelemetrySpec == TelemetryInit /\ [][TelemetryNext]_telemetryVars /\ TelemetryFairness

-----------------------------------------------------------------------------
(* Properties.                                                             *)

\* Type correctness.
TelemetryTypeOK ==
    /\ monitor \in Monitors
    /\ {counted, clockSet, listening} \subseteq BOOLEAN
    /\ bytes \in 0..MaxBytes
    /\ ticks \in 0..LastTick /\ wall \in Int
    /\ pc \in {"read", "sleep", "ended"}
    /\ from \in 0..MaxBytes /\ since \in Int /\ slept \in 0..LastTick
    /\ \A i \in DOMAIN rows : rows[i].amount \in 0..MaxBytes /\ rows[i].over \in Int
    /\ Len(data) <= Window /\ latest \in 0..MaxRows

Amounts == LET Sum[n \in 0..Len(rows)] == IF n = 0 THEN 0 ELSE rows[n].amount + Sum[n - 1]
           IN  Sum[Len(rows)]

\* No byte is in two samples; monitor.py leaves none out, the other two lose what
\* is transferred between two samples.  What a sample is divided by is positive,
\* except in monitor.py after the wall clock was set.
RatesSound ==
    /\ Amounts <= bytes
    /\ monitor = "csv" => Amounts = from
    /\ \A i \in DOMAIN rows : rows[i].over <= 0 => clockSet /\ monitor = "csv"

\* The numbers above a chart are those of its last point or of a later message,
\* although the two are read one after the other.
LatestBelongsToChart ==
    dashboard = "show" => frame # <<>> /\ frame[Len(frame)] <= latest

\* A message that reached the collector is shown in the end, or a later one.
MessageShown ==
    \A n \in 1..MaxRows :
        (\E i \in DOMAIN wire : wire[i] = n) ~> dashboard = "show" /\ latest >= n
=============================================================================
