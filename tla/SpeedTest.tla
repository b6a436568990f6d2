------------------------------ MODULE SpeedTest ------------------------------
(***************************************************************************)
(* The agent's own speed tests beside its traffic sampling: the engine and *)
(* its tasks (internal/speedtest/engine.go, agent/monitor_speedtest.go),   *)
(* the record of the agent's transfers (traffic/selftraffic.go), the       *)
(* sampler (traffic/sampler.go) and the traffic collector                  *)
(* (agent/monitor_traffic.go).                                             *)
(*                                                                         *)
(* One interface and its received bytes are modelled.  In a unit of time   *)
(* the hosts behind it receive one unit of data or none and a running test *)
(* receives TestRate units.  Rates are kept as bytes of an interval.       *)
(***************************************************************************)
EXTENDS Integers, FiniteSetsExt

CONSTANTS Tasks,       \* subset of {"full", "light", "manual"}: one goroutine each
          TestRate,    \* what a test receives per unit of time
          Warmup,      \* what a test receives before this is not in its result
          BusyRate,    \* speed_test.skip_if_busy_mbps; 0 switches the check off
          Retain,      \* how long SelfTraffic keeps a record
          MaxTime,     \* bound on the clock
          MaxResets    \* bound on resets of the interface's counter

VARIABLES
    now,
    counter,    \* the interface's counter
    prev,       \* Sampler.prev, or Never
    busy,       \* the rate in State is above BusyRate
    task,       \* what each task is doing; a test with its start, end and bytes
    running,    \* Engine.running
    windows,    \* SelfTraffic.windows
    published,  \* the rate the last step put on the bus, or None
    \* history and bounds
    others,     \* what the other hosts have received since the sampler's last reading
    ours,       \* what the agent's own tests have
    failed,     \* when a test last ended that received data and recorded none
    resets

sampling == <<prev, busy, windows>>
vars == <<now, counter, sampling, task, running, published, others, ours, failed, resets>>

Times == 0..MaxTime
Never == [at |-> -1, count |-> 0]
None == -1

Resting == [step |-> "idle", start |-> 0, end |-> 0, bytes |-> 0]

\* Half-open intervals of time from..to.
Overlap(from, to, start, end) == Max({0, Min({to, end}) - Max({from, start})})

Init ==
    /\ now = 0 /\ counter = 0 /\ prev = Never /\ busy = FALSE
    /\ task = [k \in Tasks |-> Resting]
    /\ running = FALSE
    /\ windows = {} /\ published = None
    /\ others = 0 /\ ours = 0 /\ failed = 0 /\ resets = 0

TypeOK ==
    /\ now \in Times /\ counter \in Nat /\ running \in BOOLEAN /\ busy \in BOOLEAN
    /\ \A k \in Tasks : task[k].step \in {"idle", "checked", "testing", "finished"}

-----------------------------------------------------------------------------
\* A unit of time passes: data arrives, for a running test too.  Record follows Finish
\* within much less than that.
Tick ==
    /\ now < MaxTime
    /\ \A k \in Tasks : task[k].step # "finished"
    /\ \E received \in {0, 1}, tested \in {IF running THEN TestRate ELSE 0} :
        /\ others' = others + received /\ ours' = ours + tested
        /\ counter' = counter + received + tested
    /\ task' = [k \in Tasks |->
           IF task[k].step = "testing" /\ now >= task[k].start + Warmup
           THEN [task[k] EXCEPT !.bytes = @ + TestRate] ELSE task[k]]
    /\ now' = now + 1 /\ published' = None
    /\ UNCHANGED <<sampling, running, failed, resets>>

\* The driver resets the interface's counter.
Reset ==
    /\ resets < MaxResets
    /\ counter' = 0 /\ resets' = resets + 1 /\ published' = None
    /\ UNCHANGED <<now, sampling, task, running, others, ours, failed>>

-----------------------------------------------------------------------------
\* run: shouldSkip lets the test go ahead.  A manual test asks nothing.
Check(k) ==
    /\ task[k].step = "idle"
    /\ k = "manual" \/ (~running /\ ~(busy /\ BusyRate > 0))
    /\ task' = [task EXCEPT ![k].step = "checked"]
    /\ published' = None
    /\ UNCHANGED <<now, counter, sampling, running, others, ours, failed, resets>>

\* Engine.Run: refused while another test runs, which may have started since the check.
Refuse(k) ==
    /\ task[k].step = "checked" /\ running
    /\ task' = [task EXCEPT ![k] = Resting]
    /\ published' = None
    /\ UNCHANGED <<now, counter, sampling, running, others, ours, failed, resets>>

Run(k) ==
    /\ task[k].step = "checked" /\ ~running
    /\ running' = TRUE
    /\ task' = [task EXCEPT ![k] = [step |-> "testing", start |-> now, end |-> now, bytes |-> 0]]
    /\ published' = None
    /\ UNCHANGED <<now, counter, sampling, others, ours, failed, resets>>

\* Engine.Run returns, with a result or with an error after whatever it has received.
Finish(k) ==
    /\ task[k].step = "testing"
    /\ running' = FALSE
    /\ task' = [task EXCEPT ![k].step = "finished", ![k].end = now]
    /\ published' = None
    /\ UNCHANGED <<now, counter, sampling, others, ours, failed, resets>>

\* SelfTraffic.Record, which also drops what is too old.
\* Mutant: the transfer is recorded as of the moment its test ended.
Recorded_Instant(start, end, bytes) ==
    IF bytes = 0 THEN windows
    ELSE {w \in windows \cup {[start |-> end, end |-> end, bytes |-> bytes]} :
            w.end > now - Retain}

Recorded(start, end, bytes) ==
    IF bytes = 0 THEN windows
    ELSE {w \in windows \cup {[start |-> start, end |-> end, bytes |-> bytes]} :
            w.end > now - Retain}

Record(k) ==
    /\ task[k].step = "finished"
    /\ windows' = Recorded(task[k].start, task[k].end, task[k].bytes)
    /\ task' = [task EXCEPT ![k] = Resting]
    /\ failed' = IF task[k].bytes = 0 /\ task[k].end > task[k].start THEN task[k].end ELSE failed
    /\ published' = None
    /\ UNCHANGED <<now, counter, prev, busy, running, others, ours, resets>>

-----------------------------------------------------------------------------
\* SelfTraffic.Between: each transfer counts in proportion to its overlap.
Share(w, from, to) ==
    IF w.end = w.start THEN 0
    ELSE (w.bytes * Overlap(from, to, w.start, w.end)) \div (w.end - w.start)

SelfBytes(from, to) == MapThenSumSet(LAMBDA w : Share(w, from, to), windows)

SelfActive(from, to) ==
    \E w \in windows : \/ Overlap(from, to, w.start, w.end) > 0
                       \/ w.start = w.end /\ from <= w.start /\ w.start < to

\* A test whose transfer is not in the record yet received something after from.
Unrecorded(from) ==
    \E k \in Tasks : \/ task[k].step = "testing"
                     \/ task[k].step = "finished" /\ task[k].end > from

(***************************************************************************)
(* The traffic collector's cycle.  Sample stores the reading before        *)
(* anything else; of a first reading, of one at the same time as the last  *)
(* and of a counter that went backwards there is no rate.  An insert that  *)
(* fails ends the cycle.                                                   *)
(***************************************************************************)
Sample ==
    LET rate == Max({0, counter - prev.count - SelfBytes(prev.at, now)}) IN
    /\ prev' = [at |-> now, count |-> counter] /\ others' = 0 /\ ours' = 0
    /\ IF prev = Never \/ now = prev.at THEN published' = None /\ UNCHANGED <<busy, windows>>
       ELSE /\ windows' = {w \in windows : w.end > now - Retain}
            /\ \/ /\ counter >= prev.count
                  /\ busy' = (rate > BusyRate * (now - prev.at))
                  /\ published' = IF SelfActive(prev.at, now) THEN None ELSE rate
               \/ published' = None /\ UNCHANGED busy
    /\ UNCHANGED <<now, counter, task, running, failed, resets>>

Next ==
    \/ Tick \/ Reset \/ Sample
    \/ \E k \in Tasks : Check(k) \/ Refuse(k) \/ Run(k) \/ Finish(k) \/ Record(k)

Spec == Init /\ [][Next]_vars

-----------------------------------------------------------------------------
(***************************************************************************)
(* A rate published for anomaly detection holds what the other hosts       *)
(* received in its interval, and nothing of a test of the agent that is in *)
(* the record, however many ran or straddled the interval: a test shows in *)
(* it while it is under way, as it is recorded when it has ended, or when  *)
(* it ended with nothing to record.  A reset of the counter never makes    *)
(* the rate larger than what arrived.                                      *)
(* (trafficMonitor.run, Sampler.Sample, SelfTraffic, speedMonitor.run)     *)
(***************************************************************************)
OnlyUnrecordedTestsShow ==
    [][published' # None =>
        /\ published' <= others + ours
        /\ resets = 0 => published' = others + ours
        /\ ours > 0 => Unrecorded(prev.at) \/ failed > prev.at]_vars

-----------------------------------------------------------------------------
\* Claims of the repository that the code does not meet.

\* monitor_traffic.go: "a speed test must never be able to produce a traffic anomaly".  The
\* samples taken while a test runs hold its traffic.
TestsAreNotTraffic == [][published' # None => published' <= others]_vars

\* monitor_speedtest.go: "a failed test still moved data, and the traffic monitor must not
\* read it as an anomaly".  One that fails before its warm-up is over has nothing to record.
FailedTestsAreNotTraffic ==
    [][published' # None /\ ~Unrecorded(prev.at) => published' <= others]_vars
=============================================================================
