# TLA+ models and proofs for iPulse

iPulse is a network-monitoring agent: one process that probes the connection on a
schedule, learns what is normal, records outages and anomalies in SQLite and log files,
and answers queries over a local REST API. This directory holds TLA+ specifications of
nearly all of the agent's stateful parts: those whose correctness depends on order,
timing, failure, restarts or boundary cases. It holds the TLC configurations that check
them, and TLAPS proofs of the safety of all of them: every invariant and action property that a
run checks is a theorem, for every value of the constants that section 4 states.
All paths below are relative to the repository (`internal/...`, `docs/...`).

    tlc -config Outage.cfg Outage.tla      # model-check one run
    tlapm OutageProofs.tla                       # check the proofs of one module

## 1. The system

### Components, their state and how they interact

| Component (code under `internal/`) | State | Operations | Modelled by |
|---|---|---|---|
| Outage record (`agent/monitor_connectivity.go`, `connectivity/tracker.go`, `database/store_outages.go`) | tracker with two streaks; the id of the open row; outages table; runtime snapshot | `check`, `openOutage`, `closeOutage`, `Diagnose`, `Restore`; state-refresh; retention | `Tracker`, `OutageLedger`, `Outage`, `OutageProofs` |
| Detection gate (`anomaly/gate.go`) | a map of keyed conditions with streaks and instants | `Breach`, `Clear`, `Observe`, `Reset`, `Prune` | `GateState`, `Gate`, `DetectionProofs` |
| Diagnostic ladder (`connectivity/engine.go`, `classify.go`) | the evidence gathered so far, the task's deadline | six rungs, then `Classify` | `Ladder`, `DetectionProofs` |
| Scheduler (`agent/scheduler.go`) | per task: goroutine, timer, running mark, channel of manual requests | `runTask`, `execute`, `Trigger`, `Wait` | `Scheduler`, `SchedulerProofs` |
| Sample bus and shutdown (`agent/bus.go`, `agent/agent.go`) | channel of 512 sample batches; context; the joins of `Shutdown` | `publishSamples`, `runAnalysis`, `dispatch`, `Run`, `Shutdown` | `SampleStream`, `Pipeline`, `PipelineProofs` |
| Baselines (`baseline/engine.go`, `agent/monitor_anomaly.go`, `database/store_baselines.go`) | baselines and dirty marks in memory; the baselines table | `Observe`, `TakeDirty`, `SaveBaselines`, `Prune`, `PruneBaselines`, `Load` | `Baselines`, `BaselinesProofs` |
| Logging engine (`logging/logger.go`) | queue of 4096 events; sinks; subscribers | `Emit`, `run`, `process`, `Subscribe`, `Flush`, `SetLevel`, `Close` | `Logger`, `LoggerProofs` |
| Log files (`logging/file.go`, `sinks_file.go`) | the current file, the archives | `Write`, `rotate`, `pruneArchives`, `Close` | `LogFile`, `HostProofs` |
| Correlation (`correlation/*.go`, `agent/monitor_correlation.go`) | window of recent signals, cooldown per rule, subscription to the log | `Observe`, `Evaluate`, drain, marking | `Correlation`, `DetectionProofs` |
| Anomaly rules (`anomaly/rules.go`, `agent/monitor_anomaly.go`) | baselines, gates and sustained-rule windows per metric | `Samples` and the rules | `Anomaly`, `DetectionProofs` |
| DNS collector (`agent/monitor_dns.go`, `dns/resolver.go`) | three gates | `run`, `report`, `Probe` | `DNSMonitor`, `DetectionProofs` |
| Latency and loss (`latency/prober.go`, `agent/monitor_latency.go`) | ICMP capability, memo of filtered targets, loss gate | `Probe`, `icmpAvailable`, `reportLoss` | `Latency`, `DetectionProofs` |
| Public address (`publicip/detect.go`, `agent/monitor_publicip.go`) | history rows, failure gate | `Detect`, `Agree`, the record | `PublicIP`, `DetectionProofs` |
| Health score (`health/score.go`, `util/stats.go`, `agent/monitor_health.go`) | gate | `Compute`, `run` | `Health`, `DetectionProofs` |
| Interfaces (`interfaces/tracker.go`, `agent/monitor_interfaces.go`) | the last snapshot, runtime state | `Observe`, `collect` | `Interfaces`, `NetworkProofs` |
| Routing (`routing/traceroute.go`, `agent/monitor_routing.go`) | path rows, the turn of the destinations | `Trace`, `Compare`, `run` on two goroutines | `Routing`, `NetworkProofs` |
| Speed tests and traffic (`speedtest/*.go`, `traffic/*.go`, `agent/monitor_speedtest.go`, `monitor_traffic.go`) | engine's exclusion, record of the agent's transfers, last counters; streams and meter of a transfer | `Run`, `Record`, `Between`, `Sample`; `run`, `loop`, `add` | `SpeedTest`, `Transfer`, `NetworkProofs` |
| Connections (`platform/linux/connections.go`, `network/connections.go`, `agent/monitor_connections.go`) | ages of connections, rows | read, attribute, collect, store, deliver | `Connections`, `NetworkProofs` |
| Lateral movement (`lateral/detector.go`) | attempts and reports per process | `Observe` | `Lateral`, `NetworkProofs` |
| Destinations (`destinations/analyzer.go`, `agent/monitor_destinations.go`, `database/store_destinations.go`) | rows, familiar ports, rarity threshold, enrichment queue | `Observe`, enrichment, retention | `Destinations`, `HostProofs` |
| Threat intelligence (`threatintel/*.go`, `agent/monitor_threatintel.go`, `database/store_threat.go`) | indicators, feed status, cache of look-ups | import, expiry, `MatchAddr` | `ThreatIntel`, `HostProofs` |
| Database (`database/db.go`, `schema.go`, `retention.go`, `store_measurements.go`) | the file and its version; measurements and their roll-up | `Open`, `migrate`, `InTx`; `Prune`, `TimeSeries` | `Database`, `Retention`, `HostProofs` |
| Configuration (`config/*.go`, `agent/agent.go`) | the live configuration, what components were built with | `Load`, `Validate`, `Reload` | `Config`, `HostProofs` |
| REST API (`api/*.go`) | hits of the limiter | the test endpoints | `API`, `HostProofs` |
| Service (`service/*.go`, `cmd/ipulse/cmd_service.go`) | the service's state, its agent, the directories | handler, install, start, stop, restart, uninstall | `Service`, `HostProofs` |
| Events catalogue, platform backends, security helpers, the rest of the CLI | | | not modelled, see section 6 |

Collectors are functions run by the **scheduler**, each task on a goroutine of its own
and under a deadline. A collector measures, stores measurements, passes detector input
through **gates**, and emits events to the **logger**. It also publishes samples on the
**bus**, from which one analysis goroutine feeds the **baselines** and the anomaly rules.
The logger fans events out to its sinks and to the **correlation** goroutine. The
connectivity collector runs the **ladder** when an outage begins and writes the
**outage record**; the state-refresh and retention tasks touch the same rows. The API
triggers tasks by hand and otherwise only reads. `Shutdown` joins all of it under one
deadline before it closes what it uses.

### What is hard

* A tracker or gate keeps streaks across steps that may fail, be suppressed, or be
  forgotten by pruning or a restart.
* Memory changes before the statement that records the change, and the statement runs
  under a deadline that the probes may have used up.
* Tasks on different goroutines read, wait, and write what another has changed meanwhile
  (state-refresh, the flush of baselines, the diagnostics task).
* Go's `select` takes any ready case, so stop signals, queued work and timers race.
* Bounded channels drop, time out or block when full.
* A manual request, its caller's patience and the timer of the task interleave freely.

The full list, line by line, is under `hazards` in `PROJECT.json`.

## 2. The modules

**Tracker, Outage, OutageLedger.** `Tracker` is the hysteresis of `tracker.go`: streaks,
`Record`, `Resume`. `Outage` puts it in the collector. One run of `check` is split where
other goroutines or a crash can come in between: the verdict, the ladder, the statement
that opens or closes the row, the update of the snapshot. A failing statement is an
action of its own for each statement whose failure takes a different path
(`CheckLost`, `OpenOutageFails`, `CloseOutageFails`, and `Restore(FALSE)`).
`ReadCurrentOutage` and `PublishCurrentOutage` are the two halves of state-refresh.
`Restart` may happen anywhere and runs `Restore`. `run` is a history variable: the
current run of equal verdicts, which the process cannot forget.
`OutageLedger` is the abstract promise: rows open only after `FailuresToOpen` failures in
a row, only if none is open, close only after `SuccessesToClose` successes in a row,
never reopen, and are deleted only once resolved. `Outage` implements it with the
identity mapping on `outages` and `run`.

**GateState, Gate.** `GateState` is what `Breach` and `Clear` do to one key; `Gate` is
the map with its callers, a clock, `Reset` and `Prune`. Counters are kept only as far as
the code can tell them apart. `DNSMonitor` uses `GateState` for its three gates.

**Ladder.** The rungs of `Diagnose`, climbed against a network chosen at the start;
`MayTimeOut` lets the task's deadline pass at any probe, after which the loops over targets
stop. `ClassifyEvidence` is the decision order of `classify.go`.

**Scheduler.** One task: its goroutine's select, `execute` with the running mark, the
timer (which holds at most one tick and is re-armed only after a scheduled run), and
callers of `Trigger` that may time out, give up or wait for their reply.

**SampleStream, Pipeline.** `SampleStream` is the promise of the bus: batches are seen
once, in order, and lost only when the channel is full. `Pipeline` has tasks that
publish, the analysis goroutine that drains on shutdown, an HTTP handler that may hang
on a task, and the main goroutine's sequence of joins under one deadline.
The mapping puts the batch in hand in front of the channel.

**Baselines.** A baseline is abstracted to how many samples it holds and when it was
last updated: its statistics are functions of the samples. The flush task takes the
marks, saves, and prunes in three steps; retention prunes the table; a restart loads it.

**Logger.** Emitters, the bounded queue with flush requests among the events, the
goroutine with its two loops, and `Close` step by step.

**DNSMonitor.** One action for a cycle that is stored: who answers, who hangs, and what the
three gates decide and the report does with their decisions. One (`NotStored`) for a cycle
whose insert fails, as it does when the resolvers hang until the collector's timeout has
passed: nothing is reported and no gate is told.

**Correlation.** The shipped rules are predicates on a view: what each requires, what speaks
against it, which symptoms it absorbs. Their cooldowns are two constants, one shorter than
the window (the tunnel rule's) and one longer. Around them are the window, the engine and its
task. An event is stamped, waits up to `MaxDelay` in the logger, is stored (or not: then it
has no row) and published into the subscription; samples enter the window at once. The task
drains the subscription one event at a time, while more are published and sampled, and when
it finds none left it trims and evaluates. The conclusion goes back through the logger; the
statement that marks the symptoms is a step of its own.

**Anomaly.** One metric from sample to event. A baseline is the sequence of its samples,
and mean, median and MAD are computed from it, so that a deviation is one of real numbers.
What the sort of `stats.go` is for is said without one: the k-th of the sorted numbers is
`Smallest(s, k)`. `compared` remembers for each instant how many samples its sample was
compared with.
The clock goes round the time buckets; `Prior`, `Best` and `Evaluate` follow the order of
`Samples`, which folds before it chooses a reference.

**Latency.** A prober shared by two tasks. Each target answers over ICMP or TCP or not;
a firewall may drop echo requests of any target from any cycle on.

**PublicIP.** One cycle asks the providers in order, each of which tells the truth, lies or
fails, until one tells what the first of them that answered told; between cycles the
address, the network and the row of the address may change (the last by retention).

**Health.** `Compute` over all combinations of measured and missing components, in
hundredths of a point, with the rounding of the code.

**Interfaces.** A cycle diffs the host's new snapshot, any snapshot, with the last one.
`told` is what a reader of the events alone believes.

**Routing.** Two goroutines take, compare, store and report paths of a network that
reroutes, each in a step of its own that may fail. Any hop may be silent; where that is the
destination's own, the trace goes on and the destination answers one hop further. `way` and
`from` are the routers there were when the two paths that a cycle compares were traced,
`was` those of the path in the newest row.

**SpeedTest, Transfer.** `SpeedTest` puts the tests beside the traffic sampler: what the
agent received itself is taken out of the rate once it is recorded, which is when the test
has ended. `others` and `ours` are what was received since the last sample. `Transfer` is the inside of one test:
streams that request, move, are refused and retry, and the meter with its clock.

**Connections.** Sockets are opened, inherited and released while the two files of
`/proc/net` and then the processes are read, one step each; the collector and the
statement that stores the snapshot follow.

**Lateral.** One process; each step is a snapshot of its sockets.

**Destinations, ThreatIntel.** Collector, enrichment, import, retention and look-ups as
steps of their own, with failing statements; `Destinations` with restarts too. A row of it
is named by its endpoint and its first contact, as an id is never given twice.

**Retention, Database, LogFile.** Each statement of `Prune`, each step of opening and
migrating, each call of a rotation may fail or be the last before a stop. The removals of
`pruneArchives` fail each by itself, and a stop leaves the newest of them done.

**Config.** `Accepted` is `Validate`; `Reload` decides and then copies section by section,
with a task reading in between. Settings that are checked in one way are one field.

**API, Service.** The limiter with its bounded map; the handler and the commands against a
supervisor that restarts, times out and kills, with stops that are not heard and waits that
fail. A removal is three steps: the stop with its wait, the service, the directories. To the
SCM a service that ended with an error is stopped; only systemd has a failed state.

**Detection, Network, Host with MCDetection, MCNetwork, MCHost.** The suites: each
instantiates several of the modules above. `Detection`, `Network` and `Host` leave the
constants open, so that theorems can be stated about them; `MCDetection`, `MCNetwork` and
`MCHost` are the instances of them that TLC checks. The components of a suite share no
variable, so that their product would check each of them again in every state of the others;
the variable `component` therefore picks the one whose steps are taken, and the others rest
in one initial state. A suite checks of each component what a run of its own would.

Definitions named `X_Something` preceded by "Mutant" are not part of the models: each is
a plausible bug in `X`, and a property is worth keeping only if such a bug breaks it.

## 3. What is checked

| Run | Bounds | Shows |
|---|---|---|
| `Outage` | thresholds 2/2, two causes, 2 rows, 2 failed statements, 1 restart | one open row at most; the id names it; an open row is tracked unless a statement failed; `OutageLedger` is implemented; recovery closes the row, and snapshot and status follow the table |
| `Scheduler` | 2 callers, all kinds of task | the mark and the timer are never lost; ticks are run, calls answered, the goroutine ends |
| `Pipeline` | 2 tasks, channel of 2, 4 batches, one API request at a time | order of closing, drain, stream, termination |
| `Baselines` | 2 buckets, 3 samples each, 4 instants, 1 fault, 1 restart | marks, rows, and catching up |
| `Logger` | 2 sinks, queue of 2, 3 events of 2 severities, timeouts | delivery at close, barrier, termination |
| `MCDetection` | see below | what the gate, the ladder, five collectors and the correlation engine report |
| `MCNetwork` | see below | what six network components tell of host and network |
| `MCHost` | see below | what is stored, reloaded, limited and supervised |
| `OutageLostLoss` | no faults at all | **violated**: see section 5 |
| `AnomalyReference` | as in `MCDetection` | **violated**: see section 5 |
| `UnchangedFeed` | as in `MCHost` | **violated**: see section 5 |
| `TestTraffic` | as in `MCNetwork`, without a reset | **violated**: see section 5 |

The properties of the suites:

| Property | Instance | Says |
|---|---|---|
| `DecisionsAreEarned`, `RunsAreDecided`, `RepeatsAreSpaced`, `ReportsEndWithRecovery` | 2 keys, persistence 2, recovery 3, cooldown 0 or 2, 3 instants | decisions of the gate follow from runs of equal observations, none is missed, repeats are spaced, reports end |
| `VerdictIsSound` | 2 literals, 1 endpoint, every network, deadline anywhere | what each verdict may claim |
| `FailuresAreReported` | 3 resolvers, 2 hanging attempts are too many, 6 cycles, any of them not stored | failures and recoveries match what was observed in the cycles that were stored, and enough clean ones leave no gate firing |
| `AnomaliesAreReal` | 2 buckets, 3 values, 7 cycles, deviation rule | reported deviations are of enough samples and beyond the threshold from something seen; sustained use is told, once per interval, and only when sustained |
| `FilteredIsNotLost` | 2 targets, 2 probes, 5 cycles, every method | a firewall is not packet loss, whenever the capability was found out |
| `ChangesAreReal` | 3 providers, 2 addresses, 2 networks, 3 cycles | one liar does not change the address on record |
| `ConclusionsAreFounded`, `SymptomsAreAbsorbed` | 3 kinds of event, loss samples, 3 signals, delays up to 1, window 1, 3 instants, 1 failed statement | absence is real, evidence is fresh and first-hand, symptoms are absorbed |
| `ScoreIsFair` | 3 components, 3 measurements or none each, 4 cycles | nothing unmeasured counts; better measurements never lower the score |
| `EventsTellTheHost` | an interface, a tunnel, a resolver, 1 fault | the events tell routes, tunnels, resolvers and lost links |
| `RouteReportsAreReal` | 1 destination, 2 routers, ways of 1 at most, 2 hops, any of them silent, no tolerance, 3 traces | reported changes of route happened, those of the number of hops too between paths seen whole, and visible ones are reported |
| `OnlyUnrecordedTestsShow` | 2 test tasks, 5 instants, 1 reset | published traffic is what arrived, and nothing of a test that is recorded |
| `MeasurementsAreTrue` | 2 streams, cap of 4 units, warm-up 1, duration 3, 1 retry | what is reported was transferred in the time stated, within the cap |
| `SnapshotIsTrue` | 2 address pairs, 2 processes, 3 changes, 3 instants, 1 fault | attribution, ages, and delivery of stored snapshots |
| `ReportsFollowSockets` | 2 hosts, 2 ports, window and cooldown 2, 3 snapshots | reported patterns are there; those that last are reported |
| `SamplesAreKept` | hours of 2, 7 instants, 1 fault or stop | each sample is a row, in the roll-up or aged, and charted once |
| `DatabaseIsWhole` | 3 processes of 3 builds, one read-only, 2 migrations of 2 statements, 2 faults, 4 openings | versions and batches are whole |
| `RecordsAreKept` | files of 2 records, 1 archive, 6 records, 9 instants, 2 faults | failing rotations, removals and stops lose no record; once a pruning has removed all it was to, the limits have deleted the oldest |
| `ReloadIsSound` | the defaults and six files, 2 edits | only accepted files are applied; sections are whole; restarts are named |
| `ServiceIsHonest` | Windows and systemd, waits of 2, 7 instants, 3 commands, any of their calls failing | running means serving; under systemd stopped means ended well, and a purge under an agent takes a stop that failed |
| `TestsAreLimited` | 2 clients, limit 2 per window of 3, map of 1, 4 requests | the limit holds for a client's tests of one task, and who waits as told is admitted |
| `HistoryIsKept` | 2 endpoints of one address, learning 2, queue of 1, 5 instants, 1 fault, 1 restart | new once, at first contact; a row is enriched, waits for it or was given up |
| `AnswersAreRecent` | 2 addresses, limit 1, cache lifetimes 2 and 1, 5 instants, 2 documents, 1 fault | answers are no staler than the cache's lifetime |

Why the bounds are enough. Thresholds are 2 (the defaults) or 3: below 2 a streak is
never partial, and above 3 nothing new is compared. Two rows, which
retention frees again, allow an outage while an earlier one is still resolved (and the
proofs cover any number). Two faults let a failed close be followed by a
failed open, in either order with a restart. A channel of 2 is full, partly full and
empty; with one batch more than its depth plus the one in hand it overflows. Two callers
contend for the scheduler's one-place channel, and a third only repeats the second. Two
buckets let one be pruned while the other is saved. Three events fill a queue of two and
leave one to be dropped. In `Correlation` three signals satisfy the saturation rule with
none to spare, and the clock runs on for long enough that the first of them leaves the window
and the conclusion comes back. Windows, lifetimes and durations are 1 to 3 units, and each
clock runs past the longest chain of them that one datum can go through: a sample from its
row through the roll-up to its deletion, an indicator from its import through its expiry
to the end of a cached answer. Where a bound is on a map, a queue or a file it is the
smallest that is exceeded: one key, one place, one archive. Three providers are the least
of which two outvote a liar; three processes are a new build, an old one and a reader.

Every property was seen to fail when the definition named for it under `mutants` in
`PROJECT.json` is replaced by the plausible bug named there. Type invariants (`TypeOK`)
say what the variables range over; section 4 says which are proved.

`CHECK_DEADLOCK FALSE` stands in the configurations of systems that really stop: the
agent, the log, a ladder with its verdict, and models whose clock has reached its bound.

### Fairness

* `Outage`: the two tasks keep taking steps. The scheduler re-arms a task's timer after
  every run and every run is bounded by its context (both checked in `Scheduler`).
  Nothing is assumed of faults, restarts, retention or the manual diagnosis.
* `Scheduler`, `Pipeline`, `Logger`: goroutines run and timers fire (weak fairness); a
  `select` that is entered again and again with a case ready takes it eventually (strong
  fairness), which Go's uniform choice among ready cases provides. No caller needs to
  call, and no caller needs to give up. In `Logger` the timeouts of `Flush` are not
  relied on; in `Pipeline` the shutdown deadline is, because a handler may wait for a task
  that has stopped.
* `Baselines`: the flush task keeps running. Samples need not stop by fairness: their
  number is bounded.
* The other runs check safety and action properties and assume nothing.

## 4. What is proved

All proofs are checked by `tlapm` to the last leaf, with no step taken on trust. What each
assumes of the constants is a named `ASSUME` of the module it is about, and TLC evaluates it
in the run of that module or, for the three suites, of their `MC` module. Each theorem has
an inductive invariant; `Init`, one lemma for each action or group of actions, and a last
temporal step.

### Outage

`OutageProofs` proves, for every value of the thresholds, causes, row ids and bounds, from
the assumptions `ThresholdAssumption`, `CausesAssumption` (module `Tracker`) and
`OutageAssumption` (module `Outage`):

| Theorem | Statement |
|---|---|
| `TypeCorrect` | `Spec => []TypeOK` |
| `OutageIDCorrect` | `Spec => []OutageIDIsOpen` |
| `AtMostOneOpen` | `Spec => []OneOpenOutage` |
| `Refinement` | `Spec => ImplementsLedger` |
| `NoStrandedOutage` | `Spec => []OpenRowIsTracked` |

The properties are not inductive: that a row may be opened now depends on the verdicts
that led here. `IInv` adds two facts. `Streaks`: the tracker's streaks never run ahead of
the run of verdicts really observed, and a closed tracker is below its threshold.
`Entitled`: a check that is in its opening branch stands at the end of a long enough run
of failures, and in its closing branch of successes. `Check` is where streaks and run
move together and is the longest lemma; a HEALTHY ladder moves both again; a restart
resets the tracker to something no longer than the run, or resumes it open, where nothing
is claimed of its failure streak. `StepRefinement` then maps each step to one of the
ledger or to a stutter. `NoStrandedOutage` needs a second invariant, `NoStranded`, which
says for each point of a check where an open row may be without an open tracker while no
statement has failed.

### The components of Detection

`DetectionProofs` is about `Detection`: the gate, the ladder, the collectors that decide
through a gate, and correlation. It has a part for each component, laid out alike: the
inductive invariant, the lemmas that its initial states have it and its steps keep it
(`LadderStarts`, `LadderStep`, ...), and the theorem. The theorems of the gate are about `Gate`
alone, which `Detection` extends; the others are about `SuiteSpec`.

The assumptions are `PersistenceAssumption` and `GateAssumption`, and in `Detection`
`CooldownAssumption`, `LadderAssumption`, `DNSAssumption`, `AnomalyAssumption`,
`HealthAssumption`, `LatencyAssumption`, `PublicIPAssumption` and `CorrelationAssumption`:
durations, thresholds and measurements are numbers; sets that are counted are finite; what the
configuration is checked for when it is read is so (weights, buckets, the order of a good and
a bad value). Two theorems have a hypothesis of their own, given in the table.

| Theorem | For every | The invariant |
|---|---|---|
| `GateTypeCorrect`, `GateDecisionsEarned`, `GateRunsDecided`, `GateRepeatsSpaced`, `GateReportsEnd` | set of keys, persistence, recovery persistence, set of cooldowns, clock | per key (`KeyInv`): the streaks in a `gateState` are those of the run of equal observations seen last (`StreakInv`), and the condition is firing exactly while a report is open, with the instant of its last event (`ReportInv`) |
| `SpecVerdictIsSound` | number of literals and endpoints, deadline or none, network | what was seen to work does; what was seen not to work does not, unless the time was up; and an answer from one rung shows that there was time for those below it (`LocalIsSeen`, ..., `EndpointsAreSeen`) |
| `SpecFailuresAreReported` | number of resolvers and attempts, persistence, cooldown | the streaks of the three gates are those of the cycles (`StreaksAreCounted`), a failure that stands reported is owed a recovery (`FiringIsOwed`), and a firing gate has not yet seen enough clean cycles (`CleanIsCleared`) |
| `SpecAnomaliesAreReal` | rule, number of buckets, samples, thresholds, persistence | as many of the last comparisons as the gate counts were of samples beyond the threshold from one seen before (`BreachesAreReal`); a sustained condition dates from the first of the samples since the last below the floor (`SinceIsFirst`), and what has lasted was reported (`ReportIsTimely`) |
| `SpecScoreIsFair`, if `WarnBelow % 10 = 0` | set of components, weights, scales, measurements | the score that stands is that of the last measurements that counted (`HealthInv`) |
| `SpecFilteredIsNotLost` | set of targets, number of probes, threshold, method | a loss that stands reported in auto mode has been answered by as many clear cycles as the targets were reachable (`ReachableIsCleared`, `LossIsNew`) |
| `SpecChangesAreReal`, if `Confirm` and `Providers # 1` | set of addresses and networks, number of providers | no invariant is needed: two answers that agree on an address which is not the host's are two providers that misbehave (`LiarsAreCounted`) |
| `SpecConclusionsAreFounded`, `SpecSymptomsAreAbsorbed` | window, cooldowns, delays, events and samples | the window is in the order of arrival and holds every signal received that is young enough (`WindowIsWhole`); while symptoms are being marked, the match names the rows of all of them (`MatchIsWhole`) |

The gate is argued per key. `BreachOfOneKey` and `ClearOfOneKey` show that the two transitions
keep `KeyInv` for one record; `StoreState` and `ForgetState` lift it to the map. Pruning is
harmless because a firing key is never stale.

The hypotheses are necessary. Without `confirm_changes`, or with one provider, there is no
second answer to ask for. The score is rounded to a tenth, so that with a threshold of 69.91 a
connection all of whose components are at 69.92 scores 69.9 and is reported; only a threshold
in whole tenths, as the default is, excludes this.

The health score and the references of `Anomaly` are sums and medians, which a recursive
definition would compute and no prover here could reason about for every input. The sum of
the weighted scores is a fold over the finite set of components; `SubsetInduction` gives what
is needed of it (`SumOfNumbers`, `SumMonotone`, ...) from a set-valued argument: the set of
subsets for which the fact holds contains the empty one and, with each, those of one element
more. That a deviation is one from a sample really seen needs of the median that at least one
number is no greater (`MedianIsNotLeast`, from `SmallestIsThere`), by the least counterexample
in the same way. The property says so of the deviation rule; with the z-score rule, the
theorem is about sustained use only.

### Scheduler

`SchedulerProofs`, from `SchedulerAssumption` and `CallsAssumption` (the marks for a tick and
for nobody are no calls), for every set of callers and every kind of task:

| Theorem | Statement |
|---|---|
| `SpecTypeOK` | `Spec => []TypeOK` |
| `SpecRunsGoOn` | `Spec => []RunsGoOn`: no run is refused, and the timer is armed, fired or due |
| `SpecNoCallIsForgotten` | a call that waits is queued, being served or answered |
| `SpecAnsweredOnce` | a call is answered once, and the answer stays |

That no run is refused is not inductive without `Marking`: the running mark is set exactly
while the goroutine executes. `Answering` follows a call from the channel to its reply: it is
in one place at a time, and not there before it was made nor after it was answered.

### Sample pipeline and shutdown

`PipelineProofs`, from `PipelineAssumption`, for every set of tasks, depth and number of
batches:

| Theorem | Statement |
|---|---|
| `SpecTypeOK` | `Spec => []TypeOK` |
| `SpecShutdownIsOrderly` | `Spec => []ShutdownIsOrderly` |
| `SpecNothingVanishes` | each published batch is folded, waits or is counted as dropped |
| `SpecInOrder`, `SpecFoldsForward` | what waits is newer than what was folded; folding moves forward |
| `SpecImplementsStream` | `Spec => ImplementsStream`, the refinement of `SampleStream` |

`Joining` says what each stage of the shutdown may rely on while the timeout has not passed
(all tasks are back before the analysis is joined, the analysis before the stores are
closed), and `Left` what the drain leaves: only what was published after the context was
cancelled. `NothingVanishes` counts, so that `InOrder` has to show first that no batch is
met twice. The refinement maps each step to one of the stream, with the batch in hand in
front of the channel.

### Logging engine

`LoggerProofs`, from `LoggerAssumption`, for all sinks, severities, depths and events:

| Theorem | Statement |
|---|---|
| `SpecTypeOK` | `Spec => []TypeOK` |
| `SpecAcceptedIsKept` | `Spec => []AcceptedIsKept` |
| `SpecNoWriteAfterClose` | no sink is written after it was closed |

An accepted event is in the queue or with every sink it must reach (`Kept`); those before a
flush request are ahead of it (`Ahead`); the handshake of `Close` with the goroutine leaves
nothing owed (`Requested`, `Ended`).

### Baselines

`BaselinesProofs`, from `BaselinesAssumption`, for all buckets, ages and bounds:

| Theorem | Statement |
|---|---|
| `SpecTypeOK` | `Spec => []TypeOK` |
| `SpecRowsFollowEngine` | `Spec => []RowsFollowEngine` |
| `SpecRowsInHand` | the rows a flush holds are the live baselines, or earlier states marked again |

A row of the table may be of a baseline that the engine has forgotten since and started
anew. `Generations` tells the two apart; `GenerationsBounded` shows that the bound on
generations in the type excludes no behaviour.

### The components of Host

`HostProofs` is about `Host`, whose components each have an inductive invariant. A step of
`Host` is one of a component or leaves it alone (`ServiceStep`, `DatabaseStep`, ...), so
that each invariant is one of `Host`. The assumptions are in `Host`: `RetentionAssumption`,
`DatabaseAssumption`, `LogAssumption`, `LimiterAssumption`, `HistoryAssumption`,
`IntelAssumption` (durations and limits are numbers; a bucket, the limit and the second of
the limiter are not 0), and `ConfigAssumption` (the defaults are accepted, and each file
has their sections, being decoded over them).

| Theorem | For every | The invariant |
|---|---|---|
| `SpecServiceIsHonest` | platform, timeout, delay, number of commands | there may be an agent only while the supervisor calls the service active, and under systemd a removal whose stop was heard and whose wait is over finds it inactive (`StopHolds`) |
| `SpecDatabaseIsWhole` | number of processes and faults, builds of any age, migrations of any size | a version is recorded with all its statements and without a gap (`VersionsAreWhole`), both halves of a batch are there or none (`BatchesAreWhole`), and a process about to migrate has not read more than there is (`ProcessIsRight`) |
| `SpecAnswersAreRecent` | feed, set of addresses, lifetime | a cached answer is so, or has changed since it was stored (`CacheIsRight`); the result of a query is so, or has changed in the same moment (`LookUpIsRight`) |
| `SpecRecordsAreKept` | size of a file, limit on number and age | the file and the archives hold disjoint, ordered runs of records, also between the steps of a rotation (`FileOk`, `ArchivesOk`); nothing kept is older than what was deleted, except archives beyond the limits that an incomplete pruning has left (`PrunedOk`) |
| `SpecSamplesAreKept` | length of a bucket, ages, range and resolution of a chart | a bucket is rolled up whole before its samples go (`NothingIsLost`), and what is gone is older than what is rolled up (`GoneAreOlder`) |
| `SpecReloadIsSound` | set of files, number of edits | a reload in progress works with a file that was accepted and has noted the sections that differ (`ReloadIsRight`), those sections are live as they were built (`ComparedIsBuilt`), and what is live or was copied is accepted unless the copy was torn (`SettingsAreAccepted`) |
| `SpecHistoryIsKept` | set of endpoints, learning period, depth of the queue, failures, restarts | the rows are those of the known endpoints, and one that is not enriched is among the new ones (`newIDs`), in the queue or given up (`EnrichmentIsPending`) |
| `SpecTestsAreLimited` | clients, tasks, limit, window, size of the map | the limiter holds at least as many times of a key within the window as tests of it were started there (`StartedAreHeld`), so that a started test is one of at most `Limit` in the window that ends with it (`WithinLimit`); a refusal names a time after the oldest has left the window (`ToldIsLate`) |

The limiter forgets keys, and drops from a key what has left the window. What makes that
harmless is that `StartedAreHeld` speaks of every window from now on: a key is forgotten only
once its last time has left them all. `LimiterInvIsEnough` then takes any two tests of the
property, and shows that those of their key between them lie in the window that ends with
the last of them.

Sets with a greatest or least element are used in several of these proofs (the newest
migration, the first time in a window). `LeastNatural` and `GreatestNatural` derive them from
the well-foundedness of the naturals, without an induction over data.

### The components of Network

`NetworkProofs` is laid out like `HostProofs`: an inductive invariant for each component, and
one lemma (`InterfacesStep`, `RoutingStep`, ...) that the steps of all of them keep it. The
assumptions are in `Network`: `RoutingAssumption` (there is a destination, which is no router
on the way to it), `SpeedAssumption` (rates and times are numbers, and a record is kept for
some time: `NewSelfTraffic` replaces a retention of 0 or less), `TransferAssumption`,
`ConnectionsAssumption` and `LateralAssumption` (sets of streams and sockets are finite; a
threshold, and the cooldown, are not 0).

| Theorem | For every | The invariant |
|---|---|---|
| `SpecEventsTellTheHost` | set of links, tunnels, resolvers, wireless networks and failing rows | `EventsTellTheHost` is inductive; the lemmas show that the changes of one snapshot do not hide each other: there is one of each kind at most, but for those of the links (`OneOfAKind`), and each link has at most one of its own |
| `SpecRouteReportsAreReal` | set of routers, number of destinations and hops, tolerance, silent hops | both paths that a cycle compares show the ways they were traced along, but for what was silent (`CyclesAreTraced`); the row is a path of the way noted for it (`RowsAreTraced`); a path of which every hop answered is the whole way (`WholePath`) |
| `SpecOnlyUnrecordedTestsShow` | set of tasks that test, rates, warm-up, retention, resets | a test at a time (`OneTestRuns`); its transfer takes time and lies in the past (`TestsTakeTime`); the counter has grown by what was received since the last sample, and the agent's own part of that is of a test under way, recorded or failed since then (`OthersAreCounted`) |
| `SpecMeasurementsAreTrue` | number of streams, cap, warm-up, duration, retries, size of a request | what is counted and what is being added is together what was transferred since the measurement began, but for a buffer per stream that was being added then (`Counting`); the total is beyond the cap by one buffer at most of each stream that has moved since (`CapIsKept`) |
| `SpecSnapshotIsTrue` | endpoints, processes, bound on the connections, hidden and ignored processes, failures | a holder of a socket is remembered as one (`HoldersAreHeld`, `RawIsHeld`, `LatestIsHeld`); a key is first seen after every sample it was not in (`AgesAreSeen`); the row of a key is no younger (`RowsAreOlder`) |
| `SpecReportsFollowSockets` | set of sockets, thresholds, window, cooldown | the attempts are those of the sockets in the snapshots of the window, all of them and no others (`AttemptsAreRecent`, `RecentAreAttempts`); a mark stands for a report at its time (`MarksWereTold`); and what is found was told within the cooldown (`FindingsAreTold`) |

`SampleIsTrue` shows why a recorded test does not show: a sample that overlaps its transfer
is not published at all, so that where one is published there is nothing to subtract. That sum of shares is a fold over the records. `NoShare` shows that it is 0 when
each share is, by a least counterexample instead of an induction over data.

### Only model-checked

* Liveness and termination (`EveryoneIsServed`, `ShutdownCompletes`, `CloseIsFinal`,
  `TableCatchesUp`, `RecoverySettles`): TLAPS does not reach fairness and `ENABLED`.
* The claims that runs show violated, of course, and those listed in section 5.

## 5. Where the code departs from its documentation

Found by runs that expect a violation (`findings` in `PROJECT.json`):

* `OutageLostLoss` - after a HEALTHY diagnosis, `openOutage` feeds one success into the
  tracker, which closes it only if `successes_before_recovery` is 1. With the default of
  2 the tracker stays open without a row, so the failures that follow open no outage.
* `AnomalyReference` - a sample is folded before its reference is chosen, so while the
  bucket of the hour is young it is compared with an aggregate that contains it.
* `UnchangedFeed` - an unchanged feed refreshes its own status and not the last-seen times
  of its indicators, which expire and, as the ETag is kept, stay away.
* `TestTraffic` - a speed test is put on record when it has ended, so the samples taken while
  it runs are stored and published with its bytes, although the comments at
  `monitor_traffic.go:99-101` and `monitor_speedtest.go:21-23` say that it can never produce a
  traffic anomaly. `OnlyUnrecordedTestsShow` is what does hold.

The following claims are stated in the modules and violated in the same way; no run
repeats it. To see one, check it with the constants of the instance in the suite, or with
those given here.

| Claim | Module | What the code does |
|---|---|---|
| `FailureRecoveryIsReported` | `DNSMonitor` | a partial failure clears the failure gate and ignores its decision: no recovery is reported if it is the last clear |
| `SaturationClearsTheProvider` | `Correlation`; as in `MCDetection` without delay, faults and suppression, `MaxSignals` 4, `MaxTime` 3 | the engine's conclusions never enter its window, so a transfer that saturation explained is blamed on the provider once the burst has left |
| `ChangesAreConfirmed` | `PublicIP` | retention deletes the row of an old address, and the first answer after that needs no confirmation |
| `WorstIsTheLowest` | `Health` | an unrounded score is compared with a rounded one |
| `OneTargetIsNotTheConnection` | `Latency` | the loss rule sums the probes of all targets |
| `AdminSweepsFail`, `FailuresAreAttempts` | `Lateral` | failures of any port count; a socket that stays in SYN_SENT is another attempt in each snapshot |
| `FailedTestsAreNotTraffic` | `SpeedTest` | a test that fails in its warm-up totals zero bytes and is not recorded |
| `CappedRatesAreTrue` | `Transfer`, `Warmup` 3, `Duration` 4 | a cap reached early in the warm-up is divided by all of it |
| `ReusedTuplesAreNotMerged` | `Connections`, `Hidden` {1, 2} | sockets that cannot be attributed share pid 0 and a row |
| `RareIsRare` | `Destinations` | the look-up finds only the newest row of an address |
| `NotModifiedWasImported` | `ThreatIntel`, `ExpireAfter` 4 | a failed import stores the new ETag, and the document is never imported |
| `AppliedIsUsed`, `WhatIsNotAppliedIsNamed` | `Config` | the baseline engine and the lateral detector keep the settings they were built with; sections that are not applied are not listed |
| `RotationFailuresLoseNothing`, `ArchivesAreDistinct` | `LogFile` | a failed `Close` leaves the sink on a closed file for good; a second rotation in a second replaces the first archive |
| `ReadOnlyNeverWrites` | `Database` | a read-only opening creates `schema_migrations` |
| `RollUpIsIdempotent` | `Retention` | a run cut short between roll-up and deletion counts rows twice |
| `PurgeWaitsForTheAgent` | `Service` | a stop that fails is ignored (`service_linux.go:86`), on Windows also one that is not accepted and a wait that runs out, and a purge may precede the agent's end |
| `StoppedMeansWell` | `Service` | on Windows the return of an error is reported stopped like a good end, and the SCM does not restart it: the recovery actions apply to failures that are not crashes only with a flag that is not set |
| `OldestGoFirst` | `LogFile` | archives are removed from the newest of those to go, each failure ignored: an older one may stay where a newer one is gone |
| `HopCountChangesAreReal` | `Routing` | a destination silent at its own hop answers one further: the number of hops changes while the route does not |

The limiter of `API` counts per client and task, where docs/api.md:274-275 says per client.

Read in the code while modelling, and visible in the models as the behaviour they have:

* A failed INSERT in `openOutage`, or UPDATE in `closeOutage`, is not retried: the loss
  stays unrecorded, or the row open until the next outage or restart. This is why
  `OpenRowIsTracked` and the first half of `RecoverySettles` are stated for runs without
  failed statements. The second half is not: what the dashboard shows agrees with the
  table even then.
* A repeated diagnosis during an outage changes the snapshot only, although the comment
  at `monitor_connectivity.go:138` says that it refines the record.
* The cooldown of a gate applies only while its condition is firing: after a recovery it
  fires again at once. `firstBreach` restarts with each flap, so a recovery may report
  less than the whole duration. `Cooldown` and persistence are fixed at construction,
  although `gate.go:11` speaks of a reload.
* A ladder cut off by its deadline takes what it has not tested for unreachable
  (`BlameIsSound` therefore judges the gateway only for a ladder that had its time). `ISP_OUTAGE` is concluded
  without asking the HTTPS endpoints, `HEALTHY` with one of them, and the loopback result
  reaches no verdict.
* The tick that fires during a manual run is served afterwards, not skipped; the
  `already running` branch of `execute` is unreachable (`NeverRefused`); a request queued
  when the goroutine returns is neither run nor refused; `Consecutive` of COLLECTOR_ERROR
  counts all failures since start-up.
* The analysis goroutine may find the sample channel empty and return while tasks cancelled
  at the same moment still publish, so the last batches of a shutdown can be lost although
  `bus.go:62` and `agent.go:341` say otherwise. `EarlierSamplesAreKept` is what does hold.
* A rule that is cooling down is skipped, so the next one judges the same symptoms without
  it; `rules.go:55-56` says that a specific cause is never masked by a general one. The
  symptoms then carry the later conclusion's correlation id.
* The window drops only a prefix of its signals, so that an event which arrived behind a
  younger one is kept for longer than the window (`EvidenceIsFresh` therefore counts from
  the arrival). Cooldowns are lost on restart. Symptoms are marked as absorbed although the
  conclusion, which is emitted first, may still be dropped by a full log queue.
* A full sample channel drops the newest batch, where the comment says the oldest.
* No part of a shutdown flushes the baselines, so a restart loses up to one flush
  interval of samples; a baseline pruned from memory comes back from its row if the
  process restarts before retention deletes the row.
* `Emit` after `Close` queues events that nobody reads, uncounted. `SetLevel` writes a
  field that the goroutine reads without synchronisation (the model lets it see either).
* DNS: resolvers that hang until the collector's timeout has passed are never reported, even
  if none answers: the insert at `monitor_dns.go:92` fails on the expired context and `report`
  is not reached. docs/event-catalog.md:580 says that a resolution is reported that "failed or
  timed out on all configured resolvers". `FailuresAreReported` is about stored cycles only.

* Interfaces: the return of a lost carrier is not reported; the address and wireless state
  are not cleared when their interface goes. A cycle whose rows fail has taken its snapshot
  all the same, so that what it would have told is lost; `EventsTellTheHost` leaves that out.
* Routing: overlapping runs report one change twice, or an old path as new; a drift below the
  tolerance is never reported; a change whose row is stored and whose measurement then fails
  (`monitor_routing.go:113`) is lost for good. The model reads the way at one instant of a trace.
* Traffic: the rate in the runtime state, which holds back a test on a busy link, contains a
  running test too.
* Destinations, threat intelligence: an import cut short by its context returns before it
  invalidates the cache; a look-up that began before the import may store its answer after
  it. `AnswersAreRecent` bounds how long that lasts.
* Connections: a table that is cut to its maximum, or a file that could not be read, drops
  connections and forgets their age.
* Configuration: a missing or empty file on reload applies the defaults; the channel of
  `ReloadRequests` is read by nobody; many checks are
  skipped in disabled sections. Reads during the copy of a reload may be torn; `ReloadIsSound`
  is about the others.
* Service: the agent tells systemd that it is stopping after it has stopped; no
  `WatchdogSec` is installed, so the watchdog never runs; a restart that times out leaves
  the service stopped; `uninstall` says that data were deleted whatever happened. What
  systemd calls activating while it waits to restart a unit is "failed" in the model.
* Log files: a compressed copy that is not whole counts as an archive.
* Database: processes that open a new file at once may find it locked, and fail;
  incremental vacuum is enabled after the tables exist, where it has no effect.
* A refused upload's bytes count as transferred.

## 6. What is not modelled, and why

Operating-system backends (`internal/platform`, but for the socket tables of Linux),
sockets and wire formats, the events catalogue, the dashboard, the read-only queries of the
API and the rest of the CLI are I/O, tables or text: no property of theirs depends on an
order of steps. Each partly modelled component says in `PROJECT.json` what it leaves out:
mostly fields of events, formats, and rules that repeat the shape of a modelled one over
the same gate (latency and wireless quality, outbound volume, fan-out). Percentiles and
the reservoir of a baseline are left out because no rule that is modelled reads them;
the periodic analysis of traffic is statistics over intervals.

Supervisors, SQLite's locking, the kernel's sockets, the network and the threat-feed and
address servers are outside the repository; they are modelled from how the code uses them
(`external` in the map).

The data races on `lastConnections` (`monitor_anomaly.go:595`) and `minSev`
(`logger.go:363`) let a goroutine see an old value; no property depends on which.

## 7. Plan

Done: all modules of section 1, their runs, and the proofs of section 4. Next, in this order:

1. The rules left out: wireless quality, outbound volume, destination fan-out, the second
   family of public addresses, degradation of speed tests.
2. Composition: the DNS, latency and interface collectors with the correlation engine, so
   that a diagnosis is checked against the fault of the network that caused it.
