-------------------------------- MODULE Host ---------------------------------
(***************************************************************************)
(* What is kept and what surrounds the collectors: the database,           *)
(* retention, the destination and threat histories, the log files,         *)
(* configuration, the service and the API. They share no variable: a       *)
(* behaviour is that of one of the components, and the others rest in      *)
(* their initial states.                                                   *)
(***************************************************************************)
EXTENDS Integers, Sequences, FiniteSets

CONSTANTS
    \* Retention
    Hour, MeasurementsDays, AggregatesDays, RetentionMaxTime, RetentionMaxFaults,
    \* Database
    Processes, ReadOnly, Latest, NumStatements, MaxBatches, MaxOpens, DatabaseMaxFaults,
    \* LogFile
    MaxBytes, MaxArchives, MaxAge, Compress, LogSecond, Day, MaxRecords, LogMaxTime,
    LogMaxFaults,
    \* Config
    Default, Files, MaxEdits,
    \* Service
    Platforms, StopTimeout, RecoveryDelays, RestartSec, ServiceMaxTime, MaxCommands,
    \* API
    Clients, Local, AllowRemoteTests, Tasks, Registered, Limit, Window, MaxKeys, APISecond,
    APIMaxTime, MaxRequests,
    \* Destinations
    Endpoints, AddressOf, PortOf, ExpectedPorts, FamiliarAfter, Learning, NewWindow,
    ReportEvery, RarityEvery, MinHistory, Rank, RowsLive, QueueSize, HistoryMaxTime,
    HistoryMaxFaults, MaxRestarts,
    \* ThreatIntel
    Addresses, Documents, MaxIndicators, ExpireAfter, CacheTTL, NegativeTTL, Cooldown,
    IntelMaxTime, MaxVersions, IntelMaxFaults

\* A bucket has a length, and ages and times are numbers.
ASSUME RetentionAssumption ==
  /\ Hour \in Nat \ {0} /\ MeasurementsDays \in Nat /\ AggregatesDays \in Nat
  /\ RetentionMaxTime \in Nat

\* What a build knows are the versions up to its newest.
ASSUME DatabaseAssumption == Latest \in [Processes -> Nat] /\ NumStatements \in Nat

\* The limits of the archives are a number and an age; with 0 there is none.
ASSUME LogAssumption == MaxArchives \in Nat /\ MaxAge \in Nat

\* The limiter admits something, and its window and the header count time.
ASSUME LimiterAssumption == Limit \in Nat \ {0} /\ Window \in Nat /\ APISecond \in Nat \ {0}

\* There are finitely many endpoints, and learning takes a time.
ASSUME HistoryAssumption ==
  IsFiniteSet(Endpoints) /\ Learning \in Nat /\ QueueSize \in Nat

\* The lifetimes of cached answers are durations.
ASSUME IntelAssumption == CacheTTL \in Nat /\ NegativeTTL \in Nat

VARIABLES
    component,   \* the one that runs in this behaviour
    raw, summed, retentionNow, prune, downsample, taken, aged, retentionFaults,
    exists, tracked, versions, content, lock, at, cur, pending, batches,
    databaseFaults, opens,
    handle, day, rotations, logFileFile, archives, last, logFileNow, logFileFaults,
    written, pruned, replaced, refused, swept,
    configFile, live, built, reload, report, task, edits,
    platform, installed, state, agent, since, recoveries, wanted, data, command,
    serviceNow, commands, result, spoiled,
    hits, apiNow, requests, apiAnswer, started, told, misled,
    table, historyReported, ports, rarity, start, newIDs, queue, cycle, historyNow,
    historyFaults, restarts, known, lost,
    server, status, indicators, importing, cache, looking, intelReported,
    intelAnswer, intelNow, intelFaults, changed

retentionVars == <<raw, summed, retentionNow, prune, downsample, taken, aged,
    retentionFaults>>
databaseVars == <<exists, tracked, versions, content, lock, at, cur, pending,
    batches, databaseFaults, opens>>
logFileVars == <<handle, day, rotations, logFileFile, archives, last, logFileNow,
    logFileFaults, written, pruned, replaced, refused, swept>>
configVars == <<configFile, live, built, reload, report, task, edits>>
serviceVars == <<platform, installed, state, agent, since, recoveries, wanted, data,
    command, serviceNow, commands, result, spoiled>>
apiVars == <<hits, apiNow, requests, apiAnswer, started, told, misled>>
historyVars == <<table, historyReported, ports, rarity, start, newIDs, queue, cycle,
    historyNow, historyFaults, restarts, known, lost>>
intelVars == <<server, status, indicators, importing, cache, looking, intelReported,
    intelAnswer, intelNow, intelFaults, changed>>

Retention == INSTANCE Retention WITH
    MaxTime <- RetentionMaxTime, MaxFaults <- RetentionMaxFaults, now <- retentionNow,
    faults <- retentionFaults

Database == INSTANCE Database WITH MaxFaults <- DatabaseMaxFaults, faults <- databaseFaults

LogFile == INSTANCE LogFile WITH
    RetentionTime <- MaxAge, Second <- LogSecond, MaxTime <- LogMaxTime,
    MaxFaults <- LogMaxFaults, file <- logFileFile, now <- logFileNow,
    faults <- logFileFaults

Config == INSTANCE Config WITH file <- configFile

Service == INSTANCE Service WITH MaxTime <- ServiceMaxTime, now <- serviceNow

\* The defaults are accepted, and a file is decoded over them: it has their sections.
ASSUME ConfigAssumption ==
  /\ Config!Accepted(Default) /\ Config!Reported \cup {"health"} \subseteq DOMAIN Default
  /\ \A f \in Files : DOMAIN f = DOMAIN Default

API == INSTANCE API WITH
    Second <- APISecond, MaxTime <- APIMaxTime, now <- apiNow, answer <- apiAnswer

Destinations == INSTANCE Destinations WITH
    RetentionTime <- RowsLive, MaxTime <- HistoryMaxTime, MaxFaults <- HistoryMaxFaults,
    reported <- historyReported, now <- historyNow, faults <- historyFaults

ThreatIntel == INSTANCE ThreatIntel WITH
    MaxTime <- IntelMaxTime, MaxFaults <- IntelMaxFaults, reported <- intelReported,
    answer <- intelAnswer, now <- intelNow, faults <- intelFaults

vars == <<component, retentionVars, databaseVars, logFileVars, configVars,
    serviceVars, apiVars, historyVars, intelVars>>

Init ==
    /\ component \in {"retention", "database", "logFile", "config", "service",
        "api", "history", "intel"}
    /\ Retention!Init /\ (component # "retention" => downsample)
    /\ Database!Init
    /\ LogFile!Init
    /\ Config!Init /\ (component # "config" => live = Default /\ configFile.kind = "decoded")
    /\ Service!Init /\ (component # "service" => platform = "systemd")
    /\ API!Init
    /\ Destinations!Init
    /\ ThreatIntel!Init /\ (component # "intel" => server.doc = CHOOSE doc \in Documents : TRUE)

Next ==
    \/ /\ component = "retention" /\ Retention!Next
       /\ UNCHANGED <<component, databaseVars, logFileVars, configVars, serviceVars,
        apiVars, historyVars, intelVars>>
    \/ /\ component = "database" /\ Database!Next
       /\ UNCHANGED <<component, retentionVars, logFileVars, configVars,
        serviceVars, apiVars, historyVars, intelVars>>
    \/ /\ component = "logFile" /\ LogFile!Next
       /\ UNCHANGED <<component, retentionVars, databaseVars, configVars,
        serviceVars, apiVars, historyVars, intelVars>>
    \/ /\ component = "config" /\ Config!Next
       /\ UNCHANGED <<component, retentionVars, databaseVars, logFileVars,
        serviceVars, apiVars, historyVars, intelVars>>
    \/ /\ component = "service" /\ Service!Next
       /\ UNCHANGED <<component, retentionVars, databaseVars, logFileVars,
        configVars, apiVars, historyVars, intelVars>>
    \/ /\ component = "api" /\ API!Next
       /\ UNCHANGED <<component, retentionVars, databaseVars, logFileVars,
        configVars, serviceVars, historyVars, intelVars>>
    \/ /\ component = "history" /\ Destinations!Next
       /\ UNCHANGED <<component, retentionVars, databaseVars, logFileVars,
        configVars, serviceVars, apiVars, intelVars>>
    \/ /\ component = "intel" /\ ThreatIntel!Next
       /\ UNCHANGED <<component, retentionVars, databaseVars, logFileVars,
        configVars, serviceVars, apiVars, historyVars>>

Spec == Init /\ [][Next]_vars

-----------------------------------------------------------------------------
\* Retention neither loses nor repeats a sample: each is a row, in the roll-up, or
\* too old, and a chart shows it once (DB.Prune, downsampleMeasurements,
\* TimeSeries).
SamplesAreKept == Retention!SamplesAreKept

\* With several processes opening the file and stopping anywhere, each recorded
\* version has all its statements and each batch is whole (DB.migrate, DB.InTx).
DatabaseIsWhole == Database!DatabaseIsWhole

\* No failure of a rotation loses a log record, and what a failed removal left behind
\* goes before anything newer is kept for good (rotatingFile.rotate, pruneArchives).
RecordsAreKept == LogFile!RecordsAreKept

\* A reload applies only what was accepted, and names the sections that need a
\* restart (Agent.Reload, Validate).
ReloadIsSound == Config!ReloadIsSound

\* The service is running only while the agent serves; and systemd's is stopped only
\* after it ended well, and purged under an agent only when systemctl failed to stop it
\* (Execute, runService, Uninstall).
ServiceIsHonest == Service!ServiceIsHonest

\* No client starts a task's test more often than the limit in any window, and one that
\* waits as it was told is admitted (rateLimiter.allow).
TestsAreLimited == API!TestsAreLimited

\* A destination is called new once, at its first contact, and none that is to be
\* enriched is forgotten, across failures and restarts (Analyzer.Observe).
HistoryIsKept == Destinations!HistoryIsKept

\* A look-up answers as the indicators were within the lifetime of a cached answer,
\* whatever imports and invalidations do meanwhile (Matcher.MatchAddr).
AnswersAreRecent == ThreatIntel!AnswersAreRecent

=============================================================================
