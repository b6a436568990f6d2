SPECIFICATION SuiteSpec
\* Collectors stop at their bounds; a ladder ends with its verdict.
CHECK_DEADLOCK FALSE
CONSTANTS
    Persistence = 2
    RecoveryPersistence = 3
    Cooldown = 2
    \* Gate
    Keys = {k1, k2}
    Cooldowns = {0, 2}
    MaxTime = 3
    \* Ladder
    Literals = 2
    Endpoints = 1
    MayExpire = TRUE
    \* DNSMonitor
    Resolvers = 3
    Attempts = 2
    SlowRule = TRUE
    DNSMaxTime = 7
    \* Anomaly
    Rule = "deviation"
    Buckets = 2
    Values = {0, 10, 30}
    Threshold = 50
    MinAbsolute = 20
    MinObservations = 2
    Floor = 20
    MinDuration = 2
    Repeat = 2
    AnomalyMaxTime = 8
    \* Health
    Components = {1, 2, 3}
    Throughput = {3}
    Weight <- MCWeight
    Good <- MCGood
    Bad <- MCBad
    Measures = {1000, 4492, 4494}
    WarnBelow = 6000
    HealthMaxTime = 5
    \* Latency
    Targets = {"t1", "t2"}
    Probes = 2
    LossPercent = 20
    LatencyMaxTime = 6
    \* PublicIP
    Addresses = {1, 2}
    Providers = 3
    Networks = {7, 8}
    Confirm = TRUE
    PublicIPMaxTime = 4
    \* Correlation
    Window = 1
    TunnelCooldown = 1
    RuleCooldown = 2
    SuppressContributing = TRUE
    Symptoms = {"BANDWIDTH_SPIKE_UPLOAD", "LATENCY_DEGRADATION", "DOWNLOAD_DEGRADATION"}
    Samples = {"loss >= 1%"}
    MaxDelay = 1
    MaxSignals = 3
    MaxFaults = 1
    CorrelationMaxTime = 3
INVARIANTS
    DecisionsAreEarned
    RunsAreDecided
    VerdictIsSound
    AnomaliesAreReal
    FilteredIsNotLost
PROPERTIES
    RepeatsAreSpaced
    ReportsEndWithRecovery
    FailuresAreReported
    ScoreIsFair
    ChangesAreReal
    ConclusionsAreFounded
    SymptomsAreAbsorbed
