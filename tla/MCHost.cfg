SPECIFICATION Spec
\* The components stop at their bounds.
CHECK_DEADLOCK FALSE
CONSTANTS
    Hour = 2
    MeasurementsDays = 2
    AggregatesDays = 4
    RetentionMaxTime = 6
    RetentionMaxFaults = 1
    Processes = {1, 2, 3}
    ReadOnly = {3}
    Latest <- MCLatest
    NumStatements = 2
    MaxBatches = 1
    MaxOpens = 4
    DatabaseMaxFaults = 2
    MaxBytes = 2
    MaxArchives = 1
    MaxAge = 4
    Compress = TRUE
    LogSecond = 2
    Day = 5
    MaxRecords = 6
    LogMaxTime = 8
    LogMaxFaults = 2
    Default <- Defaults
    Files <- Edited
    MaxEdits = 2
    Platforms = {"windows", "systemd"}
    StopTimeout = 2
    RecoveryDelays <- MCRecoveryDelays
    RestartSec = 1
    ServiceMaxTime = 6
    MaxCommands = 3
    Clients = {"local", "lan"}
    Local = {"local"}
    AllowRemoteTests = FALSE
    Tasks = {"speed", "route"}
    Registered = {"speed"}
    Limit = 2
    Window = 3
    MaxKeys = 1
    APISecond = 2
    APIMaxTime = 5
    MaxRequests = 4
    Endpoints = {"a80", "a443"}
    AddressOf <- MCAddressOf
    PortOf <- MCPortOf
    ExpectedPorts = {443}
    FamiliarAfter = 2
    Learning = 2
    NewWindow = 2
    ReportEvery = 2
    RarityEvery = 1
    MinHistory = 2
    Rank = 1
    RowsLive = 1
    QueueSize = 1
    HistoryMaxTime = 4
    HistoryMaxFaults = 1
    MaxRestarts = 1
    Addresses = {"a", "b"}
    Documents <- MCDocuments
    MaxIndicators = 1
    ExpireAfter = 2
    CacheTTL = 2
    NegativeTTL = 1
    Cooldown = 1
    IntelMaxTime = 4
    MaxVersions = 2
    IntelMaxFaults = 1
INVARIANTS
    SamplesAreKept
    DatabaseIsWhole
    RecordsAreKept
    
    TestsAreLimited
    AnswersAreRecent
PROPERTIES
    ReloadIsSound
    HistoryIsKept
