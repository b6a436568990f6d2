SPECIFICATION Spec
\* The components stop at their bounds.
CHECK_DEADLOCK FALSE
CONSTANTS
    Names = {"eth", "tun"}
    Tunnels = {"tun"}
    Resolvers = {"d1"}
    Networks = {}
    InterfacesMaxFaults = 1
    Destinations = 1
    Routers = {"r1", "r2"}
    MaxHops = 2
    Tolerance = 0
    MaxRouters = 1
    MaxTraces = 3
    TestTasks = {"full", "manual"}
    TestRate = 2
    TestWarmup = 1
    BusyRate = 1
    Retain = 2
    SpeedMaxTime = 4
    MaxResets = 1
    Streams = {"s1", "s2"}
    Warmup = 1
    Duration = 3
    MaxBytes = 4
    Chunk = 2
    MaxRetries = 1
    Endpoints = {"four", "six"}
    V6 = {"six"}
    NumPids = 2
    Hidden = {}
    IgnoreProcesses = {1}
    MaxConnections = 1
    MaxChanges = 3
    ConnectionsMaxTime = 2
    ConnectionsMaxFaults = 1
    Sockets <- MCSockets
    AdminPorts = {22}
    Window = 2
    Cooldown = 2
    HostSweepThreshold = 2
    PortScanThreshold = 2
    FailedThreshold = 2
    AdminSweepHosts = 2
    LateralMaxTime = 3
INVARIANTS
    EventsTellTheHost
    MeasurementsAreTrue
    SnapshotIsTrue
    ReportsFollowSockets
PROPERTIES
    RouteReportsAreReal
    OnlyUnrecordedTestsShow
