------------------------------ MODULE Network -------------------------------
(***************************************************************************)
(* The collectors that watch the network of the host, and the tests of its *)
(* speed.  They share no variable: a behaviour is that of one of the       *)
(* components, and the others rest in their initial states.                *)
(***************************************************************************)
EXTENDS Integers, Sequences, FiniteSets

CONSTANTS
    \* Interfaces
    Names, Tunnels, Resolvers, Networks, InterfacesMaxFaults,
    \* Routing
    Destinations, Routers, MaxHops, Tolerance, MaxRouters, MaxTraces,
    \* SpeedTest
    TestTasks, TestRate, TestWarmup, BusyRate, Retain, SpeedMaxTime, MaxResets,
    \* Transfer
    Streams, Warmup, Duration, MaxBytes, Chunk, MaxRetries,
    \* Connections
    Endpoints, V6, NumPids, Hidden, IgnoreProcesses, MaxConnections, MaxChanges,
    ConnectionsMaxTime, ConnectionsMaxFaults,
    \* Lateral
    Sockets, AdminPorts, Window, Cooldown, HostSweepThreshold, PortScanThreshold,
    FailedThreshold, AdminSweepHosts, LateralMaxTime

\* There is a destination, which is none of the routers on the way to it.
ASSUME RoutingAssumption ==
  /\ Destinations \in Nat \ {0} /\ MaxHops \in Nat /\ Tolerance \in Nat
  /\ MaxRouters \in Nat
  /\ "destination" \notin Routers

\* A record of a transfer is kept for some time.
ASSUME SpeedAssumption == TestRate \in Nat /\ TestWarmup \in Nat /\ Retain \in Nat \ {0}

\* Times and sizes are numbers; a cap of 0 is none.
ASSUME TransferAssumption ==
  /\ IsFiniteSet(Streams) /\ Warmup \in Nat /\ MaxBytes \in Nat /\ Chunk \in Nat

\* Processes have numbers; 0 is none of them.
ASSUME ConnectionsAssumption == NumPids \in Nat

\* A socket is told by its host and port, and no threshold is met by nothing.
ASSUME LateralAssumption ==
  /\ IsFiniteSet(Sockets) /\ \A s \in Sockets : s = [host |-> s.host, port |-> s.port]
  /\ Window \in Nat /\ Cooldown \in Nat \ {0}
  /\ HostSweepThreshold \in Nat \ {0} /\ PortScanThreshold \in Nat \ {0}
  /\ FailedThreshold \in Nat \ {0} /\ AdminSweepHosts \in Nat \ {0}

VARIABLES
    component,   \* the one that runs in this behaviour
    interfacesPrev, state, told, missed, interfacesFaults,
    network, next, work, routingRows, report, was,
    speedNow, counter, speedPrev, busy, task, running, windows, published, others,
    ours, failed, resets,
    upload, transferNow, start, transferPhase, stream, moved, total, counted,
    capHit, result, atStart, atEnd, reached,
    sockets, connectionsPhase, pid, raw, broken, firstSeen, latest, connectionsRows,
    connectionsNow, changes, connectionsFaults, held, collected,
    attempts, reported, lateralNow, snapshots

interfacesVars == <<interfacesPrev, state, told, missed, interfacesFaults>>
routingVars == <<network, next, work, routingRows, report, was>>
speedVars == <<speedNow, counter, speedPrev, busy, task, running, windows,
    published, others, ours, failed, resets>>
transferVars == <<upload, transferNow, start, transferPhase, stream, moved, total,
    counted, capHit, result, atStart, atEnd, reached>>
connectionsVars == <<sockets, connectionsPhase, pid, raw, broken, firstSeen, latest,
    connectionsRows, connectionsNow, changes, connectionsFaults, held, collected>>
lateralVars == <<attempts, reported, lateralNow, snapshots>>

Interfaces == INSTANCE Interfaces WITH
    MaxFaults <- InterfacesMaxFaults, prev <- interfacesPrev, faults <- interfacesFaults

Routing == INSTANCE Routing WITH rows <- routingRows

SpeedTest == INSTANCE SpeedTest WITH
    Tasks <- TestTasks, Warmup <- TestWarmup, MaxTime <- SpeedMaxTime,
    now <- speedNow, prev <- speedPrev

Transfer == INSTANCE Transfer WITH now <- transferNow, phase <- transferPhase

Connections == INSTANCE Connections WITH
    MaxTime <- ConnectionsMaxTime, MaxFaults <- ConnectionsMaxFaults,
    phase <- connectionsPhase, rows <- connectionsRows,
    now <- connectionsNow, faults <- connectionsFaults

Lateral == INSTANCE Lateral WITH MaxTime <- LateralMaxTime, now <- lateralNow

vars == <<component, interfacesVars, routingVars, speedVars, transferVars,
    connectionsVars, lateralVars>>

Init ==
    /\ component \in {"interfaces", "routing", "speed", "transfer", "connections",
        "lateral"}
    /\ Interfaces!Init
    /\ Routing!Init /\ (component # "routing" => network = [d \in Routing!Dests |-> <<>>])
    /\ SpeedTest!Init
    /\ Transfer!Init /\ (component # "transfer" => ~upload)
    /\ Connections!Init
    /\ Lateral!Init

Next ==
    \/ /\ component = "interfaces" /\ Interfaces!Next
       /\ UNCHANGED <<component, routingVars, speedVars, transferVars,
        connectionsVars, lateralVars>>
    \/ /\ component = "routing" /\ Routing!Next
       /\ UNCHANGED <<component, interfacesVars, speedVars, transferVars,
        connectionsVars, lateralVars>>
    \/ /\ component = "speed" /\ SpeedTest!Next
       /\ UNCHANGED <<component, interfacesVars, routingVars, transferVars,
        connectionsVars, lateralVars>>
    \/ /\ component = "transfer" /\ Transfer!Next
       /\ UNCHANGED <<component, interfacesVars, routingVars, speedVars,
        connectionsVars, lateralVars>>
    \/ /\ component = "connections" /\ Connections!Next
       /\ UNCHANGED <<component, interfacesVars, routingVars, speedVars,
        transferVars, lateralVars>>
    \/ /\ component = "lateral" /\ Lateral!Next
       /\ UNCHANGED <<component, interfacesVars, routingVars, speedVars,
        transferVars, connectionsVars>>

Spec == Init /\ [][Next]_vars

-----------------------------------------------------------------------------
\* The events of the interface collector tell the configuration of the host,
\* whichever changes came together (Tracker.Observe).
EventsTellTheHost == Interfaces!EventsTellTheHost

\* A change of route is reported only when the routers did change between the traces that
\* are compared, whatever was silent (Compare, routeMonitor.run).
RouteReportsAreReal == Routing!RouteReportsAreReal

\* The traffic published for anomaly detection is that of the other hosts and of the
\* agent's tests that are not recorded (SelfTraffic, trafficMonitor.run).
OnlyUnrecordedTestsShow == SpeedTest!OnlyUnrecordedTestsShow

\* A speed measurement reports what was transferred while it ran, and a transfer
\* stays within its cap (meter.run).
MeasurementsAreTrue == Transfer!MeasurementsAreTrue

\* A connection is attributed to a process that held it, its age spans only samples
\* it was in, and the detectors get what was stored (Collector.Collect,
\* connectionMonitor.run).
SnapshotIsTrue == Connections!SnapshotIsTrue

\* The sweeps and scans reported are there, and those that last are reported
\* (Detector.Observe).
ReportsFollowSockets == Lateral!ReportsFollowSockets

=============================================================================
