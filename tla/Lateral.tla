------------------------------- MODULE Lateral -------------------------------
(***************************************************************************)
(* The lateral movement heuristics for one process                         *)
(* (lateral/detector.go) and the collector that feeds them with every      *)
(* snapshot of the socket table (agent/monitor_lateral.go).  A snapshot is *)
(* a set of sockets to internal hosts; a socket that stays open is in      *)
(* every snapshot, and each time it is another attempt.                    *)
(*                                                                         *)
(* Detector.perHost is the ports of the attempts to a host: both keep what *)
(* is inside the window, and are not two variables here.  The fields that  *)
(* describe a finding are left out, but for its confidence.                *)
(***************************************************************************)
EXTENDS Integers, FiniteSets, Sequences

CONSTANTS Sockets,      \* the sockets the process may have: [host, port]
          AdminPorts, Window, Cooldown,
          HostSweepThreshold, PortScanThreshold, FailedThreshold, AdminSweepHosts,
          MaxTime

VARIABLES
    attempts,   \* processState.attempts: [at, host, port, failed]
    reported,   \* Detector.reported: finding -> when
    now,
    \* history
    snapshots   \* the snapshots so far: failed and open sockets, findings reported

vars == <<attempts, reported, now, snapshots>>

Hosts == {s.host : s \in Sockets}

\* The findings: three for the process, and a port scan for each host.
NoHost == 0
Sweep == <<"sweep", NoHost>>
AdminSweep == <<"admin", NoHost>>
Failures == <<"failures", NoHost>>
Scan(h) == <<"scan", h>>

Kinds == {Sweep, AdminSweep, Failures} \cup {Scan(h) : h \in Hosts}

Init == attempts = {} /\ reported = <<>> /\ now = 0 /\ snapshots = <<>>

TypeOK ==
    /\ \A a \in attempts : now - a.at < Window
    /\ DOMAIN reported \subseteq Kinds
    /\ now \in 0..MaxTime /\ Len(snapshots) = now

HostsOf(A) == {a.host : a \in A}
PortsTo(A, h) == {a.port : a \in {b \in A : b.host = h}}
Failed(A) == {a \in A : a.failed}
Admin(A) == {a \in A : a.port \in AdminPorts}

\* evaluate: what the attempts inside the window amount to.
Sweeps(A) == Cardinality(HostsOf(A)) >= HostSweepThreshold

\* Sockets to administration ports count when something fails, or when they are many.
AdminSweeps(A) ==
    LET hosts == Cardinality(HostsOf(Admin(A)))
    IN hosts >= AdminSweepHosts /\ (Failed(A) # {} \/ hosts >= 2 * AdminSweepHosts)

Scans(A, h) == Cardinality(PortsTo(A, h)) >= PortScanThreshold

Found(A) ==
    {k \in Kinds :
       \/ k = Sweep /\ Sweeps(A)
       \/ k = AdminSweep /\ AdminSweeps(A)
       \/ k = Failures /\ Cardinality(Failed(A)) >= FailedThreshold
       \/ \E h \in Hosts : k = Scan(h) /\ Scans(A, h)}

\* Mutant: a finding is marked as reported before its threshold is looked at.
Marked_Always(found, due) == due

\* shouldReport marks what it lets through, and is asked about findings only.
Marked(found, due) == found \cap due

Due == {k \in Kinds : k \in DOMAIN reported => now' - reported[k] >= Cooldown}

\* Detector.Observe: add the sockets, trim, evaluate, and forget old marks.
Connections(failed, open) ==
    LET seen == {[at |-> now', host |-> s.host, port |-> s.port, failed |-> s \in failed] : s \in failed \cup open}
        A == {a \in attempts \cup seen : now' - a.at < Window}
        marked == Marked(Found(A), Due)
        kept == {k \in DOMAIN reported : now' - reported[k] <= 4 * Cooldown}
    IN /\ now < MaxTime /\ now' = now + 1
       /\ attempts' = A
       /\ reported' = [k \in kept \cup marked |-> IF k \in marked THEN now' ELSE reported[k]]
       /\ snapshots' = Append(snapshots, [failed |-> failed, open |-> open,
                                           told |-> Found(A) \cap Due])

Next == \E S \in SUBSET Sockets : \E F \in SUBSET S : Connections(F, S \ F)

Spec == Init /\ [][Next]_vars

-----------------------------------------------------------------------------
\* The snapshots inside the window, and the sockets that were in them.
Recent == {snapshots[i] : i \in {j \in DOMAIN snapshots : now - j < Window}}
SeenRecently == UNION {s.failed \cup s.open : s \in Recent}
FailedRecently == UNION {s.failed : s \in Recent}

\* The findings of the last snapshot.
Told == IF now = 0 THEN {} ELSE snapshots[now].told

AdminHosts(S) == Cardinality({s.host : s \in {r \in S : r.port \in AdminPorts}})

\* The sweeps and scans there are among those sockets.
There ==
    {k \in Kinds :
       \/ k = Sweep /\ Cardinality({s.host : s \in SeenRecently}) >= HostSweepThreshold
       \/ /\ k = AdminSweep /\ AdminHosts(SeenRecently) >= AdminSweepHosts
          /\ FailedRecently # {} \/ AdminHosts(SeenRecently) >= 2 * AdminSweepHosts
       \/ \E h \in Hosts :
            k = Scan(h) /\ Cardinality({s \in SeenRecently : s.host = h}) >= PortScanThreshold}

(***************************************************************************)
(* What is reported is there, and what is there is reported: the hosts and *)
(* ports a finding counts had a socket inside the window, and as long as   *)
(* such a pattern lasts it was reported within the cooldown, whatever was  *)
(* suppressed before.                                                      *)
(***************************************************************************)
ReportsFollowSockets ==
    /\ Told \subseteq There \cup {Failures}
    /\ \A k \in There : \E i \in 1..now : now - i < Cooldown /\ k \in snapshots[i].told

(***************************************************************************)
(* detector.go: a sweep of administration ports is reported "only when the *)
(* attempts are failing or the host count is well past the threshold".     *)
(***************************************************************************)
AdminSweepsFail ==
    AdminSweep \in Told =>
      \/ \E s \in FailedRecently : s.port \in AdminPorts
      \/ AdminHosts(SeenRecently) >= 2 * AdminSweepHosts

(***************************************************************************)
(* config.go and detection-engine.md count "failed internal attempts": a   *)
(* report needs as many sockets that failed.                               *)
(***************************************************************************)
FailuresAreAttempts == Failures \in Told => Cardinality(FailedRecently) >= FailedThreshold
=============================================================================
