------------------------------- MODULE Latency -------------------------------
(***************************************************************************)
(* Latency and packet loss: the prober (internal/latency/prober.go) with   *)
(* its cached ICMP capability and its memo of ICMP-filtered targets, and   *)
(* the collector's loss rule (agent/monitor_latency.go).                   *)
(*                                                                         *)
(* The prober is shared with the connectivity task and icmpAvailable takes *)
(* no lock: between the writes of icmpChecked and icmpUsable the other     *)
(* task reads a capability that is not there yet.  Times are left out: the *)
(* memo may expire before any cycle, and of a target only the probes sent  *)
(* and answered are kept.                                                  *)
(***************************************************************************)
EXTENDS GateState, FiniteSetsExt

CONSTANTS Targets,      \* latency.targets
          Probes,       \* latency.probes
          LossPercent,  \* alerts.packet_loss_percent
          Cooldown,     \* alerts.cooldown
          MaxTime       \* bound on the cycles

VARIABLES
    method,       \* latency.method
    permitted,    \* whether the process may open ICMP sockets
    icmpChecked, icmpUsable,
    icmpBlocked,  \* targets whose memo has not expired
    loss,         \* the gate's only key
    now,
    event,        \* the loss event of the last cycle, or None
    \* history: cycles in a row, of those in which a target answered
    reachable,    \* in which every target answered TCP, and all or none of its echo requests
    perfect       \* in which the same target answered every probe, and which target

prober == <<method, permitted, icmpChecked, icmpUsable, icmpBlocked>>
vars == <<prober, loss, now, event, reachable, perfect>>

None == "none"

\* What one method gets from a target: probes sent and answered.  Nothing is sent to a
\* name that does not resolve.
Outcomes == [sent : {0}, recv : {0}] \cup [sent : {Probes}, recv : 0..Probes]

Init ==
    /\ method \in {"auto", "icmp", "tcp"} /\ permitted \in BOOLEAN
    /\ icmpChecked = FALSE /\ icmpUsable = FALSE /\ icmpBlocked = {}
    /\ loss = NewState /\ now = 1 /\ event = None
    /\ reachable = 0 /\ perfect = [t \in Targets |-> 0]

TypeOK ==
    /\ icmpUsable => icmpChecked /\ permitted
    /\ icmpBlocked \subseteq Targets /\ loss \in GateStates /\ now \in 1..MaxTime

-----------------------------------------------------------------------------
\* icmpAvailable, in two steps.
CheckICMP ==
    /\ ~icmpChecked
    /\ icmpChecked' = TRUE /\ event' = None
    /\ UNCHANGED <<method, permitted, icmpUsable, icmpBlocked, loss, now, reachable, perfect>>

StoreICMP ==
    /\ icmpChecked /\ permitted /\ ~icmpUsable
    /\ icmpUsable' = TRUE /\ event' = None
    /\ UNCHANGED <<method, permitted, icmpChecked, icmpBlocked, loss, now, reachable, perfect>>

\* Method, for the task that finds icmpChecked set.
Method == CASE method = "auto" -> IF icmpUsable THEN "icmp" ELSE "tcp" [] OTHER -> method

NoProbes == [sent |-> 0, recv |-> 0]

\* Probe: the result for a target, given what each method would get.
\* Mutant: the fallback sets the memo and still returns the result of ICMP.
Probe_ReturnsICMP(t, icmp, tcp, blocked) ==
    IF Method = "tcp" \/ (method = "auto" /\ t \in blocked) THEN tcp
    ELSE IF ~icmpUsable THEN NoProbes ELSE icmp

Probe(t, icmp, tcp, blocked) ==
    IF Method = "tcp" \/ (method = "auto" /\ t \in blocked) THEN tcp
    ELSE IF ~icmpUsable THEN NoProbes
    ELSE IF icmp.recv = 0 /\ method = "auto" /\ tcp.recv > 0 THEN tcp
    ELSE icmp

Falls(t, icmp, tcp, blocked) ==
    method = "auto" /\ icmpUsable /\ t \notin blocked /\ icmp.recv = 0 /\ tcp.recv > 0

\* Aggregate_: all targets together, those that did not answer included.
Lost(results) == SumFunction([t \in Targets |-> results[t].sent - results[t].recv])
Sent(results) == SumFunction([t \in Targets |-> results[t].sent])
Lossy(results) == Sent(results) > 0 /\ Lost(results) * 100 >= LossPercent * Sent(results)

\* reportLoss: a cycle without any answer tells the gate nothing.
ReportLoss(results) ==
    IF \A t \in Targets : results[t].recv = 0 THEN UNCHANGED loss /\ event' = None
    ELSE IF Lossy(results)
    THEN /\ loss' = AfterBreach(loss, now, Cooldown)
         /\ event' = IF Fires(loss, now, Cooldown) THEN "PACKET_LOSS_DETECTED" ELSE None
    ELSE /\ loss' = AfterClear(loss)
         /\ event' = IF Recovers(loss) THEN "PACKET_LOSS_CLEARED" ELSE None

\* run, when icmpAvailable has been called: expired are the memos that have run out.
Run ==
    /\ icmpChecked /\ now < MaxTime /\ now' = now + 1
    /\ \E icmp, tcp \in [Targets -> Outcomes], expired \in SUBSET icmpBlocked :
        LET blocked == icmpBlocked \ expired
            results == [t \in Targets |-> Probe(t, icmp[t], tcp[t], blocked)]
            full(r) == r.sent = Probes /\ r.recv = Probes
            counts  == \E t \in Targets : results[t].recv > 0
        IN
        /\ icmpBlocked' = blocked \cup {t \in Targets : Falls(t, icmp[t], tcp[t], blocked)}
        /\ ReportLoss(results)
        /\ reachable' = IF ~counts THEN reachable
                        ELSE IF \A t \in Targets : full(tcp[t]) /\ icmp[t].recv \in {0, Probes}
                        THEN UpTo(reachable, RecoveryPersistence) ELSE 0
        /\ perfect' = IF ~counts THEN perfect
                      ELSE [t \in Targets |-> IF full(results[t]) THEN UpTo(perfect[t], Persistence) ELSE 0]
    /\ UNCHANGED <<method, permitted, icmpChecked, icmpUsable>>

Next == CheckICMP \/ StoreICMP \/ Run

Spec == Init /\ [][Next]_vars

-----------------------------------------------------------------------------
(***************************************************************************)
(* In auto mode a firewall is not packet loss: while every target answers  *)
(* over TCP and echo requests pass all or not at all, no loss is reported  *)
(* and an earlier report is withdrawn, whichever targets are filtered,     *)
(* since when, and whenever the capability of the process was found out.   *)
(***************************************************************************)
FilteredIsNotLost ==
    method = "auto" =>
        /\ event = "PACKET_LOSS_DETECTED" => reachable = 0
        /\ reachable >= RecoveryPersistence => ~loss.firing

(***************************************************************************)
(* prober.go says that "the best responding target represents the          *)
(* connection, because a single slow or rate-limiting target should not be *)
(* read as a degraded Internet connection": no loss is reported while some *)
(* target has answered every probe for as long as a loss must last.        *)
(***************************************************************************)
OneTargetIsNotTheConnection ==
    event = "PACKET_LOSS_DETECTED" => \A t \in Targets : perfect[t] < Persistence
=============================================================================
