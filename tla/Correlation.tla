----------------------------- MODULE Correlation -----------------------------
(***************************************************************************)
(* Correlation: the sliding window and the engine (internal/correlation),  *)
(* and the task that feeds it and acts on its conclusions                  *)
(* (internal/agent/monitor_correlation.go).                                *)
(*                                                                         *)
(* Events reach the engine late: a collector stamps one, it waits in the   *)
(* logger's queue, the logging goroutine stores it and publishes it with   *)
(* its row id, and the task drains the subscription before it evaluates    *)
(* the rules.  Samples are put into the same window at once, so that its   *)
(* order is not the order of the stamps.  A conclusion goes back through   *)
(* the logger like any event; the rows of the symptoms are marked in a     *)
(* statement of its own.  The window's limit of 4096 signals and the       *)
(* subscription's of 2048 events are above what the bounds below produce   *)
(* (a subscription that overflows is part of Logger).                      *)
(*                                                                         *)
(* The shipped rules (rules.go) are predicates on a view: the signals of   *)
(* the window, in the order in which they came.  An event is its code.  Of *)
(* the samples, only the loss and the gateway round trip decide anything,  *)
(* each against one limit; samples of other metrics, and the texts of the  *)
(* evidence, are left out.                                                 *)
(***************************************************************************)
EXTENDS Naturals, FiniteSetsExt, SequencesExt

CONSTANTS Window,      \* correlation.window
          TunnelCooldown,   \* Cooldown of the tunnel rule: 2 minutes, of a window of 3
          RuleCooldown,     \* Cooldown of each other rule: 10 minutes or more
          SuppressContributing,   \* correlation.suppress_contributing
          Symptoms,    \* event codes that the collectors may emit
          Samples,     \* samples that the collectors may publish
          MaxDelay,    \* bound on the time between an event's stamp and its publication
          MaxSignals,  \* bound on the events and samples of the collectors
          MaxFaults,   \* bound on failed statements
          MaxTime      \* bound on the clock

-----------------------------------------------------------------------------
Saturation == "local-bandwidth-saturation"
WiFi       == "wifi-degradation"
DNSSlow    == "dns-slowness"
VPN        == "vpn-routing-change"
ISP        == "isp-performance-degradation"

\* From the most specific to the least.
RuleOrder == <<Saturation, WiFi, DNSSlow, VPN, ISP>>
RuleNames == {RuleOrder[i] : i \in DOMAIN RuleOrder}

Conclusion(r) ==
    CASE r = Saturation -> "LOCAL_BANDWIDTH_SATURATION"
      [] r = WiFi       -> "WIFI_DEGRADATION"
      [] r = DNSSlow    -> "DNS_RESPONSE_DEGRADATION"
      [] r = VPN        -> "VPN_ROUTING_CHANGE"
      [] r = ISP        -> "UPSTREAM_PERFORMANCE_DEGRADATION"

\* Engine.conclusions
Conclusions == {Conclusion(r) : r \in RuleNames}

Bursts == {"BANDWIDTH_SPIKE_UPLOAD", "BANDWIDTH_SPIKE_DOWNLOAD", "SUSTAINED_BANDWIDTH_USAGE"}
HighLatency == {"LATENCY_DEGRADATION", "SUSTAINED_HIGH_LATENCY"}
SlowTransfer == {"DOWNLOAD_DEGRADATION", "UPLOAD_DEGRADATION"}
RadioTrouble == {"WIFI_SIGNAL_DEGRADED", "WIFI_LINK_SPEED_DEGRADED"}
PathMoved == {"INTERFACE_CHANGED", "DEFAULT_GATEWAY_CHANGE"}
AddressMoved == {"PUBLIC_IP_CHANGED", "ISP_ASN_CHANGED", "DNS_SERVER_CHANGED"}

\* Samples: loss of 1 % or more, the gateway at 15 ms or more, or below it.
LossSample  == "loss >= 1%"
GatewaySlow == "gateway rtt >= 15ms"
GatewayFast == "gateway rtt < 15ms"

\* Events that speak against a rule whose other conditions hold.
Excludes(r) ==
    CASE r = DNSSlow -> {"OUTAGE_STARTED", "INTERNET_CONNECTIVITY_LOST"} \cup HighLatency
      [] r = ISP     -> Bursts \cup {"LOCAL_BANDWIDTH_SATURATION"} \cup RadioTrouble
      [] OTHER       -> {}

\* Rule.Suppresses
Suppresses(r) ==
    CASE r = Saturation -> Bursts \cup HighLatency
                             \cup {"LATENCY_SPIKE", "PACKET_LOSS_DETECTED",
                                   "DOWNLOAD_DEGRADATION", "THROUGHPUT_DEGRADATION"}
      [] r = WiFi       -> RadioTrouble \cup {"LATENCY_DEGRADATION", "JITTER_DEGRADATION",
                                             "PACKET_LOSS_DETECTED"}
      [] r = DNSSlow    -> {"DNS_SLOW_RESPONSE"}
      [] r = VPN        -> PathMoved \cup AddressMoved
      [] r = ISP        -> SlowTransfer

\* Rule.Cooldown
CooldownOf == [r \in RuleNames |-> IF r = VPN THEN TunnelCooldown ELSE RuleCooldown]

-----------------------------------------------------------------------------
\* HasAnyEvent, firstEvent: some signal of the view has one of these codes.
Saw(view, codes) == \E i \in DOMAIN view : view[i].code \in codes

\* The latest round trip to the gateway is slow, or was not measured.
LocalHopAffected(view) ==
    \A i \in DOMAIN view :
       view[i].code = GatewayFast => \E j \in DOMAIN view : j > i /\ view[j].code = GatewaySlow

\* The conditions of each rule, apart from Excludes.
LinkSaturated(view) ==
    /\ Saw(view, Bursts \cup {"SUSTAINED_UPLOAD"})
    /\ Saw(view, HighLatency \cup {"LATENCY_SPIKE"})
    /\ Saw(view, SlowTransfer \cup {"PACKET_LOSS_DETECTED", "THROUGHPUT_DEGRADATION", LossSample})

RadioDegraded(view) ==
    /\ Saw(view, RadioTrouble)
    /\ Saw(view, HighLatency \cup {"JITTER_DEGRADATION", "PACKET_LOSS_DETECTED"})
    /\ LocalHopAffected(view)

ResolutionSlow(view) == Saw(view, {"DNS_SLOW_RESPONSE", "DNS_PARTIAL_FAILURE"})

TunnelSwitched(view) ==
    Saw(view, PathMoved \cup {"VPN_STATE_CHANGED"}) /\ Saw(view, AddressMoved)

TransferBelowPlan(view) ==
    Saw(view, SlowTransfer \cup {"DOWNLOAD_BELOW_ISP_EXPECTED", "UPLOAD_BELOW_ISP_EXPECTED"})

\* All of Rule.Requires hold.
Satisfied(r, view) ==
    /\ ~Saw(view, Excludes(r))
    /\ CASE r = Saturation -> LinkSaturated(view)
         [] r = WiFi       -> RadioDegraded(view)
         [] r = DNSSlow    -> ResolutionSlow(view)
         [] r = VPN        -> TunnelSwitched(view)
         [] r = ISP        -> TransferBelowPlan(view)

-----------------------------------------------------------------------------
VARIABLES
    log,        \* conclusions in the logger's queue
    rows,       \* the events table: the code of each row and what absorbed it
    channel,    \* correlationMonitor.events
    window,     \* Window.signals
    lastFired,  \* Engine.lastFired, with Never for a rule that is not in the map
    pc,         \* whether a run of the task has its symptoms still to mark
    match,      \* the conclusion that a run has drawn
    now,
    signals, faults,   \* counters for the bounds
    received    \* history: every signal that the engine was given

counters == <<signals, faults>>
vars == <<log, rows, channel, window, lastFired, pc, match, now, counters, received>>

Never == 0
NoRow == 0
NoMatch == [rule |-> "none", at |-> Never, rows |-> {}]

\* What the correlation id of a row says: the rule and the time of the conclusion.
CorrelationIDs == [rule : RuleNames, at : 1..MaxTime]
Unabsorbed == [rule |-> "none", at |-> Never]
IDOf(m) == [rule |-> m.rule, at |-> m.at]

Logged == [code : Conclusions, at : 1..MaxTime]
Codes == Symptoms \cup Conclusions \cup Samples

TypeOK ==
    /\ log \in Seq(Logged)
    /\ rows \in Seq([code : Symptoms \cup Conclusions, by : CorrelationIDs \cup {Unabsorbed}])
    /\ channel \in Seq([code : Symptoms \cup Conclusions, at : 1..MaxTime, row : 0..Len(rows)])
    /\ received \subseteq [code : Codes, at : 1..MaxTime, row : 0..Len(rows), got : 1..now]
    /\ \A i \in DOMAIN window : window[i] \in received
    /\ lastFired \in [RuleNames -> 0..now]
    /\ pc \in {"idle", "marking"}
    /\ match \in [rule : RuleNames, at : 1..MaxTime, rows : SUBSET DOMAIN rows] \cup {NoMatch}
    /\ now \in 1..MaxTime

Init ==
    /\ log = <<>> /\ rows = <<>> /\ channel = <<>> /\ window = <<>>
    /\ lastFired = [r \in RuleNames |-> Never]
    /\ pc = "idle" /\ match = NoMatch
    /\ now = 1
    /\ signals = 0 /\ faults = 0
    /\ received = {}

-----------------------------------------------------------------------------
\* Mutant: a signal that is as old as the window is dropped with the older ones.
Trim_Early(w, t) ==
    LET kept == {i \in DOMAIN w : w[i].at + Window > t}
    IN  IF kept = {} THEN <<>> ELSE SubSeq(w, Min(kept), Len(w))

\* Window.trimLocked: the signals before the first that is young enough are dropped.
Trim(w, t) ==
    LET kept == {i \in DOMAIN w : w[i].at + Window >= t}
    IN  IF kept = {} THEN <<>> ELSE SubSeq(w, Min(kept), Len(w))

\* Engine.Observe and Window.Add
Observe(w, s) == IF s.code \in Conclusions THEN w ELSE Trim(Append(w, s), s.at)

-----------------------------------------------------------------------------
\* The logger's goroutine hands an event on: the row first, then the subscribers.  An
\* event below the log level, or whose insert failed, has no row.
Process(ev) ==
    \/ /\ rows' = Append(rows, [code |-> ev.code, by |-> Unabsorbed])
       /\ channel' = Append(channel, [code |-> ev.code, at |-> ev.at, row |-> Len(rows) + 1])
       /\ UNCHANGED faults
    \/ /\ faults < MaxFaults
       /\ faults' = faults + 1
       /\ channel' = Append(channel, [code |-> ev.code, at |-> ev.at, row |-> NoRow])
       /\ UNCHANGED rows

\* An event that a collector emitted up to MaxDelay ago.
Publish(code) ==
    /\ signals < MaxSignals
    /\ signals' = signals + 1
    /\ \E at \in {t \in 1..now : t + MaxDelay >= now} : Process([code |-> code, at |-> at])
    /\ UNCHANGED <<log, window, lastFired, pc, match, now, received>>

PublishConclusion ==
    /\ log # <<>>
    /\ Process(Head(log))
    /\ log' = Tail(log)
    /\ UNCHANGED <<window, lastFired, pc, match, now, signals, received>>

Arrived(s) == [code |-> s.code, at |-> s.at, row |-> s.row, got |-> now]

\* correlationMonitor.Samples, called by the analysis goroutine.
Sample(code) ==
    LET s == Arrived([code |-> code, at |-> now, row |-> NoRow])
    IN  /\ signals < MaxSignals
        /\ signals' = signals + 1
        /\ window' = Observe(window, s)
        /\ received' = received \cup {s}
        /\ UNCHANGED <<log, rows, channel, lastFired, pc, match, now, faults>>

CooldownElapsed(r) == lastFired[r] = Never \/ now - lastFired[r] >= CooldownOf[r]

\* Mutant: of the symptoms only the one that came first is marked.
Explained_First(r, view) ==
    LET symptoms == {i \in DOMAIN view : view[i].code \in Suppresses(r)}
    IN  IF symptoms = {} THEN {} ELSE {view[Min(symptoms)].row} \ {NoRow}

\* View.EventIDs: the rows that a conclusion of rule r explains.
Explained(r, view) ==
    {view[i].row : i \in {j \in DOMAIN view : view[j].code \in Suppresses(r)}} \ {NoRow}

\* drainEvents: the next event that has been published is moved into the window.  Events
\* go on being published, and samples taken, until the last has been.
Drain ==
    /\ pc = "idle"
    /\ channel # <<>>
    /\ LET s == Arrived(Head(channel))
       IN  /\ window' = Observe(window, s)
           /\ received' = received \cup {s}
    /\ channel' = Tail(channel)
    /\ UNCHANGED <<log, rows, lastFired, pc, match, now, counters>>

\* One run of the task, after it has drained the channel: Evaluate, whose conclusion comes
\* from the first rule that is not cooling down and is satisfied.  It is emitted, and its
\* symptoms are marked next.  (While correlation is disabled a run only drains.)
Run ==
    /\ pc = "idle"
    /\ channel = <<>>
    /\ window' = Trim(window, now)
    /\ LET firing == {i \in DOMAIN RuleOrder :
                        CooldownElapsed(RuleOrder[i]) /\ Satisfied(RuleOrder[i], window')}
           r == RuleOrder[Min(firing)]
       IN  \/ /\ firing = {}
              /\ match' = NoMatch
              /\ UNCHANGED <<log, lastFired, pc>>
           \/ /\ firing # {}
              /\ lastFired' = [lastFired EXCEPT ![r] = now]
              /\ match' = [rule |-> r, at |-> now, rows |-> Explained(r, window')]
              /\ log' = Append(log, [code |-> Conclusion(r), at |-> now])
              /\ pc' = IF SuppressContributing /\ match'.rows # {} THEN "marking" ELSE "idle"
    /\ UNCHANGED <<rows, channel, now, counters, received>>

\* MarkSuppressed: one statement over the rows that Evaluate collected.
Mark ==
    /\ pc = "marking"
    /\ \/ /\ rows' = [i \in DOMAIN rows |->
                        IF i \in match.rows THEN [rows[i] EXCEPT !.by = IDOf(match)] ELSE rows[i]]
          /\ UNCHANGED faults
       \/ /\ faults < MaxFaults
          /\ faults' = faults + 1
          /\ UNCHANGED rows
    /\ pc' = "idle" /\ match' = NoMatch
    /\ UNCHANGED <<log, channel, window, lastFired, now, signals, received>>

Tick ==
    /\ now < MaxTime
    /\ now' = now + 1
    /\ UNCHANGED <<log, rows, channel, window, lastFired, pc, match, counters, received>>

Next ==
    \/ \E code \in Symptoms : Publish(code)
    \/ \E code \in Samples : Sample(code)
    \/ PublishConclusion \/ Drain \/ Run \/ Mark \/ Tick

Spec == Init /\ [][Next]_vars

-----------------------------------------------------------------------------
\* A rule's conclusion is drawn in this step.
Draws(r) == match' # match /\ match'.rule = r

\* A conclusion that rests on something not having happened (the path is healthy, the
\* link is idle) is right about it: no such event had reached the engine within the
\* window, in whatever order stamps, samples and late events came and were trimmed.
AbsenceIsReal ==
    [][\A r \in RuleNames : Draws(r) =>
          \A s \in received :
             s.code \in Excludes(r) /\ s.code \notin Conclusions => s.at + Window < now]_vars

\* Evidence is first-hand and recent: nothing in a view that draws a conclusion reached
\* the engine longer than a window ago, although only a prefix of the signals is
\* trimmed; and none of it is a conclusion of the engine, although it is told of them.
EvidenceIsFresh ==
    [][\A r \in RuleNames : Draws(r) =>
          \A i \in DOMAIN window' :
             window'[i].got + Window >= now /\ window'[i].code \notin Conclusions]_vars

\* What the run checks of both.  (Engine.Evaluate, Window.trimLocked)
ConclusionsAreFounded == AbsenceIsReal /\ EvidenceIsFresh

\* A conclusion replaces its symptoms: when they have been marked, none that reached the
\* engine and was in the window is still shown beside it.
SymptomsAreAbsorbed ==
    [][pc = "marking" /\ pc' = "idle" /\ faults' = faults =>
          \A s \in received :
             /\ s.row # NoRow
             /\ s.code \in Suppresses(match.rule)
             /\ s.at + Window >= match.at
             => rows'[s.row].by = IDOf(match)]_vars

-----------------------------------------------------------------------------
\* A claim of the repository that the code does not meet.

\* rules.go, event-catalog.md: the provider is blamed only when the link was not
\* saturated; the rule names LOCAL_BANDWIDTH_SATURATION as speaking against it.
SaturationClearsTheProvider ==
    [][Draws(ISP) =>
          \A s \in received : s.code = Conclusion(Saturation) => s.at + Window < now]_vars
=============================================================================
