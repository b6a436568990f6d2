----------------------------- MODULE Detection ------------------------------
(***************************************************************************)
(* From observations to what is reported of them: the detection gate, the  *)
(* diagnostic ladder, the collectors that decide through a gate, and the   *)
(* correlation of what they report.  A behaviour is that of one of the     *)
(* components, and the others rest in their initial states.  They share no *)
(* variable: the gates of one collector are its own.  What they share is   *)
(* the configuration: alerts.persistence, alerts.recovery_persistence and  *)
(* alerts.cooldown.                                                        *)
(***************************************************************************)
EXTENDS Gate, Integers, Sequences, FiniteSets

CONSTANTS
    Cooldown,   \* alerts.cooldown, of the collectors
    \* Ladder
    Literals, Endpoints, MayExpire,
    \* DNSMonitor
    Resolvers, Attempts, SlowRule, DNSMaxTime,
    \* Anomaly
    Rule, Buckets, Values, Threshold, MinAbsolute, MinObservations, Floor, MinDuration,
    Repeat, AnomalyMaxTime,
    \* Health
    Components, Throughput, Weight, Good, Bad, Measures, WarnBelow, HealthMaxTime,
    \* Latency
    Targets, Probes, LossPercent, LatencyMaxTime,
    \* PublicIP
    Addresses, Providers, Networks, Confirm, PublicIPMaxTime,
    \* Correlation
    Window, TunnelCooldown, RuleCooldown, SuppressContributing, Symptoms, Samples,
    MaxDelay, MaxSignals, MaxFaults, CorrelationMaxTime

\* A duration.
ASSUME CooldownAssumption == Cooldown \in Nat

ASSUME LadderAssumption == Literals \in Nat /\ Endpoints \in Nat /\ MayExpire \in BOOLEAN

\* Validate wants the system's resolver or a configured one.
ASSUME DNSAssumption == Resolvers \in Nat \ {0} /\ Attempts \in Nat \ {0}

\* Samples are measurements, none of them negative; the time buckets and the least number of
\* observations are checked when the configuration is read.
ASSUME AnomalyAssumption ==
    /\ Rule \in {"deviation", "zscore"} /\ Buckets \in Nat \ {0} /\ Values \subseteq Nat
    /\ {Threshold, MinAbsolute, Floor, MinDuration, Repeat} \subseteq Nat
    /\ MinObservations \in Nat \ {0}

\* Weights and thresholds in range are checked when the configuration is read; a throughput
\* is bad at a tenth of the plan.
ASSUME HealthAssumption ==
    /\ IsFiniteSet(Components) /\ Components \subseteq Nat \ {0}
    /\ Weight \in [Components -> Nat]
    /\ Good \in [Components -> Nat] /\ Bad \in [Components -> Nat]
    /\ \A c \in Components :
         IF c \in Throughput THEN Bad[c] < Good[c] ELSE Good[c] < Bad[c]
    /\ Measures \subseteq Nat /\ WarnBelow \in 0..10000

\* A loss of nothing is not reported.
ASSUME LatencyAssumption ==
    IsFiniteSet(Targets) /\ Probes \in Nat /\ LossPercent \in Nat \ {0}

\* Addresses are numbers, none of which stands for none.
ASSUME PublicIPAssumption == Addresses \subseteq Nat \ {0} /\ Providers \in Nat

\* The window and the cooldowns are positive durations (internal/correlation, config).
ASSUME CorrelationAssumption ==
    /\ Window \in Nat \ {0}
    /\ {TunnelCooldown, RuleCooldown} \subseteq Nat \ {0}
    /\ SuppressContributing \in BOOLEAN
    /\ {MaxDelay, MaxSignals, MaxFaults} \subseteq Nat /\ CorrelationMaxTime \in Nat \ {0}

VARIABLES
    component,   \* the one that runs in this behaviour
    world, expired, rung, ev, verdict,
    fail, partial, slow, dnsNow, dnsEvents, slowEvent, down, up, clean, owed,
    windows, anomalyGate, sustained, anomalyNow, anomalyTold, anomalySeen, compared,
    inputs, score, healthGate, healthNow, healthEvent,
    method, permitted, icmpChecked, icmpUsable, icmpBlocked, loss, latencyNow,
    latencyEvent, reachable, perfect,
    latest, failGate, publicIPNow, online, publicIPEvents, wan, known, liars,
    log, rows, channel, window, lastFired, pc, match, correlationNow, signals, faults,
    received

gatesVars == <<states, cooldown, now, seen, episode, firedAt, told>>
ladderVars == <<world, expired, rung, ev, verdict>>
dnsVars == <<fail, partial, slow, dnsNow, dnsEvents, slowEvent, down, up, clean,
    owed>>
anomalyVars == <<windows, anomalyGate, sustained, anomalyNow, anomalyTold,
    anomalySeen, compared>>
healthVars == <<inputs, score, healthGate, healthNow, healthEvent>>
latencyVars == <<method, permitted, icmpChecked, icmpUsable, icmpBlocked, loss,
    latencyNow, latencyEvent, reachable, perfect>>
publicIPVars == <<latest, failGate, publicIPNow, online, publicIPEvents, wan, known,
    liars>>
correlationVars == <<log, rows, channel, window, lastFired, pc, match, correlationNow,
    signals, faults, received>>

Ladder == INSTANCE Ladder

DNS == INSTANCE DNSMonitor WITH
    MaxTime <- DNSMaxTime, now <- dnsNow, events <- dnsEvents

Anomaly == INSTANCE Anomaly WITH
    MaxTime <- AnomalyMaxTime, gate <- anomalyGate, now <- anomalyNow,
    told <- anomalyTold, seen <- anomalySeen

Health == INSTANCE Health WITH
    MaxTime <- HealthMaxTime, gate <- healthGate, now <- healthNow, event <- healthEvent

Latency == INSTANCE Latency WITH
    MaxTime <- LatencyMaxTime, now <- latencyNow, event <- latencyEvent

PublicIP == INSTANCE PublicIP WITH
    MaxTime <- PublicIPMaxTime, now <- publicIPNow, events <- publicIPEvents

Correlation == INSTANCE Correlation WITH
    MaxTime <- CorrelationMaxTime, now <- correlationNow

allVars == <<component, gatesVars, ladderVars, dnsVars, anomalyVars, healthVars,
    latencyVars, publicIPVars, correlationVars>>

\* What a component may begin with is chosen when it is the one that runs.
SomeCooldown == CHOOSE c \in Cooldowns : TRUE
SomeWorld == CHOOSE w \in Ladder!Worlds : Ladder!PossibleWorld(w)
SomeHost == CHOOSE h \in PublicIP!Hosts : TRUE

SuiteInit ==
    /\ component \in {"gates", "ladder", "dns", "anomaly", "health", "latency",
        "publicIP", "correlation"}
    /\ Init /\ (component # "gates" => cooldown = SomeCooldown)
    /\ Ladder!Init /\ (component # "ladder" => world = SomeWorld)
    /\ DNS!Init
    /\ Anomaly!Init
    /\ Health!Init
    /\ Latency!Init /\ (component # "latency" => method = "auto" /\ permitted)
    /\ PublicIP!Init /\ (component # "publicIP" => online /\ wan = SomeHost)
    /\ Correlation!Init

SuiteNext ==
    \/ /\ component = "gates" /\ Next
       /\ UNCHANGED <<component, ladderVars, dnsVars, anomalyVars, healthVars,
        latencyVars, publicIPVars, correlationVars>>
    \/ /\ component = "ladder" /\ Ladder!Next
       /\ UNCHANGED <<component, gatesVars, dnsVars, anomalyVars, healthVars,
        latencyVars, publicIPVars, correlationVars>>
    \/ /\ component = "dns" /\ DNS!Next
       /\ UNCHANGED <<component, gatesVars, ladderVars, anomalyVars, healthVars,
        latencyVars, publicIPVars, correlationVars>>
    \/ /\ component = "anomaly" /\ Anomaly!Next
       /\ UNCHANGED <<component, gatesVars, ladderVars, dnsVars, healthVars,
        latencyVars, publicIPVars, correlationVars>>
    \/ /\ component = "health" /\ Health!Next
       /\ UNCHANGED <<component, gatesVars, ladderVars, dnsVars, anomalyVars,
        latencyVars, publicIPVars, correlationVars>>
    \/ /\ component = "latency" /\ Latency!Next
       /\ UNCHANGED <<component, gatesVars, ladderVars, dnsVars, anomalyVars,
        healthVars, publicIPVars, correlationVars>>
    \/ /\ component = "publicIP" /\ PublicIP!Next
       /\ UNCHANGED <<component, gatesVars, ladderVars, dnsVars, anomalyVars,
        healthVars, latencyVars, correlationVars>>
    \/ /\ component = "correlation" /\ Correlation!Next
       /\ UNCHANGED <<component, gatesVars, ladderVars, dnsVars, anomalyVars,
        healthVars, latencyVars, publicIPVars>>

SuiteSpec == SuiteInit /\ [][SuiteNext]_allVars

-----------------------------------------------------------------------------
\* The verdict of a diagnosis, wherever its deadline falls, names a fault of this
\* host, is HEALTHY only when that was seen, is a loss when nothing answers, and
\* blames only what is broken (Engine.Diagnose).
VerdictIsSound == Ladder!VerdictIsSound

\* DNS_RESOLUTION_FAILED needs as many stored total failures in a row as configured, and a
\* recovery follows one that was reported (dnsMonitor.report).
FailuresAreReported == DNS!FailuresAreReported

\* Deviations and sustained use are reported for samples that deviate and stay, and
\* sustained use is not passed over (anomalyMonitor.Samples).
AnomaliesAreReal == Anomaly!AnomaliesAreReal

\* The health score tells nothing that was not measured, and better measurements do
\* not lower it (health.Compute).
ScoreIsFair == Health!ScoreIsFair

\* A firewall that drops echo requests is not reported as packet loss in auto mode
\* (Prober.Probe).
FilteredIsNotLost == Latency!FilteredIsNotLost

\* One misbehaving provider cannot change the address on record (Detector.Detect,
\* Agree).
ChangesAreReal == PublicIP!ChangesAreReal

\* What a conclusion rests on was, or was not, in the window, and is recent
\* (Engine.Evaluate, Window.trimLocked).
ConclusionsAreFounded == Correlation!ConclusionsAreFounded

\* A conclusion absorbs the symptoms that it explains (DB.MarkSuppressed).
SymptomsAreAbsorbed == Correlation!SymptomsAreAbsorbed

=============================================================================
