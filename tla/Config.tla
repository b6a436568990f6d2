------------------------------- MODULE Config -------------------------------
(***************************************************************************)
(* The configuration: what Load accepts (config/load.go, validate.go), how *)
(* Reload applies it section by section to the configuration the tasks     *)
(* read without a lock (agent/agent.go), and what a task makes of it.      *)
(*                                                                         *)
(* A configuration is a record of sections.  Of a name, an address, a URL  *)
(* or a file mode only whether it is well-formed is kept, and settings     *)
(* that are checked together in one way are one field.                     *)
(***************************************************************************)
EXTENDS Integers, Sequences, FiniteSets

CONSTANTS Default,     \* the built-in configuration
          Files,       \* what a file may hold, decoded over the defaults
          MaxEdits

VARIABLES
    file,     \* ipulse.yaml: [kind, config]
    live,     \* Agent.cfg
    built,    \* history: the configuration the process was started with
    reload,   \* Reload: what it loaded, the sections still to copy, and which is being written
    report,   \* the event of the last reload: the sections that need a restart
    task,     \* a task's copy of a section, while it uses it
    edits

vars == <<file, live, built, reload, report, task, edits>>

-----------------------------------------------------------------------------
\* Validate, one operator for each of its parts.

Within(x, low, high) == low <= x /\ x <= high

Named(entries) ==
    /\ \A i \in DOMAIN entries : entries[i].name # ""
    /\ \A i, j \in DOMAIN entries : entries[i].name = entries[j].name => i = j

WellFormed(entries) == \A i \in DOMAIN entries : entries[i].valid

\* The least value of a duration, in milliseconds.
Shortest(section, name) ==
    CASE section = "monitoring" ->
           (CASE name = "probe_timeout" -> 250
              [] name = "public_ip" -> 30000
              [] name \in {"health_score", "baseline_flush"} -> 10000
              [] name \in {"route", "retention", "availability_report", "threat_feed"} -> 60000
              [] OTHER -> 1000)
      [] section = "speed_test" ->
           (CASE name = "lightweight" -> 30000 [] name = "full" -> 60000
              [] name = "timeout" -> 5000 [] OTHER -> 1000)
      [] section \in {"dns", "latency", "database"} -> 100
      [] section = "baseline" -> 3600000
      [] section \in {"correlation", "lateral"} -> 10000
      [] section = "health" -> 60000
      [] OTHER -> 1000

TimesAccepted(c) ==
    \A s \in DOMAIN c : \A n \in DOMAIN c[s].times : c[s].times[n] >= Shortest(s, n)

ConnectivityAccepted(s) ==
    /\ s.targets # <<>> /\ Named(s.targets) /\ WellFormed(s.targets)
    /\ \A i \in DOMAIN s.targets : s.targets[i].type \in {"tcp", "http", "https", "icmp"}
    /\ Within(s.required_success, 1, Len(s.targets))
    /\ s.ip_literals # <<>> /\ WellFormed(s.ip_literals) /\ WellFormed(s.https_targets)
    /\ s.failures_before_outage >= 1 /\ s.successes_before_recovery >= 1
    /\ s.gateway_probe_method \in {"auto", "icmp", "tcp"}

DNSAccepted(s) ==
    /\ s.names # <<>> /\ WellFormed(s.names) /\ WellFormed(s.servers)
    /\ s.servers # <<>> \/ s.use_system_resolver

LatencyAccepted(s) ==
    /\ s.targets # <<>> /\ WellFormed(s.targets)
    /\ Within(s.probes, 1, 100)
    /\ s.method \in {"auto", "icmp", "tcp"}

SpeedTestAccepted(s, expected) ==
    s.enabled =>
        /\ Within(s.streams, 1, 32)
        /\ s.max_download_bytes >= 1048576
        /\ s.upload_enabled => s.max_upload_bytes >= 524288
        /\ Within(s.warmup, 0, s.times["duration"] - 1)
        /\ expected.mbps >= 0
        /\ Named(s.endpoints) /\ WellFormed(s.endpoints)
        /\ \E i \in DOMAIN s.endpoints : s.endpoints[i].enabled

TrafficAccepted(s) ==
    /\ s.spike_z_score >= 1 /\ s.sustained_seconds >= 1 /\ s.large_transfer_mb >= 0
    /\ Within(s.quiet_hours_start, 0, 23) /\ Within(s.quiet_hours_end, 0, 23)

DestinationsAccepted(s) ==
    /\ Within(s.rare_percentile, 0, 50)
    /\ s.fanout_threshold >= 1 /\ s.high_volume_mb >= 0
    /\ WellFormed(s.ignore)

ThreatIntelAccepted(s) ==
    /\ s.max_indicators >= 1000
    /\ Named(s.feeds) /\ WellFormed(s.feeds)
    /\ \A i \in DOMAIN s.feeds : (s.feeds[i].url = "") # (s.feeds[i].path = "")

LateralAccepted(s) ==
    s.host_sweep >= 2 /\ s.port_scan >= 2 /\ s.failed >= 2 /\ s.admin_sweep >= 2

PublicIPAccepted(s) ==
    /\ s.enabled => s.providers # <<>>
    /\ WellFormed(s.providers) /\ WellFormed(s.other_urls)

RoutingAccepted(s) ==
    s.enabled => /\ s.destinations # <<>> /\ WellFormed(s.destinations)
                 /\ Within(s.max_hops, 1, 64) /\ Within(s.probes_per_hop, 1, 5)
                 /\ s.hop_change_tolerance >= 0

BaselineAccepted(s) ==
    /\ s.min_observations >= 5
    /\ Within(s.bucket_hours, 1, 24) /\ 24 % s.bucket_hours = 0
    /\ Within(s.reservoir_size, 16, 100000)
    /\ s.max_sample_age >= s.times["window"]

AlertsAccepted(s) ==
    /\ Within(s.degradation_percent, 0, 100) /\ Within(s.packet_loss_percent, 0, 100)
    /\ s.persistence >= 1 /\ s.recovery_persistence >= 1 /\ s.cooldown >= 0

\* What the score needs of its settings.
Scored(s) ==
    /\ 0 <= s.good /\ s.good < s.bad
    /\ \A w \in DOMAIN s.weights : s.weights[w] >= 0
    /\ \E w \in DOMAIN s.weights : s.weights[w] > 0
    /\ Within(s.warn_below, 0, 100)

HealthAccepted(s) == s.enabled => Scored(s)

LoggingAccepted(s) ==
    /\ s.sinks # {} /\ s.file_mode_safe
    /\ Within(s.max_file_mb, 1, 10240) /\ Within(s.max_archives, 0, 1000) /\ s.retention_days >= 1

DatabaseAccepted(s) ==
    \A table \in DOMAIN s.retention : s.retention[table] >= 1

DashboardAccepted(s) ==
    s.enabled => /\ Within(s.port, 1, 65535)
                 /\ s.address_valid /\ (s.loopback \/ s.token # "none") /\ s.token # "short"
                 /\ s.tls_cert = s.tls_key
                 /\ s.rate_limit >= 1

Accepted(c) ==
    /\ TimesAccepted(c) /\ c.monitoring.jitter >= 0
    /\ ConnectivityAccepted(c.connectivity) /\ DNSAccepted(c.dns) /\ LatencyAccepted(c.latency)
    /\ SpeedTestAccepted(c.speed_test, c.expected) /\ TrafficAccepted(c.traffic)
    /\ DestinationsAccepted(c.destinations) /\ ThreatIntelAccepted(c.threat_intel)
    /\ LateralAccepted(c.lateral) /\ PublicIPAccepted(c.public_ip) /\ RoutingAccepted(c.routing)
    /\ BaselineAccepted(c.baseline) /\ AlertsAccepted(c.alerts) /\ HealthAccepted(c.health)
    /\ LoggingAccepted(c.logging) /\ DatabaseAccepted(c.database) /\ DashboardAccepted(c.dashboard)
    /\ ~c.privacy.payload_inspection

-----------------------------------------------------------------------------
\* Load: without a file, and of an empty one, the defaults.
Missing == [kind |-> "missing", config |-> Default]
Unparsable == [kind |-> "unparsable", config |-> Default]

Loads(f) == f.kind # "unparsable" /\ Accepted(f.config)

\* Sections that Reload copies, in its order, and those whose changes it reports.
Copied == <<"level", "alerts", "baseline", "correlation", "health", "traffic", "destinations",
            "lateral", "threat_intel", "expected">>

Reported == {"dashboard", "database", "service", "monitoring"}

\* Of these sections Reload compares part: address and port, path, log_dir, everything.
Key(section, c) ==
    CASE section = "dashboard" -> <<c.dashboard.loopback, c.dashboard.port>>
      [] section = "database" -> <<c.database.path>>
      [] section = "service" -> <<c.service.log_dir>>
      [] section = "monitoring" -> <<c.monitoring>>

NeedRestart(new) == {s \in Reported : Key(s, new) # Key(s, live)}

NoReload == [busy |-> FALSE, new |-> Default, rest |-> <<>>, writing |-> FALSE, restart |-> {}]
NoReport == [event |-> "none", restart |-> {}]
Resting == [section |-> "none", copy |-> Default.health, torn |-> FALSE]

Init ==
    /\ file \in {[kind |-> "decoded", config |-> c] : c \in {f \in Files : Accepted(f)}} \cup {Missing}
    /\ live = file.config /\ built = live
    /\ reload = NoReload /\ report = NoReport /\ task = Resting /\ edits = 0

TypeOK ==
    /\ file.kind \in {"decoded", "missing", "unparsable"}
    /\ DOMAIN live = DOMAIN Default /\ DOMAIN built = DOMAIN Default
    /\ report.restart \subseteq Reported /\ edits \in 0..MaxEdits

Edit ==
    /\ edits < MaxEdits /\ edits' = edits + 1
    /\ file' \in {[kind |-> "decoded", config |-> c] : c \in Files} \cup {Missing, Unparsable}
    /\ report' = NoReport /\ UNCHANGED <<live, built, reload, task>>

\* SIGHUP; the handler runs one Reload at a time.
Reload ==
    /\ ~reload.busy
    /\ IF Loads(file)
       THEN /\ reload' = [busy |-> TRUE, new |-> file.config, rest |-> Copied, writing |-> FALSE,
                          restart |-> NeedRestart(file.config)]
            /\ report' = NoReport
       ELSE UNCHANGED reload /\ report' = [event |-> "CONFIG_INVALID", restart |-> {}]
    /\ UNCHANGED <<file, live, built, task, edits>>

\* A section is assigned, which is not one step for the tasks that read it.
\* Mutant: the intervals are copied with the rest.
Target_Intervals(section, new) ==
    [live EXCEPT ![section] = new[section], !.monitoring = new.monitoring]

Target(section, new) == [live EXCEPT ![section] = new[section]]

StartCopy ==
    /\ reload.busy /\ reload.rest # <<>> /\ ~reload.writing
    /\ reload' = [reload EXCEPT !.writing = TRUE]
    /\ report' = NoReport /\ UNCHANGED <<file, live, built, task, edits>>

EndCopy ==
    /\ reload.writing
    /\ live' = Target(Head(reload.rest), reload.new)
    /\ reload' = [reload EXCEPT !.writing = FALSE, !.rest = Tail(@)]
    /\ report' = NoReport /\ UNCHANGED <<file, built, task, edits>>

EndReload ==
    /\ reload.busy /\ reload.rest = <<>>
    /\ report' = [event |-> "CONFIG_RELOADED", restart |-> reload.restart]
    /\ reload' = NoReload /\ UNCHANGED <<file, live, built, task, edits>>

\* What a task reads of the health section: the old and the new fields in any mixture
\* while it is being written.
Torn(old, new) ==
    {[f \in DOMAIN old |-> IF f \in F THEN new[f] ELSE old[f]] : F \in SUBSET DOMAIN old}

\* The health task takes a copy of its section and goes on when that is enabled.
GoesOn(copy) == copy.enabled

Take ==
    LET writing == reload.writing /\ Head(reload.rest) = "health" IN
    /\ task = Resting /\ built.health.enabled
    /\ \E copy \in IF writing THEN Torn(live.health, reload.new.health) ELSE {live.health} :
          task' = IF GoesOn(copy) THEN [section |-> "health", copy |-> copy, torn |-> writing] ELSE Resting
    /\ report' = NoReport /\ UNCHANGED <<file, live, built, reload, edits>>

Done ==
    /\ task # Resting /\ task' = Resting
    /\ report' = NoReport /\ UNCHANGED <<file, live, built, reload, edits>>

\* The process is started again; with a file it does not accept it does not run.
Restart ==
    /\ Loads(file) /\ live' = file.config /\ built' = file.config
    /\ reload' = NoReload /\ report' = NoReport /\ task' = Resting
    /\ UNCHANGED <<file, edits>>

Next ==
    \/ Edit \/ Reload \/ StartCopy \/ EndCopy \/ EndReload
    \/ Take \/ Done \/ Restart

Spec == Init /\ [][Next]_vars

-----------------------------------------------------------------------------
(***************************************************************************)
(* A score is never computed from settings that were not accepted as such, *)
(* although the checks of a disabled section are skipped and such a        *)
(* section is applied to a process whose task runs, unless the copy was    *)
(* taken while the section was being written; and the sections a reload    *)
(* names are those in which the file it loaded differs from what the       *)
(* process was started with, however often it was reloaded in between.     *)
(***************************************************************************)
ReloadIsSound ==
    [][/\ task' # Resting => task'.torn \/ Scored(task'.copy)
       /\ report'.event = "CONFIG_RELOADED" =>
            report'.restart = {s \in Reported : Key(s, reload.new) # Key(s, built)}]_vars

(***************************************************************************)
(* configuration.md: "Applied on reload: alert thresholds, baseline        *)
(* settings, ... destination and lateral settings".  The baseline engine,  *)
(* the gates and the detectors keep what they were built with.             *)
(***************************************************************************)
Used(section) == IF section \in {"baseline", "lateral"} THEN built[section] ELSE live[section]

AppliedIsUsed ==
    ~reload.busy => \A i \in DOMAIN Copied : Used(Copied[i]) = live[Copied[i]]

(***************************************************************************)
(* agent.go, of Reload: settings that cannot be changed at runtime "are    *)
(* reported as needing a restart".                                         *)
(***************************************************************************)
WhatIsNotAppliedIsNamed ==
    [][report'.event = "CONFIG_RELOADED" =>
         \A s \in DOMAIN Default : reload.new[s] = live[s] \/ s \in report'.restart]_vars
=============================================================================
