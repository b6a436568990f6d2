------------------------------- MODULE MCHost --------------------------------
(***************************************************************************)
(* The instance of Host that the run explores.                             *)
(***************************************************************************)
EXTENDS Host

\* The built-in configuration, with names for addresses and the like, and edits of the file:
\* an invalid one, the same in a disabled section, and changes that do and do not apply.
V == [name |-> "a", valid |-> TRUE]
NoTimes == [none |-> 3600000]
Defaults == [
  service |-> [times |-> [shutdown |-> 20000], log_dir |-> "a"],
  monitoring |-> [times |-> [health |-> 15000, probe_timeout |-> 5000], jitter |-> 2000],
  connectivity |-> [times |-> NoTimes, targets |-> <<[name |-> "a", type |-> "tcp",
      valid |-> TRUE], [name |-> "b", type |-> "tcp", valid |-> TRUE]>>,
     required_success |-> 1, ip_literals |-> <<V>>, https_targets |-> <<V>>,
         failures_before_outage |-> 2, successes_before_recovery |-> 2,
         gateway_probe_method |-> "auto"],
  dns |-> [times |-> [timeout |-> 3000], names |-> <<V>>, servers |-> <<>>,
      use_system_resolver |-> TRUE],
  latency |-> [times |-> [timeout |-> 2000], targets |-> <<V>>, probes |-> 5,
      method |-> "auto"],
  speed_test |-> [times |-> [duration |-> 10000], enabled |-> TRUE, streams |-> 4,
      max_download_bytes |-> 1048576, upload_enabled |-> TRUE, max_upload_bytes |-> 524288,
      warmup |-> 2000,
     endpoints |-> <<[name |-> "a", valid |-> TRUE, enabled |-> TRUE]>>],
  expected |-> [times |-> NoTimes, mbps |-> 0],
  traffic |-> [times |-> NoTimes, spike_z_score |-> 4, sustained_seconds |-> 60,
      large_transfer_mb |-> 500, quiet_hours_start |-> 1, quiet_hours_end |-> 6],
  destinations |-> [times |-> NoTimes, rare_percentile |-> 5, fanout_threshold |-> 60,
      high_volume_mb |-> 500, ignore |-> <<>>],
  threat_intel |-> [times |-> NoTimes, max_indicators |-> 1000, feeds |-> <<>>],
  lateral |-> [times |-> [window |-> 300000], host_sweep |-> 10, port_scan |-> 10,
      failed |-> 10, admin_sweep |-> 5],
  public_ip |-> [times |-> NoTimes, enabled |-> TRUE, providers |-> <<V>>,
      other_urls |-> <<V>>],
  routing |-> [times |-> NoTimes, enabled |-> TRUE, destinations |-> <<V>>,
      max_hops |-> 20, probes_per_hop |-> 2, hop_change_tolerance |-> 1],
  baseline |-> [times |-> [window |-> 3600000], min_observations |-> 20,
      bucket_hours |-> 6, reservoir_size |-> 200, max_sample_age |-> 3600000],
  alerts |-> [times |-> NoTimes, degradation_percent |-> 30, packet_loss_percent |-> 5,
      persistence |-> 3, recovery_persistence |-> 2, cooldown |-> 600],
  correlation |-> [times |-> [window |-> 120000]],
  health |-> [times |-> [window |-> 3600000], enabled |-> TRUE, good |-> 20, bad |-> 200,
      weights |-> <<1, 1>>, warn_below |-> 60],
  level |-> [times |-> NoTimes, level |-> "info"],
  logging |-> [times |-> NoTimes, sinks |-> {"text"}, file_mode_safe |-> TRUE,
      max_file_mb |-> 20, max_archives |-> 5, retention_days |-> 30],
  database |-> [times |-> [busy |-> 5000], path |-> "a", retention |-> <<30, 30>>],
  dashboard |-> [times |-> NoTimes, enabled |-> TRUE, port |-> 8080,
      address_valid |-> TRUE, loopback |-> TRUE, token |-> "none", tls_cert |-> FALSE,
      tls_key |-> FALSE, rate_limit |-> 60],
  privacy |-> [times |-> NoTimes, payload_inspection |-> FALSE] ]

Edited ==
  LET D == Defaults
  IN { D,
  [D EXCEPT !.health.good = 300, !.health.bad = 400, !.monitoring.jitter = 0],
  [D EXCEPT !.health.good = 300, !.health.enabled = FALSE],
  [D EXCEPT !.health.good = 300],
  [D EXCEPT !.monitoring.times["health"] = 30000, !.baseline.min_observations = 5],
  [D EXCEPT !.connectivity.required_success = 2, !.dashboard.port = 9090]}

\* Two endpoints of one address.
MCAddressOf == [e \in {"a80", "a443"} |-> "a"]
MCPortOf == [e \in {"a80", "a443"} |-> IF e = "a80" THEN 80 ELSE 443]

MCLatest == <<2, 1, 0>>

MCRecoveryDelays == <<1, 2>>

MCDocuments == {<<"junk">>, <<"a", "junk", "b">>}

=============================================================================
