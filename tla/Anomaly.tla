------------------------------- MODULE Anomaly -------------------------------
(***************************************************************************)
(* The detection pipeline of one metric (agent/monitor_anomaly.go): every  *)
(* sample is folded into the baseline of its time bucket                   *)
(* (baseline/engine.go), compared with a reference by a deviation or a     *)
(* z-score rule behind a gate, and shown to the sustained rule             *)
(* (anomaly/rules.go).                                                     *)
(*                                                                         *)
(* A baseline is the sequence of its samples, fewer than the window keeps; *)
(* mean, median and MAD are computed from it.  The clock advances at every *)
(* cycle of the collector, which publishes a sample or, when it fails or   *)
(* the sample is invalid, none.                                            *)
(***************************************************************************)
EXTENDS GateState, Integers, Sequences, SequencesExt

CONSTANTS Rule,              \* "deviation" or "zscore"
          Buckets,           \* how many time buckets the clock goes round
          Values,            \* the values a sample may have
          Threshold,         \* percent, or hundredths of a robust deviation
          MinAbsolute,
          MinObservations,   \* baseline.min_observations
          Floor, MinDuration, Repeat,   \* of the sustained rule
          Cooldown, MaxTime

VARIABLES
    windows,     \* bucket -> the samples of its baseline
    gate,
    sustained,   \* sustainedState
    now,
    told,        \* what the last cycle emitted: the rule's event and the sustained one
    \* history
    seen,        \* instant -> the sample published then, or None
    compared     \* instant -> how many samples its sample was compared with, or 0

vars == <<windows, gate, sustained, now, told, seen, compared>>

None == -1
Nothing == [rule |-> "none", sustained |-> FALSE]
NotSustained == [since |-> ZeroTime, reported |-> ZeroTime]

\* Engine.BucketFor.
BucketFor(t) == t % Buckets

\* The k-th of the numbers of s when they are sorted.
Smallest(s, k) ==
    CHOOSE x \in ToSet(s) : /\ Cardinality({i \in DOMAIN s : s[i] < x}) < k
                            /\ Cardinality({i \in DOMAIN s : s[i] <= x}) >= k

\* Twice the median of the numbers of s.
Median2(s) ==
    LET n == Len(s)
    IN IF n % 2 = 1 THEN 2 * Smallest(s, (n + 1) \div 2)
       ELSE Smallest(s, n \div 2) + Smallest(s, n \div 2 + 1)

\* Four times the median absolute deviation.
MAD4(s) ==
    LET m == Median2(s)
        Distance(x) == IF 2 * x > m THEN 2 * x - m ELSE m - 2 * x
    IN Median2([i \in DOMAIN s |-> Distance(s[i])])

Total(s) == FoldSeq(+, 0, s)

\* The value compared with, as a fraction: the median, or the mean when that is zero.
Reference(s) == IF Median2(s) > 0 THEN [n |-> Median2(s), d |-> 2] ELSE [n |-> Total(s), d |-> Len(s)]

\* PercentDeviation against the reference, and not before the value matters.
DeviationBreach(ref, v) ==
    (ref.d * v - ref.n) * 100 >= Threshold * ref.n /\ v >= MinAbsolute

\* RobustZ; relative to the reference when the metric has been perfectly steady.
ZScoreBreach(ref, mad4, v) ==
    LET above == ref.d * v - ref.n
    IN /\ v >= MinAbsolute
       /\ IF mad4 > 0 THEN 4000000 * above >= Threshold * 14826 * mad4 * ref.d
          ELSE IF ref.n > 0 THEN 100 * above >= Threshold * ref.n ELSE v > 0

Breached(base, v) ==
    LET ref == Reference(base)
    IN IF Rule = "deviation" THEN DeviationBreach(ref, v) ELSE ZScoreBreach(ref, MAD4(base), v)

Usable(base) == Len(base) >= MinObservations

\* DeviationRule.Evaluate returns without telling the gate when the reference is zero.
Comparable(base) == Usable(base) /\ (Rule = "zscore" \/ Reference(base).n > 0)

Init ==
    /\ windows = [b \in 0..Buckets-1 |-> <<>>]
    /\ gate = NewState /\ sustained = NotSustained
    /\ now = 1 /\ told = Nothing /\ seen = <<>> /\ compared = <<>>

TypeOK ==
    /\ windows \in [0..Buckets-1 -> Seq(Values)] /\ gate \in GateStates
    /\ now \in 1..MaxTime
    /\ seen \in Seq(Values \cup {None}) /\ Len(seen) = now - 1
    /\ compared \in Seq(Nat) /\ Len(compared) = now - 1
    /\ sustained.since < now /\ sustained.reported < now

Observe(v) == [windows EXCEPT ![BucketFor(now)] = Append(@, v)]

\* Engine.Best, after the fold: the bucket, or all the buckets together.
Best(bases) ==
    IF Usable(bases[BucketFor(now)]) THEN bases[BucketFor(now)]
    ELSE FlattenSeq([b \in 1..Buckets |-> bases[b - 1]])

\* The baseline as it was before the sample, when that can be used.
Prior(v) == IF Usable(windows[BucketFor(now)]) THEN windows[BucketFor(now)] ELSE Best(Observe(v))

\* reportDeviation and reportZScore: the end of a spike is not an event.
Evaluate(base, v) ==
    IF ~Comparable(base) THEN UNCHANGED gate /\ told'.rule = "none"
    ELSE IF Breached(base, v)
    THEN /\ gate' = AfterBreach(gate, now, Cooldown)
         /\ told'.rule = IF Fires(gate, now, Cooldown) THEN "deviates" ELSE "none"
    ELSE /\ gate' = AfterClear(gate)
         /\ told'.rule = IF Recovers(gate) /\ Rule = "deviation" THEN "recovered" ELSE "none"

\* Reported once it has lasted, and again every Repeat.
Due(since) ==
    /\ now - since >= MinDuration
    /\ sustained.reported # ZeroTime => Repeat > 0 /\ now - sustained.reported >= Repeat

StillSustained ==
    LET since == IF sustained.since = ZeroTime THEN now ELSE sustained.since
    IN [since |-> since, reported |-> IF Due(since) THEN now ELSE sustained.reported]

\* Mutant: a sample below the floor ends the report and not the condition.
Sustained_KeepsSince(v) ==
    IF v < Floor THEN [sustained EXCEPT !.reported = ZeroTime] ELSE StillSustained

\* SustainedRule.Observe.
Sustained(v) == IF v < Floor THEN NotSustained ELSE StillSustained

Tick(s, n) ==
    /\ now < MaxTime /\ now' = now + 1
    /\ seen' = Append(seen, s) /\ compared' = Append(compared, n)

\* Samples, for a valid sample.
Sample(v) ==
    /\ Tick(v, IF Comparable(Prior(v)) THEN Len(Prior(v)) ELSE 0)
    /\ windows' = Observe(v)
    /\ told' \in [rule : {"none", "deviates", "recovered"}, sustained : BOOLEAN]
    /\ Evaluate(Prior(v), v)
    /\ sustained' = Sustained(v)
    /\ told'.sustained = (sustained'.reported = now)

NoSample ==
    /\ Tick(None, 0) /\ told' = Nothing
    /\ UNCHANGED <<windows, gate, sustained>>

Next == NoSample \/ \E v \in Values : Sample(v)

Spec == Init /\ [][Next]_vars

-----------------------------------------------------------------------------
\* The instants at which there was a sample, and at which one was compared.
Sampled == {t \in DOMAIN seen : seen[t] # None}
Judged == {t \in DOMAIN compared : compared[t] > 0}

\* The sample of instant t is worth reporting, and beyond the threshold from one seen so far.
Deviates(t) ==
    /\ seen[t] >= MinAbsolute
    /\ \E u \in Sampled : u <= t /\ seen[t] * 100 >= (100 + Threshold) * seen[u]

(***************************************************************************)
(* A deviation is reported only when the samples compared last, as many as *)
(* the persistence, are each worth reporting and each beyond the threshold *)
(* from something that had been seen: whichever bucket, or the aggregate,  *)
(* each of them was compared with.                                         *)
(***************************************************************************)
DeviationsAreReal ==
    told.rule = "deviates" /\ Rule = "deviation" =>
      /\ Cardinality(Judged) >= Persistence
      /\ \A t \in Judged :
           Cardinality({u \in Judged : u > t}) < Persistence => Deviates(t)

(***************************************************************************)
(* Sustained use is reported when it is: no sample since MinDuration ago   *)
(* was below the floor, and samples that stay above it for the duration,   *)
(* or for the repeat interval, are not passed over.                        *)
(***************************************************************************)
Above(from) == \A t \in from..Len(seen) : seen[t] # None => seen[t] >= Floor

SustainedUseIsReported ==
    /\ told.sustained =>
         Len(seen) > MinDuration /\ Above(Len(seen) - MinDuration)
    /\ \A from \in 1..Len(seen) :
         Above(from) /\ seen[from] # None /\ seen[Len(seen)] # None
           /\ Len(seen) - from >= MinDuration
           => /\ sustained.reported # ZeroTime
              /\ Repeat > 0 => Len(seen) - sustained.reported < Repeat

\* What the run checks of either rule.  (anomalyMonitor.Samples)
AnomaliesAreReal == DeviationsAreReal /\ SustainedUseIsReported

(***************************************************************************)
(* monitor_anomaly.go says that a sample is "compared against the history  *)
(* that existed before it", and engine.go why that is essential.           *)
(***************************************************************************)
ReferenceIsHistory ==
    \A t \in Judged : compared[t] <= Cardinality({u \in Sampled : u < t})
=============================================================================
