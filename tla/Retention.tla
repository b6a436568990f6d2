------------------------------ MODULE Retention ------------------------------
(***************************************************************************)
(* Measurements, their hourly roll-up and the charts drawn from both:      *)
(* internal/database/retention.go and store_measurements.go.               *)
(*                                                                         *)
(* Prune is a list of statements that are not in one transaction: the      *)
(* roll-up, then one DELETE per table.  It ends at the first that fails,   *)
(* and the process may stop between any two; the next retention cycle      *)
(* starts at the top again.  The collectors insert, and the API draws      *)
(* charts, between the statements.                                         *)
(*                                                                         *)
(* One metric of one target is modelled, with at most one sample per unit  *)
(* of time; a roll-up is abstracted to how often each sample is in it.     *)
(***************************************************************************)
EXTENDS Integers, FiniteSets, FiniteSetsExt

CONSTANTS Hour,              \* units of time per bucket of measurement_hourly
          MeasurementsDays,  \* database.retention.measurements_days, in units
          AggregatesDays,    \* database.retention.aggregates_days, in units
          MaxTime,           \* bound on the clock
          MaxFaults          \* bound on failing statements and stops

VARIABLES
    raw,       \* table measurements: the times of its rows with ok = 1
    summed,    \* table measurement_hourly: how often the sample of a time is in it
    now,
    prune,     \* the statement Prune is about to run, and the clock it read
    downsample,\* database.downsample
    \* history and bounds
    taken,     \* times at which a sample was stored
    aged,      \* times whose bucket retention deleted from measurement_hourly
    faults

vars == <<raw, summed, now, prune, downsample, taken, aged, faults>>

Times == 0..MaxTime

\* Prune's statements that touch the two tables, in their order; "others" are the
\* DELETEs between them and after them.
Statements == <<"rollup", "others", "measurements", "others", "hourly", "others">>
Idle == [at |-> 0, clock |-> 0]

TypeOK ==
    /\ raw \subseteq taken /\ taken \subseteq Times /\ aged \subseteq Times
    /\ summed \in [Times -> 0..(MaxFaults + 1)]
    /\ now \in Times /\ downsample \in BOOLEAN /\ faults \in 0..MaxFaults
    /\ prune \in [at : 0..6, clock : Times]

Init ==
    /\ raw = {} /\ taken = {} /\ aged = {}
    /\ summed = [t \in Times |-> 0]
    /\ now = 0 /\ prune = Idle /\ faults = 0
    /\ downsample \in BOOLEAN

-----------------------------------------------------------------------------
BucketOf(t) == (t \div Hour) * Hour

\* The rows a statement with this age limit reaches.
Older(days) == {t \in Times : t < prune.clock - days}

Tick ==
    /\ now < MaxTime
    /\ now' = now + 1
    /\ UNCHANGED <<raw, summed, prune, downsample, taken, aged, faults>>

\* InsertMeasurements: the batch is one transaction, stored or not.
Insert ==
    /\ now \notin taken
    /\ raw' = raw \cup {now} /\ taken' = taken \cup {now}
    /\ UNCHANGED <<summed, now, prune, downsample, aged, faults>>

StartPrune ==
    /\ prune.at = 0
    /\ prune' = [at |-> 1, clock |-> now]
    /\ UNCHANGED <<raw, summed, now, downsample, taken, aged, faults>>

\* downsampleMeasurements: the samples of rows older than the cutoff are added to the
\* aggregates that are there.
\* Mutant: the aggregates are built up to the moment of the call, the rows are deleted up
\* to the cutoff: what stays is added again next time.
RollUp_WithoutCutoff ==
    summed' = [t \in Times |->
        IF downsample /\ t \in raw /\ t < prune.clock THEN summed[t] + 1 ELSE summed[t]]

RollUp ==
    summed' = [t \in Times |->
        IF downsample /\ t \in raw \cap Older(MeasurementsDays)
        THEN summed[t] + 1 ELSE summed[t]]

\* The next statement of Prune succeeds.
RunStatement ==
    LET statement == Statements[prune.at] IN
    /\ prune.at > 0
    /\ CASE statement = "rollup" -> RollUp /\ UNCHANGED <<raw, aged>>
         [] statement = "measurements" ->
                raw' = raw \ Older(MeasurementsDays) /\ UNCHANGED <<summed, aged>>
         [] statement = "hourly" ->
                LET gone == {t \in Times : BucketOf(t) < prune.clock - AggregatesDays} IN
                /\ summed' = [t \in Times |-> IF t \in gone THEN 0 ELSE summed[t]]
                /\ aged' = aged \cup gone
                /\ UNCHANGED raw
         [] OTHER -> UNCHANGED <<raw, summed, aged>>
    /\ prune' = IF prune.at = 6 THEN Idle ELSE [prune EXCEPT !.at = @ + 1]
    /\ UNCHANGED <<now, downsample, taken, faults>>

\* It fails, or the process stops before it: nothing of it is kept.
StopPrune ==
    /\ prune.at > 0 /\ faults < MaxFaults
    /\ prune' = Idle /\ faults' = faults + 1
    /\ UNCHANGED <<raw, summed, now, downsample, taken, aged>>

Next == Tick \/ Insert \/ StartPrune \/ RunStatement \/ StopPrune

Spec == Init /\ [][Next]_vars

-----------------------------------------------------------------------------
\* TimeSeries: the points of the raw rows, and before the first of them those of the
\* roll-up when the raw rows start later than the chart.  How often the sample of time t
\* is in the chart that starts at since.
InChart(t, since, bucket) ==
    LET rows  == {r \in raw : r >= since /\ r <= now}
        first == IF rows = {} THEN now ELSE (Min(rows) \div bucket) * bucket
        older == rows = {} \/ first > since + bucket
    IN (IF t \in rows THEN 1 ELSE 0)
       + (IF older /\ BucketOf(t) >= since /\ BucketOf(t) < first THEN summed[t] ELSE 0)

(***************************************************************************)
(* Retention deletes no sample that is in no aggregate, unless the         *)
(* aggregate is too old itself; and unless a retention run was cut short,  *)
(* no sample is in the aggregates twice, nor both in them and among the    *)
(* rows except while Prune is between its roll-up and the deletion.  (Of   *)
(* a run cut short there the README tells.)                                *)
(***************************************************************************)
RollUpIsExact ==
    downsample =>
        /\ \A t \in taken : t \in raw \/ summed[t] > 0 \/ t \in aged
        /\ faults = 0 =>
              \A t \in taken : /\ summed[t] <= 1
                               /\ t \in raw /\ summed[t] > 0 => prune.at \in {2, 3}

(***************************************************************************)
(* Hence a chart drawn outside a retention run shows every sample that is  *)
(* not aged exactly once, however often the rows moved, except at its      *)
(* edges: the first bucket of the range, and the bucket in which the       *)
(* roll-ups end and the raw rows begin.                                    *)
(***************************************************************************)
ChartsAreComplete ==
    faults = 0 /\ prune.at = 0 /\ downsample =>
        \A since \in Times, bucket \in 1..(2 * Hour) :
            \A t \in taken \ aged :
                \/ t < since + Max({bucket, Hour})
                \/ t \notin raw /\ \E r \in raw : r \div bucket = t \div bucket
                \/ InChart(t, since, bucket) = 1

\* What the run checks of both.  (DB.Prune, DB.TimeSeries)
SamplesAreKept == RollUpIsExact /\ ChartsAreComplete

(***************************************************************************)
(* retention.go says of the roll-up that "running it twice does not        *)
(* double-count".                                                          *)
(***************************************************************************)
RollUpIsIdempotent == \A t \in taken : summed[t] <= 1
=============================================================================
