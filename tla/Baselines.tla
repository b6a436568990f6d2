----------------------------- MODULE Baselines -----------------------------
(***************************************************************************)
(* The baselines of one metric: the engine of internal/baseline/engine.go, *)
(* the task that flushes it (internal/agent/monitor_anomaly.go), the       *)
(* baselines table (internal/database/store_baselines.go), and restarts.   *)
(*                                                                         *)
(* The analysis goroutine observes samples; the flush task takes the dirty *)
(* baselines, saves them in one transaction and prunes the engine; the     *)
(* retention task prunes the table (internal/agent/monitors.go).  Each     *)
(* call of the engine holds its lock throughout.                           *)
(*                                                                         *)
(* A baseline is abstracted to how many samples it holds and when it was   *)
(* last updated; its statistics are functions of the samples folded.  gen  *)
(* tells a baseline from an earlier one of the same bucket.                *)
(***************************************************************************)
EXTENDS Integers, FiniteSets

CONSTANTS Buckets,          \* time buckets of the metric
          MaxAge,           \* baseline.max_sample_age
          MaxSamples,       \* bound on the samples of a baseline
          MaxTime,          \* bound on the clock
          MaxFaults,        \* bound on failing saves and loads
          MaxRestarts       \* bound on restarts

ASSUME BaselinesAssumption ==
    /\ MaxAge \in Nat \ {0}
    /\ MaxSamples \in Nat /\ MaxTime \in Nat /\ MaxFaults \in Nat /\ MaxRestarts \in Nat
    /\ IsFiniteSet(Buckets)

VARIABLES
    baselines,   \* Engine.baselines: bucket -> baseline, for the buckets seen
    dirty,       \* Engine.dirty
    flushing,    \* the rows that flush took and has not saved, or none
    stored,      \* the baselines table
    now,         \* the clock
    \* history and bounds
    gen,         \* bucket -> how often the engine pruned it or failed to load it
    faults, restarts

vars == <<baselines, dirty, flushing, stored, now, gen, faults, restarts>>

GenBound == MaxTime + MaxRestarts

Baseline == [samples : 1..MaxSamples, updated : 0..MaxTime, gen : 0..GenBound]

Tables == UNION {[D -> Baseline] : D \in SUBSET Buckets}

EmptyTable == [b \in {} |-> 0]

\* No flush is under way, or its rows were saved and it has yet to prune.
NotFlushing == [flush |-> "none", rows |-> EmptyTable]
Flush(step, rows) == [flush |-> step, rows |-> rows]

TypeOK ==
    /\ baselines \in Tables
    /\ dirty \subseteq DOMAIN baselines
    /\ flushing.flush \in {"none", "saving", "pruning"} /\ flushing.rows \in Tables
    /\ stored \in Tables
    /\ now \in 0..MaxTime
    /\ gen \in [Buckets -> 0..GenBound]
    /\ faults \in 0..MaxFaults /\ restarts \in 0..MaxRestarts

Init ==
    /\ baselines = EmptyTable
    /\ dirty = {}
    /\ flushing = NotFlushing
    /\ stored = EmptyTable
    /\ now = 0
    /\ gen = [b \in Buckets |-> 0]
    /\ faults = 0 /\ restarts = 0

-----------------------------------------------------------------------------
\* table with the entries of rows replaced or added.
Merge(table, rows) ==
    [b \in DOMAIN table \cup DOMAIN rows |-> IF b \in DOMAIN rows THEN rows[b] ELSE table[b]]

Samples(table, b) == IF b \in DOMAIN table THEN table[b].samples ELSE 0

\* Engine.Observe: fold the sample, mark the bucket dirty.
Add(b) ==
    Merge(baselines,
          [k \in {b} |-> [samples |-> Samples(baselines, b) + 1,
                          updated |-> now,
                          gen |-> IF b \in DOMAIN baselines THEN baselines[b].gen ELSE gen[b]]])

\* Engine.Observe for one sample of bucket b.
Observe(b) ==
    /\ Samples(baselines, b) < MaxSamples
    /\ baselines' = Add(b)
    /\ dirty' = dirty \cup {b}
    /\ UNCHANGED <<flushing, stored, now, gen, faults, restarts>>

-----------------------------------------------------------------------------
\* Engine.TakeDirty, the first step of flush.
TakeDirty ==
    /\ flushing.flush = "none"
    /\ flushing' = Flush("saving", [b \in dirty |-> baselines[b]])
    /\ dirty' = {}
    /\ UNCHANGED <<baselines, stored, now, gen, faults, restarts>>

\* Mutant: the marks made while the rows were being saved are cleared with theirs.
Save_ClearsMarks ==
    /\ flushing.flush = "saving"
    /\ stored' = Merge(stored, flushing.rows)
    /\ flushing' = Flush("pruning", EmptyTable)
    /\ dirty' = {}
    /\ UNCHANGED <<baselines, now, gen, faults, restarts>>

\* Mutant: a row that exists is not updated.
Save_InsertsOnly ==
    /\ flushing.flush = "saving"
    /\ stored' = Merge(flushing.rows, stored)
    /\ flushing' = Flush("pruning", EmptyTable)
    /\ UNCHANGED <<baselines, dirty, now, gen, faults, restarts>>

\* DB.SaveBaselines: every row is inserted or updated in one transaction.
Save ==
    /\ flushing.flush = "saving"
    /\ stored' = Merge(stored, flushing.rows)
    /\ flushing' = Flush("pruning", EmptyTable)
    /\ UNCHANGED <<baselines, dirty, now, gen, faults, restarts>>

\* The transaction fails, and flush returns; the marks are already gone.
SaveFails ==
    /\ flushing.flush = "saving"
    /\ faults < MaxFaults
    /\ faults' = faults + 1
    /\ flushing' = NotFlushing
    /\ UNCHANGED <<baselines, dirty, stored, now, gen, restarts>>

Stale(table) == {b \in DOMAIN table : now - table[b].updated > MaxAge}

Without(table, B) == [b \in DOMAIN table \ B |-> table[b]]

\* Engine.Prune, the last step of flush.  The rows stay in the table.
Prune ==
    /\ flushing.flush = "pruning"
    /\ flushing' = NotFlushing
    /\ baselines' = Without(baselines, Stale(baselines))
    /\ dirty' = dirty \ Stale(baselines)
    /\ gen' = [b \in Buckets |-> IF b \in Stale(baselines) THEN gen[b] + 1 ELSE gen[b]]
    /\ UNCHANGED <<stored, now, faults, restarts>>

-----------------------------------------------------------------------------
\* DB.PruneBaselines, called by the retention task.
PruneRows ==
    /\ stored' = Without(stored, Stale(stored))
    /\ UNCHANGED <<baselines, dirty, flushing, now, gen, faults, restarts>>

\* The process stops, gracefully or not, and the next one loads the table, or logs
\* that it cannot.  No part of a shutdown flushes.
Restart ==
    /\ restarts < MaxRestarts
    /\ restarts' = restarts + 1
    /\ \/ baselines' = stored /\ UNCHANGED <<gen, faults>>
       \/ /\ faults < MaxFaults
          /\ faults' = faults + 1
          /\ baselines' = EmptyTable
          /\ gen' = [b \in Buckets |-> IF b \in DOMAIN stored THEN gen[b] + 1 ELSE gen[b]]
    /\ dirty' = {}
    /\ flushing' = NotFlushing
    /\ UNCHANGED <<stored, now>>

Clock ==
    /\ now < MaxTime
    /\ now' = now + 1
    /\ UNCHANGED <<baselines, dirty, flushing, stored, gen, faults, restarts>>

FlushTask == TakeDirty \/ Save \/ Prune

Next ==
    \/ \E b \in Buckets : Observe(b)
    \/ FlushTask
    \/ SaveFails
    \/ PruneRows
    \/ Restart
    \/ Clock

Spec == Init /\ [][Next]_vars

\* The flush task re-arms its timer after every run.
FairSpec == Spec /\ WF_vars(FlushTask)

-----------------------------------------------------------------------------
Saved(b) == b \in DOMAIN stored /\ stored[b] = baselines[b]

\* A live baseline that differs from its row is marked dirty or in the hands of a
\* flush, unless a statement has failed: no interleaving of samples, flushes and
\* retention loses a mark.
UnsavedIsMarked ==
    faults = 0 =>
      \A b \in DOMAIN baselines :
        \/ Saved(b) \/ b \in Stale(baselines)
        \/ b \in dirty
        \/ b \in DOMAIN flushing.rows /\ flushing.rows[b] = baselines[b]

\* The table never runs ahead of the engine, nor a flush behind the table: a row is
\* an earlier state of the baseline it stores, and saving never takes samples away.
RowsAreEarlierStates ==
    /\ \A b \in DOMAIN baselines \cap DOMAIN stored :
         stored[b].gen = baselines[b].gen => stored[b].samples <= baselines[b].samples
    /\ \A b \in DOMAIN flushing.rows \cap DOMAIN stored :
         stored[b].gen = flushing.rows[b].gen => stored[b].samples <= flushing.rows[b].samples

\* What the run checks of both.  (Engine.TakeDirty, SaveBaselines, PruneBaselines)
RowsFollowEngine == UnsavedIsMarked /\ RowsAreEarlierStates

\* When the samples stop and no statement has failed, the table catches up with the
\* engine.
TableCatchesUp == []<>(faults = 0 => \A b \in DOMAIN baselines : Saved(b))

=============================================================================
