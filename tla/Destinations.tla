---------------------------- MODULE Destinations ----------------------------
(***************************************************************************)
(* The history of the remote endpoints: the analyzer                       *)
(* (destinations/analyzer.go), its collector and enrichment task           *)
(* (agent/monitor_destinations.go) and the destinations table              *)
(* (database/store_destinations.go), with retention deleting rows and      *)
(* restarts of the process.                                                *)
(*                                                                         *)
(* An endpoint is an address, a port and a protocol; what the address has  *)
(* in common with others is AddressOf.  The connections task walks a       *)
(* snapshot one endpoint at a time; the enrichment and retention tasks run *)
(* in between.  Volume and fan-out findings are left out.                  *)
(***************************************************************************)
EXTENDS Integers, Sequences, SequencesExt, FiniteSetsExt

CONSTANTS Endpoints, AddressOf, PortOf,
          ExpectedPorts, FamiliarAfter,   \* isUnexpectedPort
          Learning, NewWindow, ReportEvery, RarityEvery,
          MinHistory, Rank,   \* how many rows a percentile takes, and which of them it is
          RetentionTime, QueueSize,
          MaxTime, MaxFaults, MaxRestarts

VARIABLES
    table,       \* endpoint -> its row, for the endpoints that have one
    reported,    \* Analyzer.reported: <<kind, endpoint>> -> when
    ports,       \* Analyzer.portProfile
    rarity,      \* Analyzer.rarityThreshold and when it was refreshed
    start,       \* when this process created the analyzer
    newIDs,      \* destinationStore.newIDs: the rows to be enriched, by their ids
    queue,       \* enrichQueue
    cycle,       \* the rest of the snapshot under analysis and its findings, or Idle
    now, faults, restarts,
    \* history
    known,       \* endpoints contacted, whose rows retention has not deleted since
    lost         \* rows whose enrichment was given up

memory == <<reported, ports, rarity, start, newIDs, queue>>
vars == <<memory, table, cycle, now, faults, restarts, known, lost>>

Idle == [busy |-> FALSE, rest |-> <<>>, found |-> {}]

Kinds == {"new", "rare", "port"}

NoPorts == [p \in Range(PortOf) |-> 0]

Forgotten ==
    /\ reported' = <<>> /\ ports' = NoPorts /\ rarity' = [threshold |-> 0, at |-> -RarityEvery]
    /\ start' = now /\ newIDs' = <<>> /\ queue' = <<>>

Init ==
    /\ table = <<>> /\ cycle = Idle /\ known = {} /\ lost = {}
    /\ reported = <<>> /\ ports = NoPorts /\ rarity = [threshold |-> 0, at |-> -RarityEvery]
    /\ start = 0 /\ newIDs = <<>> /\ queue = <<>>
    /\ now = 0 /\ faults = 0 /\ restarts = 0

TypeOK ==
    /\ DOMAIN table \subseteq Endpoints /\ DOMAIN reported \subseteq Kinds \X Endpoints
    /\ \A e \in DOMAIN table : table[e].contacts > 0 /\ table[e].first <= table[e].last
    /\ Len(queue) <= QueueSize /\ Range(newIDs) \cup Range(queue) \subseteq Endpoints \X Nat

Assign(f, k, v) == [j \in DOMAIN f \cup {k} |-> IF j = k THEN v ELSE f[j]]
Drop(f, ks) == [j \in DOMAIN f \ ks |-> f[j]]

LearningAt(t) == t - start < Learning

-----------------------------------------------------------------------------
\* DB.UpsertDestination.
Upserted(e) ==
    Assign(table, e,
           IF e \in DOMAIN table THEN [table[e] EXCEPT !.contacts = @ + 1, !.last = now]
           ELSE [contacts |-> 1, first |-> now, last |-> now, enriched |-> FALSE])

\* The id of an endpoint's row: one that follows a deleted row is another row.
RowID(rows, e) == <<e, rows[e].first>>

\* DB.DestinationByEndpoint: the row last seen among those whose address matches, one of
\* them when several are as recent, and no row when it is not the endpoint's.
MatchedBy(rows, e) ==
    LET same == {d \in DOMAIN rows : AddressOf[d] = AddressOf[e]}
    IN {d \in same : \A o \in same : rows[o].last <= rows[d].last}

\* What destinationStore.Upsert makes of it: the contacts of the row, or none.
ContactsRead(rows, e, match) == IF match = e THEN rows[e].contacts ELSE 0

\* shouldReport.
ShouldReport(kind, e, every) ==
    <<kind, e>> \in DOMAIN reported => now - reported[<<kind, e>>] >= every

IsRare(contacts) == rarity.threshold > 0 /\ contacts <= rarity.threshold

IsUnexpectedPort(p) == p \notin ExpectedPorts /\ ports[p] + 1 < FamiliarAfter

FoundAbout(e, isNew, contacts) ==
    {k \in Kinds : /\ ~LearningAt(now)
                   /\ CASE k = "new"  -> isNew /\ ShouldReport(k, e, NewWindow)
                        [] k = "rare" -> ~isNew /\ IsRare(contacts) /\ ShouldReport(k, e, ReportEvery)
                        [] k = "port" -> IsUnexpectedPort(PortOf[e]) /\ ShouldReport(k, e, ReportEvery)}

\* refreshRarity: the percentile of the contacts of all the rows.
Frequencies == SortSeq(SetToSeq({<<table[d].contacts, d>> : d \in DOMAIN table}),
                       LAMBDA a, b : a[1] < b[1])

Refreshed(t) ==
    IF t - rarity.at <= RarityEvery THEN rarity
    ELSE [at |-> t,
          threshold |-> IF Len(Frequencies) < MinHistory THEN 0 ELSE Frequencies[Rank][1]]

\* The next collection, and Analyzer.Observe begins; a snapshot may be empty.
Begin(batch) ==
    /\ ~cycle.busy /\ now < MaxTime /\ now' = now + 1
    /\ cycle' = [busy |-> TRUE, rest |-> batch, found |-> {}]
    /\ rarity' = Refreshed(now')
    /\ UNCHANGED <<reported, ports, start, newIDs, queue, table, faults, restarts, known, lost>>

\* The loop of Analyzer.Observe for endpoint e, once its row was written.
Analyse(e, rows) ==
    LET isNew == e \notin DOMAIN table
    IN \E match \in MatchedBy(rows, e) :
         LET contacts == IF isNew THEN 1 ELSE ContactsRead(rows, e, match)
             found == {<<k, e>> : k \in FoundAbout(e, isNew, contacts)}
         IN /\ newIDs' = IF isNew THEN Append(newIDs, RowID(rows, e)) ELSE newIDs
            /\ ports' = [ports EXCEPT ![PortOf[e]] = Min({@ + 1, FamiliarAfter})]
            /\ reported' = [k \in DOMAIN reported \cup found |->
                              IF k \in found THEN now ELSE reported[k]]
            /\ cycle' = [cycle EXCEPT !.rest = Tail(@), !.found = @ \cup found]

\* Mutant: while it learns, the analyzer does not record either.
Recorded_NotLearning(e) == IF LearningAt(now) THEN table ELSE Upserted(e)

Recorded(e) == Upserted(e)

ObserveOne ==
    /\ cycle.busy /\ cycle.rest # <<>>
    /\ LET e == Head(cycle.rest)
       IN Analyse(e, Upserted(e)) /\ table' = Recorded(e) /\ known' = known \cup {e}
    /\ UNCHANGED <<rarity, start, queue, now, faults, restarts, lost>>

\* What takeNew has not taken when the cycle fails.
Waiting == newIDs

\* A statement fails: the cycle ends there, with the findings it had, and the new endpoints
\* wait for the next one.  When it is the look-up, the row has been updated.
ObserveFails ==
    /\ cycle.busy /\ cycle.rest # <<>>
    /\ faults < MaxFaults /\ faults' = faults + 1
    /\ cycle' = Idle /\ newIDs' = Waiting
    /\ LET e == Head(cycle.rest)
       IN table' = table \/ (e \in DOMAIN table /\ table' = Upserted(e))
    /\ UNCHANGED <<reported, ports, rarity, start, queue, now, restarts, known, lost>>

\* The findings are reported, memos a day old are dropped and the new endpoints queued as
\* far as there is room.
Finish ==
    /\ cycle.busy /\ cycle.rest = <<>>
    /\ cycle' = Idle
    /\ reported' = Drop(reported, {k \in DOMAIN reported : now - reported[k] > ReportEvery})
    /\ newIDs' = <<>>
    /\ LET room == Min({QueueSize - Len(queue), Len(newIDs)})
       IN /\ queue' = queue \o SubSeq(newIDs, 1, room)
          /\ lost' = lost \cup Range(SubSeq(newIDs, room + 1, Len(newIDs)))
    /\ UNCHANGED <<ports, rarity, start, table, now, faults, restarts, known>>

-----------------------------------------------------------------------------
\* One request of the enrichment task.  It marks no row when the look-ups find nothing, the
\* deadline has passed, the update fails or the row is gone.
Enrich ==
    /\ queue # <<>> /\ queue' = Tail(queue)
    /\ LET id == Head(queue)
       IN \/ /\ id[1] \in DOMAIN table /\ RowID(table, id[1]) = id
             /\ table' = [table EXCEPT ![id[1]].enriched = TRUE] /\ UNCHANGED lost
          \/ lost' = lost \cup {id} /\ UNCHANGED table
    /\ UNCHANGED <<reported, ports, rarity, start, newIDs, cycle, now, faults, restarts, known>>

\* Retention deletes what was last seen too long ago.
Prune ==
    LET old == {e \in DOMAIN table : now - table[e].last > RetentionTime}
    IN /\ old # {} /\ table' = Drop(table, old) /\ known' = known \ old
          /\ UNCHANGED <<memory, cycle, now, faults, restarts, lost>>

Restart ==
    /\ restarts < MaxRestarts /\ restarts' = restarts + 1
    /\ Forgotten /\ cycle' = Idle
    /\ lost' = lost \cup Range(newIDs) \cup Range(queue)
    /\ UNCHANGED <<table, now, faults, known>>

Snapshots == UNION {SetToSeqs(S) : S \in SUBSET Endpoints}

Next ==
    \/ \E batch \in Snapshots : Begin(batch)
    \/ ObserveOne \/ ObserveFails \/ Finish
    \/ Enrich \/ Prune \/ Restart

Spec == Init /\ [][Next]_vars

-----------------------------------------------------------------------------
(***************************************************************************)
(* An endpoint is called new once, at its first contact: neither what was  *)
(* met while learning, nor what an earlier process met, nor what a failed  *)
(* cycle recorded is called new later.                                     *)
(***************************************************************************)
NewIsFirstContact ==
    [][\A e \in Endpoints :
         <<"new", e>> \in cycle'.found \ cycle.found => e \notin known /\ now - start >= Learning]_vars

(***************************************************************************)
(* The rows to be enriched survive failing cycles: each is enriched, waits *)
(* for it, or was given up for a full queue, a look-up that said nothing   *)
(* or a restart.                                                           *)
(***************************************************************************)
EnrichmentIsPending ==
    \A e \in DOMAIN table :
      table[e].enriched \/ RowID(table, e) \in Range(newIDs) \cup Range(queue) \cup lost

\* What the run checks of both.  (Analyzer.Observe, takeNew)
HistoryIsKept == []EnrichmentIsPending /\ NewIsFirstContact

(***************************************************************************)
(* detection-engine.md: a destination is rare when its "contact count [is] *)
(* below the rare_percentile of all destinations".                         *)
(***************************************************************************)
RareIsRare ==
    [][\A e \in Endpoints :
         <<"rare", e>> \in cycle'.found \ cycle.found => table'[e].contacts <= rarity.threshold]_vars
=============================================================================
