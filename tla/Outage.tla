------------------------------- MODULE Outage -------------------------------
(***************************************************************************)
(* The outage lifecycle: internal/agent/monitor_connectivity.go over the   *)
(* outages table (internal/database/store_outages.go) and the runtime      *)
(* snapshot (internal/agent/state.go), with the three other activities     *)
(* that touch the same state: the manual "diagnostics" task, the           *)
(* "state-refresh" task and retention pruning; and with restarts.          *)
(*                                                                         *)
(* The connectivity task is one goroutine.  pc says where its current      *)
(* check stands:                                                           *)
(*   idle -> diagnosing -> opening -> idle     the check opened an outage  *)
(*   idle -> closing -> restoring -> idle      the check closed one        *)
(*   idle -> refreshing -> idle                an open one is re-diagnosed *)
(* A database statement may fail: the check runs under a deadline of       *)
(* probe_timeout + 10s, which a ladder over black-holed targets exceeds,   *)
(* and every statement it issues afterwards fails with it.                 *)
(***************************************************************************)
EXTENDS Tracker

CONSTANTS OutageIds,      \* ids of outage rows (AUTOINCREMENT in the schema)
          NoOutage,       \* the zero id / nil pointer
          MaxFaults,      \* bound on failing database statements
          MaxRestarts     \* bound on restarts of the agent

ASSUME OutageAssumption ==
    /\ NoOutage \notin OutageIds
    /\ MaxFaults \in Nat
    /\ MaxRestarts \in Nat

VARIABLES
    tracker,        \* connectivityMonitor.tracker
    outageID,       \* connectivityMonitor.outageID
    pc,             \* progress of the connectivity task's current run
    diag,           \* result of the ladder, local to that run
    outages,        \* the outages table
    status,         \* Snapshot.Status
    currentOutage,  \* Snapshot.CurrentOutage, by id
    lastDiagnosis,  \* Snapshot.LastDiagnosis
    refreshed,      \* state-refresh: what it read and has not published yet
    faults,         \* failed statements so far
    restarts,       \* restarts so far
    run             \* history: the current run of equal verdicts, across restarts

taskVars == <<tracker, outageID, pc, diag>>
snapVars == <<status, currentOutage, lastDiagnosis>>
vars == <<taskVars, outages, snapVars, refreshed, faults, restarts, run>>

Ledger == INSTANCE OutageLedger

OpenOutages == Ledger!OpenOutages
HasOpenOutage == OpenOutages # {}

Statuses == {"STARTING", "ONLINE", "DEGRADED", "OFFLINE"}
NotReading == "not reading"

TypeOK ==
    /\ tracker \in Trackers
    /\ outageID \in OutageIds \cup {NoOutage}
    /\ pc \in {"idle", "diagnosing", "opening", "closing", "restoring", "refreshing"}
    /\ diag \in Causes \cup {NoClass}
    /\ outages \in [OutageIds -> [state : {"absent", "open", "resolved"},
                                  class : Causes \cup {NoClass}]]
    /\ status \in Statuses
    /\ currentOutage \in OutageIds \cup {NoOutage}
    /\ lastDiagnosis \in Classes
    /\ refreshed \in OutageIds \cup {NoOutage, NotReading}
    /\ faults \in 0..MaxFaults
    /\ restarts \in 0..MaxRestarts
    /\ run \in [ok : BOOLEAN, len : 0..Ledger!RunCap]

Init ==
    /\ tracker = NewTracker
    /\ outageID = NoOutage
    /\ pc = "idle"
    /\ diag = NoClass
    /\ outages = [id \in OutageIds |-> Ledger!Absent]
    /\ status = "STARTING"
    /\ currentOutage = NoOutage
    /\ lastDiagnosis = NoClass
    /\ refreshed = NotReading
    /\ faults = 0
    /\ restarts = 0
    /\ run = [ok |-> TRUE, len |-> 0]

-----------------------------------------------------------------------------
\* A statement fails: the deadline has passed, or SQLite reports an error.
StatementFails ==
    /\ faults < MaxFaults
    /\ faults' = faults + 1

\* What HealthCheck concluded: every target answered, enough of them did, or not.
Outcomes == {"all", "some", "failed"}

\* One run of check(): measurement stored, status set, verdict recorded, and the
\* branch the transition selects.
Check(outcome) ==
    LET ok == outcome # "failed"
        t  == Record(tracker, ok)
    IN  /\ pc = "idle"
        /\ tracker' = t
        /\ run' = Ledger!Extend(run, ok)
        /\ status' = CASE outcome = "all"    -> "ONLINE"
                       [] outcome = "some"   -> "DEGRADED"
                       [] Opens(tracker, t)  -> "OFFLINE"
                       [] OTHER              -> status
        /\ pc' = CASE Opens(tracker, t)  -> "diagnosing"
                   [] Closes(tracker, t) -> "closing"
                   [] tracker.open /\ DueForRefresh(t) -> "refreshing"
                   [] OTHER              -> "idle"
        /\ UNCHANGED <<outageID, diag, outages, currentOutage, lastDiagnosis,
                       refreshed, faults, restarts>>

\* InsertMeasurement failed: check returns before the verdict is recorded.
CheckLost ==
    /\ pc = "idle"
    /\ StatementFails
    /\ UNCHANGED <<taskVars, outages, snapVars, refreshed, restarts, run>>

\* openOutage: the ladder ran.  A HEALTHY conclusion is fed back to the tracker
\* as a success and no outage is recorded.
DiagnoseFailure(c) ==
    /\ pc = "diagnosing"
    /\ lastDiagnosis' = c
    /\ \/ /\ c = ClassHealthy
          /\ tracker' = RecordOK(tracker)
          /\ run' = Ledger!Extend(run, TRUE)
          /\ status' = "DEGRADED"
          /\ pc' = "idle"
          /\ UNCHANGED diag
       \/ /\ c # ClassHealthy
          /\ diag' = c
          /\ pc' = "opening"
          /\ UNCHANGED <<tracker, run, status>>
    /\ UNCHANGED <<outageID, outages, currentOutage, refreshed, faults, restarts>>

\* A row id the table has not used: no published or pending copy mentions it.
Fresh(id) ==
    /\ outages[id].state = "absent"
    /\ id \notin {currentOutage, refreshed}

\* Mutant: DB.OpenOutage inserts without looking for an open outage first.
StoreOpen_AlwaysInserts(id) ==
    /\ Fresh(id)
    /\ outages' = [outages EXCEPT ![id] = [state |-> "open", class |-> diag]]

\* DB.OpenOutage: an outage that is already open is reclassified, otherwise a
\* row is inserted; the monitor then keeps its id and its cause.
StoreOpen(id) ==
    \/ /\ id \in OpenOutages
       /\ outages' = [outages EXCEPT ![id].class = diag]
    \/ /\ ~HasOpenOutage
       /\ Fresh(id)
       /\ outages' = [outages EXCEPT ![id] = [state |-> "open", class |-> diag]]

OpenOutage(id) ==
    /\ pc = "opening"
    /\ StoreOpen(id)
    /\ outageID' = id
    /\ tracker' = SetClassification(tracker, diag)
    /\ diag' = NoClass
    /\ pc' = "idle"
    /\ UNCHANGED <<snapVars, refreshed, faults, restarts, run>>

\* DB.OpenOutage failed: openOutage returns the error, the tracker stays open.
OpenOutageFails ==
    /\ pc = "opening"
    /\ StatementFails
    /\ diag' = NoClass
    /\ pc' = "idle"
    /\ UNCHANGED <<tracker, outageID, outages, snapVars, refreshed, restarts, run>>

\* Mutant: outageID is not reset after a close.
CloseOutage_KeepsID ==
    /\ pc = "closing"
    /\ outages' = IF outageID = NoOutage \/ outages[outageID].state = "absent"
                  THEN outages
                  ELSE [outages EXCEPT ![outageID].state = "resolved"]
    /\ pc' = "restoring"
    /\ UNCHANGED <<tracker, outageID, diag, snapVars, refreshed, faults, restarts, run>>

\* closeOutage up to the end of DB.CloseOutage.  A tracker that was open without
\* a row has nothing to close.
CloseOutage ==
    /\ pc = "closing"
    /\ outages' = IF outageID = NoOutage \/ outages[outageID].state = "absent"
                  THEN outages
                  ELSE [outages EXCEPT ![outageID].state = "resolved"]
    /\ outageID' = NoOutage
    /\ pc' = "restoring"
    /\ UNCHANGED <<tracker, diag, snapVars, refreshed, faults, restarts, run>>

\* DB.CloseOutage failed: the row and outageID are kept, the tracker is closed.
CloseOutageFails ==
    /\ pc = "closing"
    /\ outageID # NoOutage
    /\ StatementFails
    /\ pc' = "idle"
    /\ UNCHANGED <<tracker, outageID, diag, outages, snapVars, refreshed, restarts, run>>

\* The tail of closeOutage: the snapshot is updated.
AnnounceRecovery ==
    /\ pc = "restoring"
    /\ status' = "ONLINE"
    /\ currentOutage' = NoOutage
    /\ pc' = "idle"
    /\ UNCHANGED <<tracker, outageID, diag, outages, lastDiagnosis, refreshed,
                   faults, restarts, run>>

\* The periodic ladder of an open outage.
RefreshDiagnosis(c) ==
    /\ pc = "refreshing"
    /\ lastDiagnosis' = c
    /\ pc' = "idle"
    /\ UNCHANGED <<tracker, outageID, diag, outages, status, currentOutage,
                   refreshed, faults, restarts, run>>

-----------------------------------------------------------------------------
\* The "diagnostics" task, on its own goroutine, triggered by the API or CLI.
ManualDiagnose(c) ==
    /\ lastDiagnosis' = c
    /\ UNCHANGED <<taskVars, outages, status, currentOutage, refreshed, faults,
                   restarts, run>>

\* "state-refresh", first half: refreshCounters reads the open outage ...
ReadCurrentOutage ==
    /\ refreshed = NotReading
    /\ IF HasOpenOutage THEN refreshed' \in OpenOutages ELSE refreshed' = NoOutage
    /\ UNCHANGED <<taskVars, outages, snapVars, faults, restarts, run>>

\* Mutant: only an open outage is published, a missing one is not cleared.
PublishCurrentOutage_NeverClears ==
    /\ refreshed # NotReading
    /\ currentOutage' = IF refreshed = NoOutage THEN currentOutage ELSE refreshed
    /\ refreshed' = NotReading
    /\ UNCHANGED <<taskVars, outages, status, lastDiagnosis, faults, restarts, run>>

\* ... second half: and publishes what it read, whatever happened meanwhile.
PublishCurrentOutage ==
    /\ refreshed # NotReading
    /\ currentOutage' = refreshed
    /\ refreshed' = NotReading
    /\ UNCHANGED <<taskVars, outages, status, lastDiagnosis, faults, restarts, run>>

\* DB.Prune: resolved outages past their retention are deleted, unresolved never.
PruneOutage(id) ==
    /\ outages[id].state = "resolved"
    /\ outages' = [outages EXCEPT ![id] = Ledger!Absent]
    /\ UNCHANGED <<taskVars, snapVars, refreshed, faults, restarts, run>>

\* Mutant: the row id is adopted but the tracker is not resumed.
Restore_ForgetsTracker(readable) ==
    /\ tracker' = NewTracker
    /\ IF readable /\ HasOpenOutage
       THEN outageID' \in OpenOutages /\ status' = "OFFLINE"
       ELSE outageID' = NoOutage /\ status' = "STARTING"

\* connectivityMonitor.Restore: adopt the outage that was open, if it can be read.
Restore(readable) ==
    IF readable /\ HasOpenOutage
    THEN \E id \in OpenOutages :
           /\ outageID' = id
           /\ tracker' = Resume(outages[id].class)
           /\ status' = "OFFLINE"
    ELSE /\ outageID' = NoOutage
         /\ tracker' = NewTracker
         /\ status' = "STARTING"

\* The process dies or is stopped at any point and agent.New runs again.
Restart ==
    /\ restarts < MaxRestarts
    /\ restarts' = restarts + 1
    /\ \/ Restore(TRUE) /\ UNCHANGED faults
       \/ Restore(FALSE) /\ StatementFails
    /\ pc' = "idle"
    /\ diag' = NoClass
    /\ currentOutage' = NoOutage
    /\ lastDiagnosis' = NoClass
    /\ refreshed' = NotReading
    /\ UNCHANGED <<outages, run>>

-----------------------------------------------------------------------------
Verdicts == Causes \cup {ClassHealthy}

ConnectivityTask ==
    \/ \E outcome \in Outcomes : Check(outcome)
    \/ \E c \in Verdicts : DiagnoseFailure(c) \/ RefreshDiagnosis(c)
    \/ \E id \in OutageIds : OpenOutage(id)
    \/ CloseOutage
    \/ AnnounceRecovery

Faults == CheckLost \/ OpenOutageFails \/ CloseOutageFails

StateRefreshTask == ReadCurrentOutage \/ PublishCurrentOutage

Next ==
    \/ ConnectivityTask
    \/ Faults
    \/ StateRefreshTask
    \/ \E c \in Verdicts : ManualDiagnose(c)
    \/ \E id \in OutageIds : PruneOutage(id)
    \/ Restart

Spec == Init /\ [][Next]_vars

\* Both tasks re-arm their timer after every run and every run is bounded by its
\* context deadline, so each task keeps taking steps.
FairSpec == Spec /\ WF_vars(ConnectivityTask) /\ WF_vars(StateRefreshTask)

-----------------------------------------------------------------------------
\* The row the monitor holds is the open one: outageID is never left pointing at
\* a row that is resolved or pruned, over failed closes, restarts and retention.
OutageIDIsOpen == outageID # NoOutage => outages[outageID].state = "open"

\* A single loss of connectivity never produces several open rows
\* (store_outages.go, OpenOutage), whatever failed or restarted in between.
OneOpenOutage == \A i, j \in OpenOutages : i = j

\* Outside of a check, an open row belongs to an open tracker unless a database
\* statement failed: no interleaving of restart, retention and the ladder alone
\* strands an outage that nobody will ever close.
OpenRowIsTracked ==
    pc = "idle" /\ faults = 0 /\ HasOpenOutage => tracker.open /\ outageID \in OpenOutages

\* The table the monitor writes is one that OutageLedger allows.
ImplementsLedger == Ledger!Spec

\* Once the link stays up, no outage stays open unless a statement has failed: the
\* recovery streak does close it, also one that a restart has adopted.  And the
\* dashboard's copy of the outage is that of the table, and the status not that of an
\* outage, although state-refresh may publish a stale read after the close, a restart
\* may adopt an outage that is about to end, and statements may have failed.
RecoverySettles ==
    (<>[]run.ok) => <>[](/\ HasOpenOutage => faults > 0
                         /\ status \in {"ONLINE", "DEGRADED"}
                         /\ currentOutage # NoOutage => HasOpenOutage)

-----------------------------------------------------------------------------
\* A claim of the repository that the code does not meet.

\* docs/detection-engine.md: failures_before_outage consecutive failures open an
\* outage.  (A run of failures ends at a success or at a HEALTHY ladder.)
FailuresOpenOutage ==
    pc = "idle" /\ Ledger!FailedLongEnough => HasOpenOutage
=============================================================================
