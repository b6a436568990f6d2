---------------------------- MODULE OutageProofs ----------------------------
(***************************************************************************)
(* Proofs about the outage lifecycle, for every choice of the thresholds,  *)
(* the causes, the row ids and the bounds on faults and restarts.          *)
(*                                                                         *)
(* The inductive invariant IInv says, besides the properties themselves,   *)
(* why a check that is about to write a row is entitled to: the tracker's  *)
(* streaks never run ahead of the verdicts actually observed (Streaks),    *)
(* hence a check that reached the open or the close branch did so at the   *)
(* end of a long enough run (Entitled).                                    *)
(***************************************************************************)
EXTENDS Outage, TLAPS

\* The tracker's counters are explained by the current run of verdicts.  The
\* failure streak of an open tracker may come from Resume and is not.
Streaks ==
    /\ ~tracker.open => tracker.fails < FailuresToOpen
    /\ ~tracker.open /\ tracker.fails > 0 => ~run.ok /\ run.len >= tracker.fails
    /\ tracker.oks > 0 => run.ok /\ run.len >= tracker.oks

\* A check in one of its branches has the run that the branch is for.
Entitled ==
    /\ pc \in {"diagnosing", "opening"} => Ledger!FailedLongEnough
    /\ pc = "opening" => diag \in Causes
    /\ pc = "closing" => Ledger!WorkedLongEnough

IInv == TypeOK /\ Streaks /\ Entitled /\ OutageIDIsOpen /\ OneOpenOutage

USE ThresholdAssumption, CausesAssumption, OutageAssumption

-----------------------------------------------------------------------------
\* tracker.go, Record: a success keeps the tracker well formed.
LEMMA RecordOKType == ASSUME NEW t \in Trackers PROVE RecordOK(t) \in Trackers
  BY DEF RecordOK, Trackers, FailStreakCap, ReDiagnoseEvery

\* tracker.go, Record: a failure keeps the tracker well formed.
LEMMA RecordFailType == ASSUME NEW t \in Trackers PROVE RecordFail(t) \in Trackers
  BY DEF RecordFail, Longer, Trackers, FailStreakCap, ReDiagnoseEvery

\* tracker.go, Record: its two cases together.
LEMMA RecordType ==
  ASSUME NEW t \in Trackers, NEW ok \in BOOLEAN
  PROVE  Record(t, ok) \in Trackers
  BY RecordOKType, RecordFailType DEF Record

\* A fresh tracker, and one resumed from a stored outage, are well formed.
LEMMA StartTypes ==
  /\ NewTracker \in Trackers
  /\ \A c \in Causes \cup {NoClass} : Resume(c) \in Trackers
  BY DEF NewTracker, Resume, Trackers, FailStreakCap, ReDiagnoseEvery, Classes

\* The run of verdicts is well formed, and grows or starts again at 1.
LEMMA ExtendType ==
  ASSUME NEW r \in [ok : BOOLEAN, len : 0..Ledger!RunCap], NEW ok \in BOOLEAN
  PROVE  /\ Ledger!Extend(r, ok) \in [ok : BOOLEAN, len : 0..Ledger!RunCap]
         /\ Ledger!Extend(r, ok).ok = ok
         /\ Ledger!Extend(r, ok).len >= 1
         /\ r.ok = ok /\ r.len < Ledger!RunCap => Ledger!Extend(r, ok).len = r.len + 1
         /\ r.ok = ok /\ r.len >= Ledger!RunCap => Ledger!Extend(r, ok).len = r.len
  BY DEF Ledger!Extend, Ledger!RunCap

\* RunCap is large enough to see both thresholds.
LEMMA RunCapFact ==
  /\ Ledger!RunCap \in Nat
  /\ FailuresToOpen <= Ledger!RunCap
  /\ SuccessesToClose <= Ledger!RunCap
  BY DEF Ledger!RunCap

-----------------------------------------------------------------------------
\* The initial state satisfies the inductive invariant.
LEMMA InitIInv == Init => IInv
  <1> SUFFICES ASSUME Init PROVE IInv
    OBVIOUS
  <1>1. TypeOK
    BY StartTypes, RunCapFact DEF Init, TypeOK, Ledger!Absent, Ledger!NoClass, NoClass, Statuses, Classes
  <1>2. Streaks
    BY DEF Init, Streaks, NewTracker
  <1>3. Entitled /\ OutageIDIsOpen
    BY DEF Init, Entitled, OutageIDIsOpen
  <1>4. OneOpenOutage
    BY DEF Init, OneOpenOutage, OpenOutages, Ledger!OpenOutages, Ledger!Absent
  <1> QED
    BY <1>1, <1>2, <1>3, <1>4 DEF IInv

-----------------------------------------------------------------------------
\* connectivityMonitor.check preserves the invariant: this is where the streaks
\* and the run of verdicts move together.
LEMMA CheckIInv ==
  ASSUME IInv, NEW outcome \in Outcomes, Check(outcome)
  PROVE  IInv'
  <1> DEFINE ok == outcome # "failed"
             t  == Record(tracker, ok)
  <1>0. tracker \in Trackers /\ run \in [ok : BOOLEAN, len : 0..Ledger!RunCap]
    BY DEF IInv, TypeOK
  <1>1. t \in Trackers /\ tracker' = t
    BY <1>0, RecordType DEF Check
  <1>2. /\ run' = Ledger!Extend(run, ok)
        /\ run' \in [ok : BOOLEAN, len : 0..Ledger!RunCap]
        /\ run'.ok = ok
        /\ run'.len >= 1
        /\ run.ok = ok /\ run.len < Ledger!RunCap => run'.len = run.len + 1
        /\ run.ok = ok /\ run.len >= Ledger!RunCap => run'.len = run.len
    <2> DEFINE r == Ledger!Extend(run, ok)
    <2>1. ok \in BOOLEAN
      OBVIOUS
    <2>2. run' = r
      BY DEF Check
    <2>3. /\ r \in [ok : BOOLEAN, len : 0..Ledger!RunCap]
          /\ r.ok = ok
          /\ r.len >= 1
          /\ run.ok = ok /\ run.len < Ledger!RunCap => r.len = run.len + 1
          /\ run.ok = ok /\ run.len >= Ledger!RunCap => r.len = run.len
      BY <1>0, <2>1, ExtendType
    <2> HIDE DEF r, ok
    <2> QED
      BY <2>2, <2>3 DEF r
  <1>3. TypeOK'
    BY <1>1, <1>2 DEF IInv, TypeOK, Check, Statuses
  <1>4. Streaks' /\ Entitled'
    <2>1. CASE ok
      <3>1. t = RecordOK(tracker)
        BY <2>1 DEF Record
      <3>2. pc' # "diagnosing" /\ pc' # "opening"
        BY <3>1, <1>0 DEF Check, Opens, RecordOK, Trackers
      <3>3. pc' = "closing" => tracker.open /\ tracker.oks + 1 >= SuccessesToClose
        BY <3>1, <1>0 DEF Check, Closes, RecordOK, Trackers
      <3>4. tracker.oks > 0 => run.ok /\ run.len >= tracker.oks
        BY DEF IInv, Streaks
      <3>5. run'.len >= tracker.oks + 1 \/ run'.len >= Ledger!RunCap
        BY <1>0, <1>2, <2>1, <3>4, RunCapFact DEF Trackers
      <3>6. Streaks'
        BY <3>1, <3>5, <1>0, <1>1, <1>2, <2>1, RunCapFact
        DEF Streaks, RecordOK, Trackers
      <3>7. Entitled'
        BY <3>2, <3>3, <3>5, <1>0, <1>2, <2>1, RunCapFact
        DEF Entitled, Ledger!WorkedLongEnough, Trackers
      <3> QED
        BY <3>6, <3>7
    <2>2. CASE ~ok
      <3>1. t = RecordFail(tracker)
        BY <2>2 DEF Record
      <3>2. pc' # "closing" /\ pc' # "opening"
        BY <3>1, <1>0 DEF Check, Closes, RecordFail, Trackers
      <3>3. pc' = "diagnosing" => ~tracker.open /\ Longer(tracker.fails) >= FailuresToOpen
        BY <3>1, <1>0 DEF Check, Opens, RecordFail, Trackers
      <3>4. ~tracker.open =>
               /\ tracker.fails < FailuresToOpen
               /\ Longer(tracker.fails) = tracker.fails + 1
               /\ tracker.fails > 0 => ~run.ok /\ run.len >= tracker.fails
        BY <1>0 DEF IInv, Streaks, Longer, FailStreakCap, ReDiagnoseEvery, Trackers
      <3>5. ~tracker.open => run'.len >= tracker.fails + 1
        BY <3>4, <1>0, <1>2, <2>2, RunCapFact DEF Trackers
      <3>6. Streaks'
        BY <3>1, <3>4, <3>5, <1>0, <1>1, <1>2, <2>2
        DEF Streaks, RecordFail, Trackers
      <3>7. Entitled'
        BY <3>2, <3>3, <3>4, <3>5, <1>0, <1>2, <2>2
        DEF Entitled, Ledger!FailedLongEnough, Trackers
      <3> QED
        BY <3>6, <3>7
    <2> QED
      BY <2>1, <2>2
  <1>5. OutageIDIsOpen' /\ OneOpenOutage'
    BY DEF IInv, Check, OutageIDIsOpen, OneOpenOutage, OpenOutages, Ledger!OpenOutages
  <1> QED
    BY <1>3, <1>4, <1>5 DEF IInv

\* openOutage after the ladder: a HEALTHY verdict is a success for the tracker.
LEMMA DiagnoseFailureIInv ==
  ASSUME IInv, NEW c \in Verdicts, DiagnoseFailure(c)
  PROVE  IInv'
  <1>0. tracker \in Trackers /\ run \in [ok : BOOLEAN, len : 0..Ledger!RunCap]
    BY DEF IInv, TypeOK
  <1>1. OutageIDIsOpen' /\ OneOpenOutage'
    BY DEF IInv, DiagnoseFailure, OutageIDIsOpen, OneOpenOutage, OpenOutages,
           Ledger!OpenOutages
  <1>2. CASE c = ClassHealthy
    <2>1. /\ tracker' = RecordOK(tracker)
          /\ run' = Ledger!Extend(run, TRUE)
          /\ pc' = "idle" /\ status' = "DEGRADED" /\ diag' = diag
      BY <1>2 DEF DiagnoseFailure
    <2> DEFINE r == Ledger!Extend(run, TRUE)
    <2>2. /\ r \in [ok : BOOLEAN, len : 0..Ledger!RunCap]
          /\ r.ok = TRUE
          /\ r.len >= 1
          /\ run.ok = TRUE /\ run.len < Ledger!RunCap => r.len = run.len + 1
          /\ run.ok = TRUE /\ run.len >= Ledger!RunCap => r.len = run.len
      BY <1>0, ExtendType
    <2>3. run' = r
      BY <2>1
    <2> HIDE DEF r
    <2>4. TypeOK'
      BY <1>0, <2>1, <2>2, <2>3, RecordOKType
      DEF IInv, TypeOK, DiagnoseFailure, Statuses, Verdicts, Classes
    <2>5. Streaks'
      <3>1. tracker.oks > 0 => run.ok /\ run.len >= tracker.oks
        BY DEF IInv, Streaks
      <3>2. run'.len >= tracker.oks + 1 \/ run'.len >= Ledger!RunCap
        BY <1>0, <2>2, <2>3, <3>1, RunCapFact DEF Trackers
      <3>3. run'.ok = TRUE
        BY <2>2, <2>3
      <3>4. run'.len \in Nat
        BY <2>2, <2>3, RunCapFact
      <3>5. /\ tracker'.fails = 0
            /\ tracker'.oks \in 0..SuccessesToClose
            /\ tracker'.oks <= tracker.oks + 1
        BY <1>0, <2>1 DEF RecordOK, Trackers
      <3>6. tracker'.oks > 0 => run'.ok /\ run'.len >= tracker'.oks
        BY <1>0, <3>2, <3>3, <3>4, <3>5, RunCapFact DEF Trackers
      <3> QED
        BY <3>5, <3>6 DEF Streaks
    <2>6. Entitled'
      BY <2>1 DEF Entitled
    <2> QED
      BY <1>1, <2>4, <2>5, <2>6 DEF IInv
  <1>3. CASE c # ClassHealthy
    <2>1. diag' = c /\ pc' = "opening" /\ UNCHANGED <<tracker, run, status>> /\ c \in Causes
      BY <1>3 DEF DiagnoseFailure, Verdicts
    <2>2. TypeOK'
      BY <2>1 DEF IInv, TypeOK, DiagnoseFailure, Classes
    <2>3. Streaks'
      BY <2>1 DEF IInv, Streaks
    <2>4. Entitled'
      BY <2>1 DEF IInv, Entitled, DiagnoseFailure, Ledger!FailedLongEnough
    <2> QED
      BY <1>1, <2>2, <2>3, <2>4 DEF IInv
  <1> QED
    BY <1>2, <1>3

\* DB.OpenOutage: the only action that makes a row open.
LEMMA OpenOutageIInv ==
  ASSUME IInv, NEW id \in OutageIds, OpenOutage(id)
  PROVE  IInv'
  <1>1. diag \in Causes /\ outages \in [OutageIds -> [state : {"absent", "open", "resolved"},
                                                    class : Causes \cup {NoClass}]]
    BY DEF IInv, TypeOK, Entitled, OpenOutage
  <1>2. tracker' \in Trackers /\ tracker'.open = tracker.open
        /\ tracker'.fails = tracker.fails /\ tracker'.oks = tracker.oks
    <2>1. tracker \in Trackers
      BY DEF IInv, TypeOK
    <2>2. tracker' = [tracker EXCEPT !.class = diag]
      BY DEF OpenOutage, SetClassification
    <2> QED
      BY <1>1, <2>1, <2>2 DEF Trackers, Classes
  <1>3. /\ outages' \in [OutageIds -> [state : {"absent", "open", "resolved"},
                                       class : Causes \cup {NoClass}]]
        /\ outages'[id].state = "open"
        /\ \A j \in OutageIds \ {id} : outages'[j] = outages[j]
        /\ \A j \in OutageIds \ {id} : outages[j].state # "open"
    <2>1. CASE id \in OpenOutages /\ outages' = [outages EXCEPT ![id].class = diag]
      BY <1>1, <2>1 DEF IInv, OneOpenOutage, OpenOutages, Ledger!OpenOutages
    <2>2. CASE /\ ~HasOpenOutage
               /\ outages' = [outages EXCEPT ![id] = [state |-> "open", class |-> diag]]
      BY <1>1, <2>2 DEF HasOpenOutage, OpenOutages, Ledger!OpenOutages
    <2> QED
      BY <2>1, <2>2 DEF OpenOutage, StoreOpen
  <1>4. TypeOK'
    BY <1>2, <1>3 DEF IInv, TypeOK, OpenOutage, snapVars
  <1>5. Streaks' /\ Entitled'
    BY <1>2 DEF IInv, Streaks, Entitled, OpenOutage
  <1>6. OutageIDIsOpen' /\ OneOpenOutage'
    BY <1>3 DEF OpenOutage, OutageIDIsOpen, OneOpenOutage, OpenOutages, Ledger!OpenOutages
  <1> QED
    BY <1>4, <1>5, <1>6 DEF IInv

\* Resolving, or pruning, rows keeps at most one open.
LEMMA FewerOpen ==
  ASSUME OneOpenOutage,
         \A id \in OutageIds : outages'[id].state = "open" => outages[id].state = "open"
  PROVE  OneOpenOutage'
  BY DEF OneOpenOutage, OpenOutages, Ledger!OpenOutages

\* DB.CloseOutage: the row held is resolved and let go of.
LEMMA CloseOutageIInv ==
  ASSUME IInv, CloseOutage
  PROVE  IInv'
  <1>1. outages \in [OutageIds -> [state : {"absent", "open", "resolved"},
                                  class : Causes \cup {NoClass}]]
    BY DEF IInv, TypeOK
  <1>2. /\ outages' \in [OutageIds -> [state : {"absent", "open", "resolved"},
                                       class : Causes \cup {NoClass}]]
        /\ \A id \in OutageIds : outages'[id].state = "open" => outages[id].state = "open"
    BY <1>1 DEF IInv, TypeOK, CloseOutage
  <1>3. TypeOK' /\ OutageIDIsOpen'
    BY <1>2 DEF IInv, TypeOK, CloseOutage, OutageIDIsOpen, snapVars
  <1>4. Streaks' /\ Entitled'
    BY DEF IInv, Streaks, Entitled, CloseOutage
  <1>5. OneOpenOutage'
    BY <1>2, FewerOpen DEF IInv
  <1> QED
    BY <1>3, <1>4, <1>5 DEF IInv

\* DB.Prune deletes resolved rows, and the row held is not resolved.
LEMMA PruneIInv ==
  ASSUME IInv, NEW id \in OutageIds, PruneOutage(id)
  PROVE  IInv'
  <1>1. outages \in [OutageIds -> [state : {"absent", "open", "resolved"},
                                  class : Causes \cup {NoClass}]]
    BY DEF IInv, TypeOK
  <1>2. /\ outages' \in [OutageIds -> [state : {"absent", "open", "resolved"},
                                       class : Causes \cup {NoClass}]]
        /\ \A j \in OutageIds : outages'[j].state = "open" => outages[j].state = "open"
        /\ \A j \in OutageIds : outages[j].state = "open" => outages'[j].state = "open"
    BY <1>1 DEF PruneOutage, Ledger!Absent, Ledger!NoClass, NoClass
  <1>3. TypeOK' /\ OutageIDIsOpen'
    BY <1>2 DEF IInv, TypeOK, PruneOutage, OutageIDIsOpen, snapVars, taskVars
  <1>4. Streaks' /\ Entitled'
    BY DEF IInv, Streaks, Entitled, PruneOutage, taskVars,
           Ledger!FailedLongEnough, Ledger!WorkedLongEnough
  <1>5. OneOpenOutage'
    BY <1>2, FewerOpen DEF IInv
  <1> QED
    BY <1>3, <1>4, <1>5 DEF IInv

\* agent.New and Restore: the new process adopts the open row or starts afresh.
LEMMA RestartIInv ==
  ASSUME IInv, Restart
  PROVE  IInv'
  <1>1. /\ tracker' \in Trackers
        /\ tracker'.oks = 0
        /\ ~tracker'.open => tracker'.fails = 0
        /\ outageID' \in OpenOutages \cup {NoOutage}
        /\ status' \in Statuses
    <2>1. PICK readable \in BOOLEAN : Restore(readable)
      BY DEF Restart
    <2>2. \A id \in OpenOutages : Resume(outages[id].class) \in Trackers
      BY StartTypes DEF IInv, TypeOK, OpenOutages, Ledger!OpenOutages
    <2>3. CASE readable /\ HasOpenOutage
      <3>1. PICK id \in OpenOutages : /\ outageID' = id
                                      /\ tracker' = Resume(outages[id].class)
                                      /\ status' = "OFFLINE"
        BY <2>1, <2>3 DEF Restore
      <3> QED
        BY <2>2, <3>1 DEF Resume, Statuses
    <2>4. CASE ~(readable /\ HasOpenOutage)
      <3>1. outageID' = NoOutage /\ tracker' = NewTracker /\ status' = "STARTING"
        BY <2>1, <2>4 DEF Restore
      <3>2. tracker' \in Trackers
        BY <3>1, StartTypes
      <3> QED
        BY <3>1, <3>2 DEF NewTracker, Statuses
    <2> QED
      BY <2>3, <2>4
  <1>2. faults' \in 0..MaxFaults
    <2>1. UNCHANGED faults \/ StatementFails
      BY Zenon DEF Restart
    <2> QED
      BY <2>1 DEF IInv, TypeOK, StatementFails
  <1>3. restarts' \in 0..MaxRestarts
    BY DEF IInv, TypeOK, Restart
  <1>4. TypeOK'
    BY <1>1, <1>2, <1>3 DEF IInv, TypeOK, Restart, OpenOutages, Ledger!OpenOutages, Classes
  <1>5. Streaks' /\ Entitled'
    BY <1>1 DEF Streaks, Entitled, Restart
  <1>6. OutageIDIsOpen' /\ OneOpenOutage'
    BY <1>1 DEF IInv, Restart, OutageIDIsOpen, OneOpenOutage, OpenOutages, Ledger!OpenOutages
  <1> QED
    BY <1>4, <1>5, <1>6 DEF IInv

\* Steps that write neither the tracker nor the table, and leave the check where
\* it is or end it.
LEMMA FrameIInv ==
  ASSUME IInv, TypeOK', UNCHANGED <<tracker, outageID, outages, run>>,
         pc' \in {"idle", "restoring"} \/ UNCHANGED <<pc, diag>>
  PROVE  IInv'
  BY DEF IInv, Streaks, Entitled, OutageIDIsOpen, OneOpenOutage, OpenOutages,
         Ledger!OpenOutages, Ledger!FailedLongEnough, Ledger!WorkedLongEnough

\* Every step of the agent preserves the inductive invariant.
LEMMA NextIInv == IInv /\ [Next]_vars => IInv'
  <1> SUFFICES ASSUME IInv, [Next]_vars PROVE IInv'
    OBVIOUS
  <1>1. ASSUME NEW outcome \in Outcomes, Check(outcome) PROVE IInv'
    BY <1>1, CheckIInv
  <1>2. ASSUME NEW c \in Verdicts, DiagnoseFailure(c) PROVE IInv'
    BY <1>2, DiagnoseFailureIInv
  <1>3. ASSUME NEW c \in Verdicts, RefreshDiagnosis(c) PROVE IInv'
    <2>1. TypeOK'
      BY <1>3 DEF IInv, TypeOK, RefreshDiagnosis, Verdicts, Classes
    <2> QED
      BY <1>3, <2>1, FrameIInv DEF RefreshDiagnosis
  <1>4. ASSUME NEW id \in OutageIds, OpenOutage(id) PROVE IInv'
    BY <1>4, OpenOutageIInv
  <1>5. CASE CloseOutage
    BY <1>5, CloseOutageIInv
  <1>6. CASE AnnounceRecovery
    <2>1. TypeOK'
      BY <1>6 DEF IInv, TypeOK, AnnounceRecovery, Statuses
    <2> QED
      BY <1>6, <2>1, FrameIInv DEF AnnounceRecovery
  <1>7. CASE CheckLost
    <2>1. TypeOK'
      BY <1>7 DEF IInv, TypeOK, CheckLost, StatementFails, taskVars, snapVars
    <2> QED
      BY <1>7, <2>1, FrameIInv DEF CheckLost, taskVars
  <1>8. CASE OpenOutageFails
    <2>1. TypeOK'
      BY <1>8 DEF IInv, TypeOK, OpenOutageFails, StatementFails, snapVars
    <2> QED
      BY <1>8, <2>1, FrameIInv DEF OpenOutageFails
  <1>9. CASE CloseOutageFails
    <2>1. TypeOK'
      BY <1>9 DEF IInv, TypeOK, CloseOutageFails, StatementFails, snapVars
    <2> QED
      BY <1>9, <2>1, FrameIInv DEF CloseOutageFails
  <1>10. CASE ReadCurrentOutage
    <2>1. TypeOK'
      BY <1>10 DEF IInv, TypeOK, ReadCurrentOutage, OpenOutages, Ledger!OpenOutages,
                   taskVars, snapVars
    <2> QED
      BY <1>10, <2>1, FrameIInv DEF ReadCurrentOutage, taskVars
  <1>11. CASE PublishCurrentOutage
    <2>1. TypeOK'
      BY <1>11 DEF IInv, TypeOK, PublishCurrentOutage, taskVars
    <2> QED
      BY <1>11, <2>1, FrameIInv DEF PublishCurrentOutage, taskVars
  <1>12. ASSUME NEW c \in Verdicts, ManualDiagnose(c) PROVE IInv'
    <2>1. TypeOK'
      BY <1>12 DEF IInv, TypeOK, ManualDiagnose, Verdicts, Classes, taskVars
    <2> QED
      BY <1>12, <2>1, FrameIInv DEF ManualDiagnose, taskVars
  <1>13. ASSUME NEW id \in OutageIds, PruneOutage(id) PROVE IInv'
    BY <1>13, PruneIInv
  <1>14. CASE Restart
    BY <1>14, RestartIInv
  <1>15. CASE UNCHANGED vars
    <2>1. TypeOK'
      BY <1>15 DEF IInv, TypeOK, vars, taskVars, snapVars
    <2> QED
      BY <1>15, <2>1, FrameIInv DEF vars, taskVars
  <1> QED
    BY <1>1, <1>2, <1>3, <1>4, <1>5, <1>6, <1>7, <1>8, <1>9, <1>10, <1>11, <1>12,
       <1>13, <1>14, <1>15
    DEF Next, ConnectivityTask, Faults, StateRefreshTask

\* IInv is an invariant of the agent.
LEMMA InductiveInvariant == Spec => []IInv
  BY InitIInv, NextIInv, PTL DEF Spec

-----------------------------------------------------------------------------
\* Type correctness of the outage lifecycle.
THEOREM TypeCorrect == Spec => []TypeOK
  BY InductiveInvariant, PTL DEF IInv

\* The row the monitor remembers is always the open one, over failed statements,
\* restarts and retention (monitor_connectivity.go, outageID).
THEOREM OutageIDCorrect == Spec => []OutageIDIsOpen
  BY InductiveInvariant, PTL DEF IInv

\* A single loss of connectivity never produces several open rows
\* (store_outages.go, OpenOutage), for any number of restarts and failures.
THEOREM AtMostOneOpen == Spec => []OneOpenOutage
  BY InductiveInvariant, PTL DEF IInv

\* Each step of the agent is a step of the ledger, or leaves table and run alone.
LEMMA StepRefinement == IInv /\ [Next]_vars => [Ledger!Next]_(Ledger!vars)
  <1> SUFFICES ASSUME IInv, [Next]_vars PROVE Ledger!Next \/ UNCHANGED <<outages, run>>
    BY DEF Ledger!vars
  <1>1. ASSUME NEW outcome \in Outcomes, Check(outcome) PROVE Ledger!Next
    <2>1. Ledger!Verdict(outcome # "failed")
      BY <1>1 DEF Check, Ledger!Verdict
    <2> QED
      BY <2>1 DEF Ledger!Next
  <1>2. ASSUME NEW c \in Verdicts, DiagnoseFailure(c)
        PROVE  Ledger!Next \/ UNCHANGED <<outages, run>>
    <2>1. CASE c = ClassHealthy
      <3>1. Ledger!Verdict(TRUE)
        BY <1>2, <2>1 DEF DiagnoseFailure, Ledger!Verdict
      <3> QED
        BY <3>1 DEF Ledger!Next
    <2>2. CASE c # ClassHealthy
      BY <1>2, <2>2 DEF DiagnoseFailure
    <2> QED
      BY <2>1, <2>2
  <1>3. ASSUME NEW id \in OutageIds, OpenOutage(id) PROVE Ledger!Next
    <2>1. diag \in Causes /\ Ledger!FailedLongEnough /\ UNCHANGED run
      BY <1>3 DEF IInv, Entitled, OpenOutage
    <2>2. CASE id \in OpenOutages /\ outages' = [outages EXCEPT ![id].class = diag]
      <3>1. Ledger!Reclassify(id, diag)
        BY <2>1, <2>2 DEF Ledger!Reclassify, OpenOutages
      <3> QED
        BY <2>1, <3>1 DEF Ledger!Next
    <2>3. CASE ~HasOpenOutage /\ Fresh(id)
               /\ outages' = [outages EXCEPT ![id] = [state |-> "open", class |-> diag]]
      <3>1. Ledger!Start(id, diag)
        BY <2>1, <2>3 DEF Ledger!Start, HasOpenOutage, OpenOutages, Fresh
      <3> QED
        BY <2>1, <3>1 DEF Ledger!Next
    <2> QED
      BY <1>3, <2>2, <2>3 DEF OpenOutage, StoreOpen
  <1>4. CASE CloseOutage
    <2>1. UNCHANGED run /\ Ledger!WorkedLongEnough
      BY <1>4 DEF IInv, Entitled, CloseOutage
    <2>2. CASE outageID = NoOutage
      BY <1>4, <2>1, <2>2 DEF CloseOutage
    <2>3. CASE outageID # NoOutage
      <3>1. outageID \in OpenOutages
        BY <2>3 DEF IInv, TypeOK, OutageIDIsOpen, OpenOutages, Ledger!OpenOutages
      <3>2. Ledger!End(outageID)
        BY <1>4, <2>1, <2>3, <3>1
        DEF CloseOutage, Ledger!End, OpenOutages, Ledger!OpenOutages
      <3> QED
        BY <3>1, <3>2 DEF Ledger!Next, OpenOutages, Ledger!OpenOutages
    <2> QED
      BY <2>2, <2>3
  <1>5. ASSUME NEW id \in OutageIds, PruneOutage(id) PROVE Ledger!Next
    <2>1. Ledger!Forget(id)
      BY <1>5 DEF PruneOutage, Ledger!Forget
    <2> QED
      BY <2>1 DEF Ledger!Next
  <1>6. ASSUME NEW c \in Verdicts, RefreshDiagnosis(c) \/ ManualDiagnose(c)
        PROVE  UNCHANGED <<outages, run>>
    BY <1>6 DEF RefreshDiagnosis, ManualDiagnose
  <1>7. CASE AnnounceRecovery \/ Faults \/ StateRefreshTask \/ Restart \/ UNCHANGED vars
    BY <1>7 DEF AnnounceRecovery, Faults, CheckLost, OpenOutageFails, CloseOutageFails,
                StateRefreshTask, ReadCurrentOutage, PublishCurrentOutage, Restart, vars
  <1> QED
    BY <1>1, <1>2, <1>3, <1>4, <1>5, <1>6, <1>7 DEF Next, ConnectivityTask

\* The monitor implements the outages table's specification: whatever fails or
\* restarts, rows start, change and end only at the end of long enough runs of
\* verdicts, one at a time, and retention removes resolved rows only.
THEOREM Refinement == Spec => ImplementsLedger
  <1>1. Init => Ledger!Init
    BY DEF Init, Ledger!Init
  <1> QED
    BY <1>1, InductiveInvariant, StepRefinement, PTL DEF Spec, ImplementsLedger, Ledger!Spec

-----------------------------------------------------------------------------
\* Why no row is stranded while no statement has failed: an open row is the
\* remembered one and its tracker is open until the closing branch is reached, and
\* a check that is about to open an outage found no open row.
NoStranded ==
    faults = 0 =>
      /\ HasOpenOutage => outageID \in OpenOutages /\ (tracker.open \/ pc = "closing")
      /\ pc \in {"diagnosing", "opening"} => ~HasOpenOutage /\ tracker.open

\* NoStranded holds initially.
LEMMA InitNoStranded == Init => NoStranded
  BY DEF Init, NoStranded, HasOpenOutage, OpenOutages, Ledger!OpenOutages, Ledger!Absent

\* Every step preserves NoStranded.
LEMMA NextNoStranded == IInv /\ NoStranded /\ [Next]_vars => NoStranded'
  <1> SUFFICES ASSUME IInv, NoStranded, [Next]_vars, faults' = 0 PROVE NoStranded'
    BY DEF NoStranded
  <1>0. tracker \in Trackers /\ faults \in Nat
    BY DEF IInv, TypeOK
  <1>a. ASSUME UNCHANGED outages
        PROVE  (HasOpenOutage <=> HasOpenOutage') /\ OpenOutages' = OpenOutages
    BY <1>a DEF HasOpenOutage, OpenOutages, Ledger!OpenOutages
  <1>1. ASSUME NEW outcome \in Outcomes, Check(outcome) PROVE NoStranded'
    <2> DEFINE t == Record(tracker, outcome # "failed")
    <2>1. /\ UNCHANGED <<outages, outageID, faults>> /\ pc = "idle" /\ tracker' = t
          /\ pc' # "opening"
          /\ pc' = "diagnosing" => ~tracker.open /\ t.open
          /\ tracker.open /\ ~t.open => pc' = "closing"
      <3>1. t \in Trackers
        BY <1>0, RecordType
      <3>2. t.open \in BOOLEAN /\ tracker.open \in BOOLEAN
        BY <1>0, <3>1 DEF Trackers
      <3> HIDE DEF t
      <3>3. /\ pc = "idle" /\ tracker' = t /\ UNCHANGED <<outages, outageID, faults>>
            /\ pc' = CASE Opens(tracker, t)  -> "diagnosing"
                       [] Closes(tracker, t) -> "closing"
                       [] tracker.open /\ DueForRefresh(t) -> "refreshing"
                       [] OTHER              -> "idle"
        BY <1>1 DEF Check, t
      <3>4. CASE Opens(tracker, t)
        BY <3>3, <3>4 DEF Opens
      <3>5. CASE Closes(tracker, t)
        BY <3>3, <3>5 DEF Opens, Closes, DueForRefresh
      <3>6. CASE ~Opens(tracker, t) /\ ~Closes(tracker, t)
        <4>1. pc' \in {"refreshing", "idle"}
          BY <3>3, <3>6
        <4> QED
          BY <3>3, <3>6, <4>1 DEF Closes
      <3> QED
        BY <3>4, <3>5, <3>6
    <2> QED
      BY <1>a, <2>1 DEF NoStranded
  <1>2. ASSUME NEW c \in Verdicts, DiagnoseFailure(c) PROVE NoStranded'
    <2>1. UNCHANGED <<outages, outageID, faults>> /\ pc = "diagnosing"
          /\ (pc' = "idle" \/ (pc' = "opening" /\ UNCHANGED tracker))
      BY <1>2 DEF DiagnoseFailure
    <2> QED
      BY <1>a, <2>1 DEF NoStranded
  <1>3. ASSUME NEW id \in OutageIds, OpenOutage(id) PROVE NoStranded'
    <2>1. /\ faults = 0 /\ pc = "opening" /\ pc' = "idle" /\ outageID' = id
          /\ tracker' = [tracker EXCEPT !.class = diag]
      BY <1>3 DEF OpenOutage, SetClassification
    <2>2. tracker'.open /\ ~HasOpenOutage
      BY <1>0, <2>1 DEF NoStranded, Trackers
    <2>3. outages' = [outages EXCEPT ![id] = [state |-> "open", class |-> diag]]
      BY <1>3, <2>2 DEF OpenOutage, StoreOpen, HasOpenOutage
    <2>4. id \in OpenOutages'
      BY <2>3 DEF IInv, TypeOK, OpenOutages, Ledger!OpenOutages
    <2> QED
      BY <2>1, <2>2, <2>4 DEF NoStranded
  <1>4. CASE CloseOutage
    <2>1. UNCHANGED faults /\ pc' = "restoring"
      BY <1>4 DEF CloseOutage
    <2>2. ~HasOpenOutage'
      <3>1. CASE outageID = NoOutage
        BY <1>4, <1>a, <2>1, <3>1
        DEF CloseOutage, NoStranded, OpenOutages, Ledger!OpenOutages, IInv, TypeOK
      <3>2. CASE outageID # NoOutage
        <4>1. outageID \in OpenOutages /\ outages' = [outages EXCEPT ![outageID].state = "resolved"]
          BY <1>4, <3>2
          DEF CloseOutage, IInv, TypeOK, OutageIDIsOpen, OpenOutages, Ledger!OpenOutages
        <4>2. \A j \in OpenOutages : j = outageID
          BY <4>1 DEF IInv, OneOpenOutage
        <4> QED
          BY <4>1, <4>2 DEF IInv, TypeOK, HasOpenOutage, OpenOutages, Ledger!OpenOutages
      <3> QED
        BY <3>1, <3>2
    <2> QED
      BY <2>1, <2>2 DEF NoStranded
  <1>5. ASSUME NEW id \in OutageIds, PruneOutage(id) PROVE NoStranded'
    <2>1. UNCHANGED <<faults, pc, tracker, outageID>>
      BY <1>5 DEF PruneOutage, taskVars
    <2>2. OpenOutages' = OpenOutages
      BY <1>5 DEF IInv, TypeOK, PruneOutage, OpenOutages, Ledger!OpenOutages, Ledger!Absent
    <2> QED
      BY <2>1, <2>2 DEF NoStranded, HasOpenOutage
  <1>6. CASE Restart
    <2>1. pc' = "idle" /\ UNCHANGED outages /\ Restore(TRUE)
      <3>1. ~StatementFails
        BY <1>0 DEF StatementFails
      <3> QED
        BY <1>6, <3>1, Zenon DEF Restart
    <2>2. HasOpenOutage => outageID' \in OpenOutages /\ tracker'.open
      BY <2>1 DEF Restore, Resume
    <2> QED
      BY <1>a, <2>1, <2>2 DEF NoStranded
  <1>7. CASE CheckLost \/ OpenOutageFails \/ CloseOutageFails
    BY <1>0, <1>7 DEF CheckLost, OpenOutageFails, CloseOutageFails, StatementFails
  <1>8. ASSUME UNCHANGED <<outages, outageID, tracker, faults>>,
               UNCHANGED pc \/ (pc' = "idle" /\ pc # "closing")
        PROVE  NoStranded'
    BY <1>8, <1>a DEF NoStranded
  <1>9. ASSUME NEW c \in Verdicts, RefreshDiagnosis(c) \/ ManualDiagnose(c) PROVE NoStranded'
    BY <1>8, <1>9 DEF RefreshDiagnosis, ManualDiagnose, taskVars
  <1>10. CASE AnnounceRecovery \/ StateRefreshTask \/ UNCHANGED vars
    BY <1>8, <1>10 DEF AnnounceRecovery, StateRefreshTask, ReadCurrentOutage,
                       PublishCurrentOutage, vars, taskVars
  <1> QED
    BY <1>1, <1>2, <1>3, <1>4, <1>5, <1>6, <1>7, <1>9, <1>10
    DEF Next, ConnectivityTask, Faults

\* No interleaving of the checks, the ladder, retention and any number of restarts
\* strands an open row, as long as no database statement fails.
THEOREM NoStrandedOutage == Spec => []OpenRowIsTracked
  <1>1. NoStranded => OpenRowIsTracked
    BY DEF NoStranded, OpenRowIsTracked
  <1> QED
    BY <1>1, InductiveInvariant, InitNoStranded, NextNoStranded, PTL DEF Spec
=============================================================================
