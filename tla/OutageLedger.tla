---------------------------- MODULE OutageLedger ----------------------------
(***************************************************************************)
(* What the outages table promises to its readers (the API, the dashboard, *)
(* the availability report), whatever the agent process does in between:   *)
(*   - at most one outage is unresolved at any time;                       *)
(*   - an outage starts, or changes its cause, only at the end of a run of *)
(*     at least FailuresToOpen failed health checks;                       *)
(*   - it ends only at the end of a run of at least SuccessesToClose       *)
(*     successful ones, and never reopens;                                 *)
(*   - retention removes resolved outages only.                            *)
(* The agent, its crashes, its deadlines and its other tasks are not       *)
(* visible here; module Outage is shown to implement this specification.   *)
(***************************************************************************)
EXTENDS Naturals

CONSTANTS FailuresToOpen, SuccessesToClose, Causes, OutageIds

VARIABLES outages,   \* id -> [state, class]: the outages table
          run        \* the current run of equal verdicts: [ok, len]

vars == <<outages, run>>

NoClass == "none"
Absent == [state |-> "absent", class |-> NoClass]

\* Lengths matter up to the larger threshold.
RunCap == IF FailuresToOpen > SuccessesToClose THEN FailuresToOpen ELSE SuccessesToClose

Extend(r, ok) ==
    IF r.ok = ok
    THEN [r EXCEPT !.len = IF @ < RunCap THEN @ + 1 ELSE @]
    ELSE [ok |-> ok, len |-> 1]

FailedLongEnough == ~run.ok /\ run.len >= FailuresToOpen
WorkedLongEnough == run.ok /\ run.len >= SuccessesToClose

OpenOutages == {id \in OutageIds : outages[id].state = "open"}

Init ==
    /\ outages = [id \in OutageIds |-> Absent]
    /\ run = [ok |-> TRUE, len |-> 0]

Verdict(ok) ==
    /\ run' = Extend(run, ok)
    /\ UNCHANGED outages

Start(id, c) ==
    /\ FailedLongEnough
    /\ OpenOutages = {}
    /\ outages[id].state = "absent"
    /\ outages' = [outages EXCEPT ![id] = [state |-> "open", class |-> c]]
    /\ UNCHANGED run

Reclassify(id, c) ==
    /\ FailedLongEnough
    /\ id \in OpenOutages
    /\ outages' = [outages EXCEPT ![id].class = c]
    /\ UNCHANGED run

End(id) ==
    /\ WorkedLongEnough
    /\ id \in OpenOutages
    /\ outages' = [outages EXCEPT ![id].state = "resolved"]
    /\ UNCHANGED run

Forget(id) ==
    /\ outages[id].state = "resolved"
    /\ outages' = [outages EXCEPT ![id] = Absent]
    /\ UNCHANGED run

Next ==
    \/ \E ok \in BOOLEAN : Verdict(ok)
    \/ \E id \in OutageIds :
         \/ \E c \in Causes : Start(id, c) \/ Reclassify(id, c)
         \/ End(id)
         \/ Forget(id)

Spec == Init /\ [][Next]_vars
=============================================================================
