------------------------------ MODULE Tracker ------------------------------
(***************************************************************************)
(* The outage tracker of internal/connectivity/tracker.go: the pure fold   *)
(* that turns health-check outcomes into outage transitions.  It has no    *)
(* clock and no I/O; the connectivity monitor (module Outage) owns the     *)
(* only instance and calls it from one goroutine.                          *)
(*                                                                         *)
(* The two streak counters of the code are unbounded Go ints.  The code    *)
(* reads consecutiveFail only through ">= failuresToOpen" and "% 4", and   *)
(* consecutiveOK only through ">= successesToClose", so they are kept here *)
(* up to exactly those observations: Longer wraps by 4 above the threshold *)
(* and the success streak saturates at its threshold.                      *)
(***************************************************************************)
EXTENDS Naturals

CONSTANTS FailuresToOpen,     \* connectivity.failures_before_outage
          SuccessesToClose,   \* connectivity.successes_before_recovery
          Causes              \* the failure classifications of the ladder

\* NewTracker raises values below 1 to 1, so every tracker has thresholds >= 1.
ASSUME ThresholdAssumption ==
    /\ FailuresToOpen \in Nat \ {0}
    /\ SuccessesToClose \in Nat \ {0}

ClassHealthy == "HEALTHY"
NoClass == "none"

ASSUME CausesAssumption == ClassHealthy \notin Causes /\ NoClass \notin Causes

Classes == Causes \cup {ClassHealthy, NoClass}

\* An open outage is re-diagnosed at every 4th consecutive failure.
ReDiagnoseEvery == 4

FailStreakCap == FailuresToOpen + ReDiagnoseEvery

Trackers == [open  : BOOLEAN,
             fails : 0..FailStreakCap,
             oks   : 0..SuccessesToClose,
             class : Classes]

NewTracker == [open |-> FALSE, fails |-> 0, oks |-> 0, class |-> NoClass]

Longer(n) == IF n < FailStreakCap THEN n + 1 ELSE n + 1 - ReDiagnoseEvery

\* Mutant: the first success closes the outage.
RecordOK_ClosesAtOnce(t) ==
    IF t.open
    THEN [t EXCEPT !.open = FALSE, !.fails = 0, !.oks = 0]
    ELSE [t EXCEPT !.fails = 0,
                   !.oks = IF @ < SuccessesToClose THEN @ + 1 ELSE @]

RecordOK(t) ==
    LET closes == t.open /\ t.oks + 1 >= SuccessesToClose
    IN  [open  |-> t.open /\ ~closes,
         fails |-> 0,
         oks   |-> IF closes THEN 0
                   ELSE IF t.oks < SuccessesToClose THEN t.oks + 1 ELSE t.oks,
         class |-> t.class]

RecordFail(t) ==
    LET streak == Longer(t.fails)
    IN  [open  |-> t.open \/ streak >= FailuresToOpen,
         fails |-> streak,
         oks   |-> 0,
         class |-> t.class]

Record(t, ok) == IF ok THEN RecordOK(t) ELSE RecordFail(t)

\* What Record returned when it took the tracker from t to u.
Opens(t, u)  == ~t.open /\ u.open
Closes(t, u) == t.open /\ ~u.open

\* While an outage is open the ladder runs again whenever the failure streak
\* is a multiple of 4 -- which includes 0, the streak after a success.
DueForRefresh(t) == t.open /\ t.fails % ReDiagnoseEvery = 0

SetClassification(t, c) == [t EXCEPT !.class = c]

\* The tracker of a process that adopts a stored open outage at start-up.
Resume(c) == [open |-> TRUE, fails |-> FailuresToOpen, oks |-> 0, class |-> c]
=============================================================================
