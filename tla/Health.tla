------------------------------- MODULE Health -------------------------------
(***************************************************************************)
(* The health score: Compute of internal/health/score.go over              *)
(* LinearScore of internal/util/stats.go, and the collector that stores,   *)
(* publishes and reports it (agent/monitor_health.go).                     *)
(*                                                                         *)
(* Scores are kept in hundredths of a point where the code has floating-   *)
(* point numbers, so that the rounding to tenths is the code's.  A         *)
(* component is its measurement over the window, or None.                  *)
(***************************************************************************)
EXTENDS GateState, Integers, FiniteSetsExt, Functions

CONSTANTS Components,   \* in the order Compute enters them, as numbers
          Throughput,   \* those of them that are better when higher
          Weight,       \* health.weights
          Good, Bad,    \* the ends of each scale
          Measures,     \* the values a component may measure
          WarnBelow,    \* health.warn_below, in hundredths
          Cooldown, MaxTime

VARIABLES
    inputs,    \* what the last cycle measured
    score,     \* State.HealthScore, total and worst component
    gate, now,
    event      \* of the last cycle, or None

vars == <<inputs, score, gate, now, event>>

None == -1
NoEvent == "none"
Full == 10000

Inputs == [Components -> Measures \cup {None}]

\* Monotone clamped interpolation between the ends of the scale.
LinearScore(value, good, bad) ==
    IF good = bad THEN IF value <= good THEN Full ELSE 0
    ELSE LET part == IF good < bad THEN bad - value ELSE value - bad
             span == IF good < bad THEN bad - good ELSE good - bad
         IN Max({0, Min({Full, (part * Full) \div span})})

\* round1: to tenths of a point.
Round(hundredths) == ((hundredths + 5) \div 10) * 10

\* Components that count: measured, and with a weight.
\* Mutant: a component without a measurement counts as one that scores nothing.
Counted_All(in) == {c \in Components : Weight[c] > 0}

Counted(in) == {c \in Components : in[c] # None /\ Weight[c] > 0}

Raw(in, c) == IF in[c] = None THEN 0 ELSE LinearScore(in[c], Good[c], Bad[c])

TotalWeight(in) == SumFunctionOnSet(Weight, Counted(in))

Total(in) ==
    Round(SumFunctionOnSet([c \in Components |-> Weight[c] * Raw(in, c)], Counted(in))
          \div TotalWeight(in))

\* The loop keeps the first component, and replaces it by each that is below its score as
\* it was rounded.
Worst(in) ==
    LET \* the worst of the components up to c
        upTo[c \in Components \cup {0}] ==
            IF c = 0 THEN 0
            ELSE LET w == upTo[c - 1] IN
                 IF c \notin Counted(in) THEN w
                 ELSE IF w = 0 \/ Raw(in, c) < Round(Raw(in, w)) THEN c ELSE w
    IN upTo[Max(Components)]

NoScore == [total |-> None, worst |-> 0]

Init ==
    /\ inputs = [c \in Components |-> None] /\ score = NoScore
    /\ gate = NewState /\ now = 1 /\ event = NoEvent

TypeOK ==
    /\ inputs \in Inputs /\ gate \in GateStates /\ now \in 1..MaxTime
    /\ score.total \in -1..Full /\ score.worst \in Components \cup {0}

\* run: without a component that counts nothing is published and the gate is not told.
Run(in) ==
    /\ now < MaxTime /\ now' = now + 1 /\ inputs' = in
    /\ IF Counted(in) = {} THEN event' = NoEvent /\ UNCHANGED <<score, gate>>
       ELSE /\ score' = [total |-> Total(in), worst |-> Worst(in)]
            /\ IF Total(in) < WarnBelow
               THEN /\ gate' = AfterBreach(gate, now, Cooldown)
                    /\ event' = IF Fires(gate, now, Cooldown) THEN "HEALTH_SCORE_DEGRADED" ELSE NoEvent
               ELSE /\ gate' = AfterClear(gate)
                    /\ event' = IF Recovers(gate) THEN "recovered" ELSE NoEvent

\* The measurement cannot be stored: the cycle ends before anything is published.
FailToStore == now < MaxTime /\ now' = now + 1 /\ event' = NoEvent /\ UNCHANGED <<inputs, score, gate>>

Next == FailToStore \/ \E in \in Inputs : Run(in)

Spec == Init /\ [][Next]_vars

-----------------------------------------------------------------------------
Better(c, a, b) == IF c \in Throughput THEN a >= b ELSE a <= b

(***************************************************************************)
(* The score tells nothing that was not measured: it lies between the      *)
(* worst and the best of the components that were, a connection all of     *)
(* whose components stay above the warning is never reported as degraded,  *)
(* however many are missing, and when the same components are measured     *)
(* again and none is worse, the score is not lower.                        *)
(***************************************************************************)
ScoreIsFair ==
    [][/\ event' = "HEALTH_SCORE_DEGRADED" =>
            \E c \in Counted(inputs') : Raw(inputs', c) < WarnBelow
       /\ score' # score =>
            /\ \E c \in Counted(inputs') : Round(Raw(inputs', c)) <= score'.total
            /\ \E c \in Counted(inputs') : Round(Raw(inputs', c)) >= score'.total
       /\ Counted(inputs) = Counted(inputs') /\ Counted(inputs) # {}
          /\ (\A c \in Counted(inputs) : Better(c, inputs'[c], inputs[c]))
            => score'.total >= score.total]_vars

(***************************************************************************)
(* score.go says that the worst component "names the lowest-scoring        *)
(* component, which is the one to look at first".                          *)
(***************************************************************************)
WorstIsTheLowest ==
    score # NoScore => \A c \in Counted(inputs) : Raw(inputs, score.worst) <= Raw(inputs, c)
=============================================================================
