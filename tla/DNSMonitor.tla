----------------------------- MODULE DNSMonitor -----------------------------
(***************************************************************************)
(* The dns collector (internal/agent/monitor_dns.go): each cycle asks the  *)
(* resolvers one after the other and turns the results into events through *)
(* three gates.                                                            *)
(*                                                                         *)
(* A resolver answers, refuses at once, or hangs until its own timeout.    *)
(* When so many hang that the collector's own timeout passes, nothing can  *)
(* be stored any more, and a cycle that is not stored reaches no gate.     *)
(***************************************************************************)
EXTENDS GateState, FiniteSets

CONSTANTS Resolvers,   \* how many are asked: the system's, then the configured ones
          Attempts,    \* as many hanging resolvers outlast the collector's timeout
          Cooldown,    \* alerts.cooldown
          SlowRule,    \* dns.slow_threshold is above zero
          MaxTime      \* bound on the cycles

VARIABLES
    fail, partial, slow,   \* the gates' only keys
    now,
    events,      \* the events of the last cycle about who answered
    slowEvent,   \* whether it reported DNS_SLOW_RESPONSE
    \* history, of the cycles that were stored
    down,        \* those in a row in which nothing answered
    up,          \* those in a row in which something answered
    clean,       \* those in a row in which every resolver answered
    owed         \* DNS_RESOLUTION_FAILED was reported and its recovery was not

gates == <<fail, partial, slow>>
vars == <<gates, now, events, slowEvent, down, up, clean, owed>>

Events == {"RESOLUTION_FAILED", "PARTIAL_FAILURE", "RESOLUTION_OK", "RECOVERED"}

Streak == IF Persistence > RecoveryPersistence THEN Persistence ELSE RecoveryPersistence

TypeOK ==
    /\ {fail, partial, slow} \subseteq GateStates
    /\ \A st \in {fail, partial, slow} : st.firstBreach <= now /\ st.lastFired <= now
    /\ now \in 1..MaxTime
    /\ events \subseteq Events /\ slowEvent \in BOOLEAN
    /\ {down, up, clean} \subseteq 0..Streak
    /\ owed \in BOOLEAN

Init ==
    /\ fail = NewState /\ partial = NewState /\ slow = NewState
    /\ now = 1
    /\ events = {} /\ slowEvent = FALSE
    /\ down = 0 /\ up = 0 /\ clean = 0
    /\ owed = FALSE

-----------------------------------------------------------------------------
\* Gate.Observe, on one key: breach or clear.
Observe(st, breach) ==
    IF breach THEN AfterBreach(st, now, Cooldown) ELSE AfterClear(st)

When(condition, event) == IF condition THEN {event} ELSE {}

\* report: no resolver answered.  The partial gate is not told.
AllFailed ==
    /\ fail' = Observe(fail, TRUE)
    /\ UNCHANGED partial
    /\ events' = When(Fires(fail, now, Cooldown), "RESOLUTION_FAILED")

\* report: some answered and some did not.  What the failure gate decides is ignored.
SomeFailed ==
    /\ fail' = Observe(fail, FALSE)
    /\ partial' = Observe(partial, TRUE)
    /\ events' = When(Fires(partial, now, Cooldown), "PARTIAL_FAILURE")

\* Mutant: the failure gate is asked about its state, not about its decision.
AllAnswered_WhileFiring ==
    /\ fail' = Observe(fail, FALSE)
    /\ partial' = Observe(partial, FALSE)
    /\ events' = {"RESOLUTION_OK"} \cup When(fail.firing, "RECOVERED")

\* report: every resolver answered.
AllAnswered ==
    /\ fail' = Observe(fail, FALSE)
    /\ partial' = Observe(partial, FALSE)
    /\ events' = {"RESOLUTION_OK"} \cup When(Recovers(fail), "RECOVERED")

\* The slow-response rule, when something answered.
ObserveSlow(slowly) ==
    /\ slow' = Observe(slow, slowly)
    /\ slowEvent' = (slowly /\ Fires(slow, now, Cooldown))

\* One cycle that is stored: run and report.  slowly: the fastest answer is above the
\* threshold.
Cycle(answering, hanging, slowly) ==
    LET Counted(n, holds) == IF holds THEN UpTo(n, Streak) ELSE 0
        all == answering = 1..Resolvers
    IN  /\ now < MaxTime /\ Cardinality(hanging) < Attempts
        /\ now' = now + 1
        /\ \/ answering = {} /\ AllFailed
           \/ answering # {} /\ ~all /\ SomeFailed
           \/ all /\ AllAnswered
        /\ IF SlowRule /\ answering # {} THEN ObserveSlow(slowly)
           ELSE UNCHANGED slow /\ slowEvent' = FALSE
        /\ down' = Counted(down, answering = {})
        /\ up' = Counted(up, answering # {})
        /\ clean' = Counted(clean, all)
        /\ owed' = ((owed \/ "RESOLUTION_FAILED" \in events') /\ "RECOVERED" \notin events')

\* InsertMeasurements fails, as it does whenever the collector's timeout has passed, and
\* the collector returns with nothing reported.
NotStored ==
    /\ now < MaxTime /\ now' = now + 1
    /\ events' = {} /\ slowEvent' = FALSE
    /\ UNCHANGED <<gates, down, up, clean, owed>>

Next ==
    \/ \E answering \in SUBSET (1..Resolvers) :
         \E hanging \in SUBSET ((1..Resolvers) \ answering), slowly \in BOOLEAN :
           Cycle(answering, hanging, slowly)
    \/ NotStored

Spec == Init /\ [][Next]_vars

-----------------------------------------------------------------------------
\* Of the cycles that are stored, with any others between them: DNS_RESOLUTION_FAILED
\* needs Persistence in a row without any answer, and a partial failure in between, which
\* has a gate of its own, starts the count again.  A recovery is reported after
\* RecoveryPersistence with an answer, and only for a failure that was reported and not
\* yet recovered from.  And when every resolver has answered for that long neither gate is
\* left firing, in whatever order total and partial failures came before.
\* (dnsMonitor.run, report)
FailuresAreReported ==
    [][/\ "RESOLUTION_FAILED" \in events' => down' >= Persistence
       /\ "RECOVERED" \in events' => owed /\ up' >= RecoveryPersistence
       /\ clean' >= RecoveryPersistence => ~fail'.firing /\ ~partial'.firing]_vars

-----------------------------------------------------------------------------
\* A claim of the repository that the code does not meet.

\* gate.go: a condition that was reported is reported as recovered, once, after
\* RecoveryPersistence clears.  The partial branch drops that decision.
FailureRecoveryIsReported == owed => fail.firing
=============================================================================
