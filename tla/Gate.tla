-------------------------------- MODULE Gate --------------------------------
(***************************************************************************)
(* A detection gate (internal/anomaly/gate.go): a map of keyed conditions, *)
(* guarded by one mutex, that turns a stream of breach/clear observations  *)
(* into Fire and Recovered decisions.  Every method holds the mutex for    *)
(* its whole body, so each is one action; its callers are the collectors,  *)
(* on their own goroutines, in any order and at any rate.                  *)
(***************************************************************************)
EXTENDS GateState

CONSTANTS Keys,        \* condition keys: a metric and its dimension
          Cooldowns,   \* values of alerts.cooldown to consider
          MaxTime      \* bound on the clock

ASSUME GateAssumption == Cooldowns \subseteq Nat /\ MaxTime \in Nat \ {0}

VARIABLES
    states,     \* Gate.states: a map from the keys observed so far to their state
    cooldown,   \* Gate.cooldown
    now,        \* the clock of the callers
    \* history
    seen,       \* key -> the current run of equal observations: [breach, len]
    episode,    \* key -> when the condition being reported first fired, or ZeroTime
    firedAt,    \* key -> when Fire was last decided, or ZeroTime
    told        \* what the last step decided: [key, what]

gateVars == <<states, cooldown>>
vars == <<gateVars, now, seen, episode, firedAt, told>>

NoKey == "no key"
Quiet == [key |-> NoKey, what |-> "nothing"]

\* Gate.state: a key is added with its zero state when first observed.
State(k) == IF k \in DOMAIN states THEN states[k] ELSE NewState

Store(k, st) ==
    states' = [j \in DOMAIN states \cup {k} |-> IF j = k THEN st ELSE states[j]]

RunCap == IF BreachCap > RecoveryPersistence THEN BreachCap ELSE RecoveryPersistence

Decisions == [key : Keys \cup {NoKey}, what : {"nothing", "fire", "recovered"}]

TypeOK ==
    /\ DOMAIN states \subseteq Keys
    /\ states \in [DOMAIN states -> GateStates]
    /\ \A k \in DOMAIN states : states[k].firstBreach <= now /\ states[k].lastFired <= now
    /\ cooldown \in Cooldowns
    /\ now \in 1..MaxTime
    /\ seen \in [Keys -> [breach : BOOLEAN, len : 0..RunCap]]
    /\ episode \in [Keys -> 0..MaxTime]
    /\ firedAt \in [Keys -> 0..MaxTime]
    /\ told \in Decisions

Init ==
    /\ states = [k \in {} |-> NewState]
    /\ cooldown \in Cooldowns
    /\ now = 1
    /\ seen = [k \in Keys |-> [breach |-> FALSE, len |-> 0]]
    /\ episode = [k \in Keys |-> ZeroTime]
    /\ firedAt = [k \in Keys |-> ZeroTime]
    /\ told = Quiet

-----------------------------------------------------------------------------
\* The run of observations s with one more, b.
Longer(s, b) ==
    [breach |-> b, len |-> IF s.breach = b THEN UpTo(s.len, RunCap) ELSE 1]

See(k, breach) == seen' = [seen EXCEPT ![k] = Longer(seen[k], breach)]

Tell(k, what) == told' = [key |-> k, what |-> what]

Breach(k) ==
    LET st    == State(k)
        fires == Fires(st, now, cooldown)
    IN  /\ Store(k, AfterBreach(st, now, cooldown))
        /\ See(k, TRUE)
        /\ IF fires THEN Tell(k, "fire") ELSE told' = Quiet
        /\ firedAt' = IF fires THEN [firedAt EXCEPT ![k] = now] ELSE firedAt
        /\ episode' = IF fires /\ ~st.firing THEN [episode EXCEPT ![k] = now] ELSE episode
        /\ UNCHANGED <<cooldown, now>>

Clear(k) ==
    LET st       == State(k)
        recovers == Recovers(st)
    IN  /\ Store(k, AfterClear(st))
        /\ See(k, FALSE)
        /\ IF recovers THEN Tell(k, "recovered") ELSE told' = Quiet
        /\ episode' = IF recovers THEN [episode EXCEPT ![k] = ZeroTime] ELSE episode
        /\ UNCHANGED <<cooldown, now, firedAt>>

\* A key that is forgotten starts afresh: its history restarts too.
Forget(ks) ==
    /\ states' = [k \in DOMAIN states \ ks |-> states[k]]
    /\ seen' = [k \in Keys |-> IF k \in ks THEN [breach |-> FALSE, len |-> 0] ELSE seen[k]]
    /\ episode' = [k \in Keys |-> IF k \in ks THEN ZeroTime ELSE episode[k]]
    /\ firedAt' = [k \in Keys |-> IF k \in ks THEN ZeroTime ELSE firedAt[k]]
    /\ told' = Quiet
    /\ UNCHANGED <<cooldown, now>>

Reset(k) == Forget({k})

\* The newer of the two instants a key remembers.
LastSeen(st) == IF st.firstBreach > st.lastFired THEN st.firstBreach ELSE st.lastFired

\* Mutant: a firing condition is pruned like any other.
Stale_EvenFiring(before) ==
    {k \in DOMAIN states : LastSeen(states[k]) < before}

\* The keys Prune forgets.
Stale(before) ==
    {k \in DOMAIN states :
       /\ ~states[k].firing
       /\ LastSeen(states[k]) = ZeroTime \/ LastSeen(states[k]) < before}

Prune(before) == Forget(Stale(before))

Tick ==
    /\ now < MaxTime
    /\ now' = now + 1
    /\ told' = Quiet
    /\ UNCHANGED <<gateVars, seen, episode, firedAt>>

Next ==
    \/ \E k \in Keys : Breach(k) \/ Clear(k) \/ Reset(k)
    \/ \E before \in 1..now : Prune(before)
    \/ Tick

Spec == Init /\ [][Next]_vars

-----------------------------------------------------------------------------
\* A decision is earned by the observations themselves: an event needs
\* Persistence breaches in a row, a recovery needs RecoveryPersistence clears in
\* a row, whatever was counted, suppressed or forgotten before.
DecisionsAreEarned ==
    /\ told.what = "fire" =>
          seen[told.key].breach /\ seen[told.key].len >= Persistence
    /\ told.what = "recovered" =>
          ~seen[told.key].breach /\ seen[told.key].len >= RecoveryPersistence

\* And a run that is long enough is never missed: a persistent condition is
\* firing, a persistently clear one is not (so no event is left unrecovered).
RunsAreDecided ==
    \A k \in Keys :
      /\ seen[k].breach /\ seen[k].len >= Persistence => State(k).firing
      /\ ~seen[k].breach /\ seen[k].len >= RecoveryPersistence => ~State(k).firing

\* While a condition is being reported, repeats are at least a cooldown apart,
\* and there are none when the cooldown is zero.
RepeatsAreSpaced ==
    [][\A k \in Keys :
          told'.what = "fire" /\ told'.key = k /\ episode[k] # ZeroTime
             => cooldown > 0 /\ now - firedAt[k] >= cooldown]_vars

\* A reported condition is never dropped silently: it ends with a recovery
\* decision, or because its owner reset the key.  Pruning does not end it.
ReportsEndWithRecovery ==
    [][\A k \in Keys :
          episode[k] # ZeroTime /\ episode'[k] = ZeroTime
             => (told'.what = "recovered" /\ told'.key = k) \/ Reset(k)]_vars

=============================================================================
