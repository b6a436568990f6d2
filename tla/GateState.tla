----------------------------- MODULE GateState -----------------------------
(***************************************************************************)
(* One key of a detection gate (internal/anomaly/gate.go): what Breach and *)
(* Clear do to its gateState, and what they decide.  Every detector of the *)
(* agent goes through one of these.                                        *)
(*                                                                         *)
(* Instants are naturals; 0 is Go's zero time.  The streak counters are    *)
(* kept up to what the code can tell apart: it compares breaches with 1    *)
(* and with persistence, and clears with recoveryPersistence.  firedCount  *)
(* is written and never read, and is left out.                             *)
(***************************************************************************)
EXTENDS Naturals

CONSTANTS Persistence,          \* alerts.persistence
          RecoveryPersistence   \* alerts.recovery_persistence

\* NewGate raises values below 1 to 1.
ASSUME PersistenceAssumption ==
    /\ Persistence \in Nat \ {0}
    /\ RecoveryPersistence \in Nat \ {0}

ZeroTime == 0

BreachCap == IF Persistence < 2 THEN 2 ELSE Persistence

GateStates == [breaches    : 0..BreachCap,
               clears      : 0..RecoveryPersistence,
               firing      : BOOLEAN,
               firstBreach : Nat,
               lastFired   : Nat]

NewState == [breaches |-> 0, clears |-> 0, firing |-> FALSE,
             firstBreach |-> ZeroTime, lastFired |-> ZeroTime]

UpTo(n, cap) == IF n < cap THEN n + 1 ELSE n

\* Mutant: a zero cooldown means no suppression.
CoolingDown_ZeroRepeats(st, now, cooldown) ==
    st.firing /\ now - st.lastFired < cooldown

\* A condition already reported stays quiet inside the cooldown, and for good
\* when there is no cooldown.
CoolingDown(st, now, cooldown) ==
    st.firing /\ (cooldown = 0 \/ now - st.lastFired < cooldown)

\* Decision.Fire of Breach.
Fires(st, now, cooldown) ==
    /\ st.breaches + 1 >= Persistence
    /\ ~CoolingDown(st, now, cooldown)

AfterBreach(st, now, cooldown) ==
    LET fires == Fires(st, now, cooldown)
    IN  [breaches    |-> UpTo(st.breaches, BreachCap),
         clears      |-> 0,
         firing      |-> st.firing \/ fires,
         firstBreach |-> IF st.breaches = 0 THEN now ELSE st.firstBreach,
         lastFired   |-> IF fires THEN now ELSE st.lastFired]

\* Mutant: recovery needs one clear more than configured.
Recovers_Late(st) == st.firing /\ st.clears >= RecoveryPersistence

\* Decision.Recovered of Clear.
Recovers(st) == st.firing /\ st.clears + 1 >= RecoveryPersistence

\* Mutant: a clear in between does not restart the streak of breaches.
AfterClear_KeepsStreak(st) ==
    [st EXCEPT !.clears = UpTo(@, RecoveryPersistence),
               !.firing = @ /\ ~(st.clears + 1 >= RecoveryPersistence)]

AfterClear(st) ==
    [breaches    |-> 0,
     clears      |-> IF Recovers(st) THEN 0 ELSE UpTo(st.clears, RecoveryPersistence),
     firing      |-> st.firing /\ ~Recovers(st),
     firstBreach |-> st.firstBreach,
     lastFired   |-> st.lastFired]
=============================================================================
