-------------------------- MODULE DetectionProofs ---------------------------
(***************************************************************************)
(* What is reported of the observations, for every value of the constants: *)
(* each component of Detection has a part of its own below, with what it   *)
(* holds at every step, why each step keeps it, and the properties that    *)
(* follow.  Before the first that needs them come what several use: sums   *)
(* over a finite set, and one key of a gate.                               *)
(*                                                                         *)
(* Induction is over a set of numbers, or of subsets, that contains the    *)
(* first and, with each, the next (NumberInduction, SubsetInduction).      *)
(***************************************************************************)
EXTENDS Detection, FiniteSetTheorems, SequenceTheorems, NaturalsInduction,
        WellFoundedInduction, TLAPS

-----------------------------------------------------------------------------
(***************************************************************************)
(* The detection gate.  The argument is per key: what a key's gateState    *)
(* holds is a function of the run of equal observations it saw last, of    *)
(* the instant of its last event, and of whether a report is open          *)
(* (KeyInv).  A step of the gate touches one key (Breach, Clear) or starts *)
(* keys afresh (Reset, Prune), so the lemmas are about one gateState, and  *)
(* about what Store and Forget do to the map.                              *)
(***************************************************************************)
Runs == [breach : BOOLEAN, len : 0..RunCap]

\* The streaks of a gateState are those of the run s.
StreakInv(st, s) ==
    /\ s.breach => st.breaches = (IF s.len < BreachCap THEN s.len ELSE BreachCap)
    /\ ~s.breach => st.breaches = 0
    /\ s.breach => st.clears = 0
    /\ st.firing /\ ~s.breach => st.clears = s.len /\ s.len < RecoveryPersistence
    /\ s.breach /\ s.len >= Persistence => st.firing

\* It is firing exactly when a report e is open, and remembers the last event f.
ReportInv(st, e, f) ==
    /\ st.firing <=> e # ZeroTime
    /\ st.lastFired = f

KeyInv(k) == StreakInv(State(k), seen[k]) /\ ReportInv(State(k), episode[k], firedAt[k])

IInv == TypeOK /\ (\A k \in Keys : KeyInv(k)) /\ DecisionsAreEarned

-----------------------------------------------------------------------------
\* The caps on the counters are not below what they are compared with.
LEMMA CapsType ==
    /\ BreachCap \in Nat /\ RunCap \in Nat
    /\ BreachCap >= Persistence /\ BreachCap >= 2
    /\ RunCap >= BreachCap /\ RunCap >= RecoveryPersistence
BY PersistenceAssumption DEF BreachCap, RunCap

\* A key that is not in the map has a state.
LEMMA NewStateType == NewState \in GateStates
BY CapsType, PersistenceAssumption DEF NewState, GateStates, ZeroTime

\* The run of equal observations of a key, up to its cap.
LEMMA LongerType ==
    ASSUME NEW s \in Runs, NEW b \in BOOLEAN
    PROVE  Longer(s, b) \in Runs
BY CapsType DEF Longer, Runs, UpTo

\* Every key has a state.
LEMMA StateType ==
    ASSUME TypeOK, NEW k \in Keys
    PROVE  /\ State(k) \in GateStates
           /\ State(k).firstBreach <= now /\ State(k).lastFired <= now
BY NewStateType DEF State, TypeOK, NewState, ZeroTime

\* What a breach does to one gateState.
LEMMA BreachOfOneKey ==
    ASSUME NEW st \in GateStates, NEW s \in Runs, NEW t \in Nat, NEW c \in Nat,
           st.firstBreach <= t, st.lastFired <= t, StreakInv(st, s)
    PROVE  /\ AfterBreach(st, t, c) \in GateStates
           /\ AfterBreach(st, t, c).firstBreach <= t
           /\ AfterBreach(st, t, c).lastFired <= t
           /\ StreakInv(AfterBreach(st, t, c), Longer(s, TRUE))
           /\ Fires(st, t, c) => Longer(s, TRUE).len >= Persistence
<1> DEFINE fires == Fires(st, t, c)
           nt == AfterBreach(st, t, c)
           ns == Longer(s, TRUE)
<1>1. fires \in BOOLEAN
  BY DEF Fires
<1>2. /\ nt.breaches = UpTo(st.breaches, BreachCap)
      /\ nt.clears = 0
      /\ nt.firing <=> (st.firing \/ fires)
  BY DEF AfterBreach
<1>3. nt \in GateStates /\ nt.firstBreach <= t /\ nt.lastFired <= t
  <2> HIDE DEF fires
  <2>1. UpTo(st.breaches, BreachCap) \in 0..BreachCap
    BY CapsType DEF UpTo, GateStates
  <2>2. nt = [breaches    |-> UpTo(st.breaches, BreachCap),
              clears      |-> 0,
              firing      |-> st.firing \/ fires,
              firstBreach |-> IF st.breaches = 0 THEN t ELSE st.firstBreach,
              lastFired   |-> IF fires THEN t ELSE st.lastFired]
    BY DEF AfterBreach, fires
  <2> HIDE DEF nt
  <2> QED
    BY <2>1, <2>2, <1>1, PersistenceAssumption DEF GateStates
<1>4. ns.breach /\ ns.len = IF s.breach THEN UpTo(s.len, RunCap) ELSE 1
  BY DEF Longer, Runs
<1>5. s.len \in 0..RunCap /\ st.breaches \in 0..BreachCap
      /\ s.breach \in BOOLEAN /\ st.firing \in BOOLEAN
  BY DEF Runs, GateStates
<1> HIDE DEF nt, ns
<1>6. nt.breaches = (IF ns.len < BreachCap THEN ns.len ELSE BreachCap)
  <2>1. CASE s.breach
    BY <2>1, <1>2, <1>4, <1>5, CapsType DEF StreakInv, UpTo
  <2>2. CASE ~s.breach
    BY <2>2, <1>2, <1>4, <1>5, CapsType DEF StreakInv, UpTo
  <2> QED
    BY <2>1, <2>2
<1>7. st.breaches + 1 >= Persistence <=> ns.len >= Persistence
  <2>1. CASE s.breach
    BY <2>1, <1>4, <1>5, CapsType, PersistenceAssumption DEF StreakInv, UpTo
  <2>2. CASE ~s.breach
    BY <2>2, <1>4, <1>5, CapsType, PersistenceAssumption DEF StreakInv, UpTo
  <2> QED
    BY <2>1, <2>2
<1>8. ns.len >= Persistence => nt.firing
  BY <1>2, <1>5, <1>7 DEF Fires, CoolingDown
<1>9. fires => ns.len >= Persistence
  BY <1>7 DEF Fires
<1>10. StreakInv(nt, ns)
  BY <1>2, <1>4, <1>6, <1>8 DEF StreakInv
<1> QED
  BY <1>3, <1>9, <1>10 DEF nt, ns

\* What a clear does to one gateState.
LEMMA ClearOfOneKey ==
    ASSUME NEW st \in GateStates, NEW s \in Runs, NEW t \in Nat,
           st.firstBreach <= t, st.lastFired <= t, StreakInv(st, s)
    PROVE  /\ AfterClear(st) \in GateStates
           /\ AfterClear(st).firstBreach <= t /\ AfterClear(st).lastFired <= t
           /\ StreakInv(AfterClear(st), Longer(s, FALSE))
           /\ Recovers(st) => Longer(s, FALSE).len >= RecoveryPersistence
<1> DEFINE recovers == Recovers(st)
           nt == AfterClear(st)
           ns == Longer(s, FALSE)
<1>1. recovers \in BOOLEAN
  BY DEF Recovers
<1>2. /\ nt.breaches = 0
      /\ nt.clears = IF recovers THEN 0 ELSE UpTo(st.clears, RecoveryPersistence)
      /\ nt.firing <=> (st.firing /\ ~recovers)
      /\ nt.firstBreach = st.firstBreach /\ nt.lastFired = st.lastFired
  BY DEF AfterClear
<1>3. UpTo(st.clears, RecoveryPersistence) \in 0..RecoveryPersistence
  BY PersistenceAssumption DEF UpTo, GateStates
<1>4. nt \in GateStates
  BY <1>1, <1>3, CapsType, PersistenceAssumption DEF AfterClear, GateStates
<1>5. ~ns.breach /\ ns.len = IF ~s.breach THEN UpTo(s.len, RunCap) ELSE 1
  BY DEF Longer, Runs
<1>6. s.len \in 0..RunCap /\ st.clears \in 0..RecoveryPersistence
      /\ s.breach \in BOOLEAN /\ st.firing \in BOOLEAN
  BY DEF Runs, GateStates
<1>5a. recovers <=> st.firing /\ st.clears + 1 >= RecoveryPersistence
  BY DEF Recovers
<1> HIDE DEF nt, ns, recovers
<1>7. ASSUME nt.firing PROVE nt.clears = ns.len /\ ns.len < RecoveryPersistence
  <2>1. st.firing /\ ~recovers /\ st.clears + 1 < RecoveryPersistence
    <3>1. st.firing /\ ~recovers
      BY <1>7, <1>2
    <3>2. ~(st.clears + 1 >= RecoveryPersistence)
      BY <3>1, <1>5a
    <3> QED
      BY <3>1, <3>2, <1>6, PersistenceAssumption
  <2>2. nt.clears = st.clears + 1
    BY <2>1, <1>2, <1>6, PersistenceAssumption DEF UpTo
  <2>3. CASE s.breach
    BY <2>1, <2>2, <2>3, <1>5, <1>6 DEF StreakInv
  <2>4. CASE ~s.breach
    BY <2>1, <2>2, <2>4, <1>5, <1>6, CapsType, PersistenceAssumption DEF StreakInv, UpTo
  <2> QED
    BY <2>3, <2>4
<1>8. ASSUME recovers PROVE ns.len >= RecoveryPersistence
  <2>1. st.firing /\ st.clears + 1 >= RecoveryPersistence
    BY <1>8, <1>5a
  <2>2. CASE s.breach
    BY <2>1, <2>2, <1>5, <1>6, PersistenceAssumption DEF StreakInv
  <2>3. CASE ~s.breach
    BY <2>1, <2>3, <1>5, <1>6, CapsType, PersistenceAssumption DEF StreakInv, UpTo
  <2> QED
    BY <2>2, <2>3
<1>9. StreakInv(nt, ns)
  BY <1>2, <1>5, <1>7 DEF StreakInv
<1>10. nt.firstBreach <= t /\ nt.lastFired <= t
  BY <1>2
<1> QED
  BY <1>4, <1>8, <1>9, <1>10 DEF nt, ns, recovers

\* A persistent condition is firing, a persistently clear one is not.
LEMMA StreakDecides ==
    ASSUME IInv
    PROVE  RunsAreDecided
<1> SUFFICES ASSUME NEW k \in Keys
             PROVE  /\ seen[k].breach /\ seen[k].len >= Persistence => State(k).firing
                    /\ ~seen[k].breach /\ seen[k].len >= RecoveryPersistence => ~State(k).firing
  BY DEF RunsAreDecided
<1>1. StreakInv(State(k), seen[k])
  BY DEF IInv, KeyInv
<1>2. seen[k].len \in Nat
  BY CapsType DEF IInv, TypeOK
<1> QED
  BY <1>1, <1>2, PersistenceAssumption DEF StreakInv

-----------------------------------------------------------------------------
\* What Store and Forget do to the state of each key.
LEMMA StoreState ==
    ASSUME TypeOK, NEW k \in Keys, NEW st \in GateStates, Store(k, st)
    PROVE  /\ DOMAIN states' \subseteq Keys
           /\ states' \in [DOMAIN states' -> GateStates]
           /\ \A j \in Keys : State(j)' = IF j = k THEN st ELSE State(j)
           /\ \A j \in DOMAIN states' : states'[j] = IF j = k THEN st ELSE states[j]
BY DEF Store, State, TypeOK

\* Forgetting keys starts them afresh and leaves the others alone.
LEMMA ForgetState ==
    ASSUME TypeOK, NEW ks \in SUBSET Keys, Forget(ks)
    PROVE  /\ DOMAIN states' \subseteq Keys
           /\ states' \in [DOMAIN states' -> GateStates]
           /\ \A j \in Keys : State(j)' = IF j \in ks THEN NewState ELSE State(j)
           /\ \A j \in DOMAIN states' : j \in DOMAIN states /\ states'[j] = states[j]
BY DEF Forget, State, TypeOK

\* The empty map has the invariant.
LEMMA InitInv == Init => IInv
<1> SUFFICES ASSUME Init PROVE IInv
  OBVIOUS
<1>1. TypeOK
  BY CapsType, GateAssumption DEF Init, TypeOK, ZeroTime, Quiet, Decisions
<1>2. \A k \in Keys : KeyInv(k)
  BY DEF Init, KeyInv, StreakInv, ReportInv, State, NewState, ZeroTime
<1>3. DecisionsAreEarned
  BY DEF Init, DecisionsAreEarned, Quiet
<1> QED
  BY <1>1, <1>2, <1>3 DEF IInv

\* A breach keeps it: of its own key by BreachOfOneKey, of the others by StoreState.
LEMMA BreachInv ==
    ASSUME IInv, NEW k \in Keys, Breach(k)
    PROVE  IInv'
<1> DEFINE st == State(k)
           nt == AfterBreach(st, now, cooldown)
           fires == Fires(st, now, cooldown)
<1>0. TypeOK /\ now \in Nat /\ now # 0 /\ cooldown \in Nat /\ KeyInv(k) /\ ZeroTime = 0
  BY GateAssumption DEF IInv, TypeOK, ZeroTime
<1>1. st \in GateStates /\ st.firstBreach <= now /\ st.lastFired <= now
  BY <1>0, StateType
<1>2. seen[k] \in Runs /\ seen' = [seen EXCEPT ![k] = Longer(seen[k], TRUE)]
  BY <1>0 DEF TypeOK, Runs, Breach, See
<1>3. StreakInv(st, seen[k]) /\ ReportInv(st, episode[k], firedAt[k])
  BY <1>0 DEF KeyInv
<1>4. /\ nt \in GateStates /\ nt.firstBreach <= now /\ nt.lastFired <= now
      /\ StreakInv(nt, Longer(seen[k], TRUE))
      /\ fires => Longer(seen[k], TRUE).len >= Persistence
  BY <1>0, <1>1, <1>2, <1>3, BreachOfOneKey
<1>5. Store(k, nt)
  BY DEF Breach
<1>6. /\ DOMAIN states' \subseteq Keys
      /\ states' \in [DOMAIN states' -> GateStates]
      /\ \A j \in Keys : State(j)' = IF j = k THEN nt ELSE State(j)
      /\ \A j \in DOMAIN states' : states'[j] = IF j = k THEN nt ELSE states[j]
      /\ \A j \in DOMAIN states' : j # k => j \in DOMAIN states
  <2> HIDE DEF nt
  <2> QED
    BY <1>0, <1>4, <1>5, StoreState DEF Store
<1>7. fires \in BOOLEAN /\ st.firing \in BOOLEAN
  BY <1>1 DEF Fires, GateStates
<1>8. /\ nt.firing <=> (st.firing \/ fires)
      /\ nt.lastFired = IF fires THEN now ELSE st.lastFired
  BY DEF AfterBreach
<1>9. /\ firedAt' = IF fires THEN [firedAt EXCEPT ![k] = now] ELSE firedAt
      /\ episode' = IF fires /\ ~st.firing THEN [episode EXCEPT ![k] = now] ELSE episode
      /\ told' = IF fires THEN [key |-> k, what |-> "fire"] ELSE Quiet
      /\ now' = now /\ cooldown' = cooldown
  BY DEF Breach, Tell
<1>10. now \in 1..MaxTime /\ episode \in [Keys -> 0..MaxTime] /\ firedAt \in [Keys -> 0..MaxTime]
       /\ seen \in [Keys -> Runs]
  BY <1>0 DEF TypeOK, Runs
<1> HIDE DEF st, nt, fires
<1>11. TypeOK'
  <2>1. seen' \in [Keys -> Runs]
    BY <1>2, <1>10, LongerType
  <2>2. episode' \in [Keys -> 0..MaxTime] /\ firedAt' \in [Keys -> 0..MaxTime]
    BY <1>9, <1>10
  <2>3. told' \in Decisions
    BY <1>9 DEF Decisions, Quiet
  <2>4. \A j \in DOMAIN states' : states'[j].firstBreach <= now /\ states'[j].lastFired <= now
    BY <1>0, <1>4, <1>6 DEF TypeOK
  <2> QED
    BY <1>0, <1>6, <1>9, <1>10, <2>1, <2>2, <2>3, <2>4 DEF TypeOK, Runs
<1>12. ASSUME NEW j \in Keys PROVE KeyInv(j)'
  <2>1. CASE j = k
    <3>1. StreakInv(nt, Longer(seen[k], TRUE)) /\ seen'[k] = Longer(seen[k], TRUE)
      BY <1>2, <1>4, <1>10
    <3>2. ReportInv(nt, episode'[k], firedAt'[k])
      BY <1>0, <1>3, <1>7, <1>8, <1>9, <1>10 DEF ReportInv
    <3> QED
      BY <2>1, <3>1, <3>2, <1>6 DEF KeyInv
  <2>2. CASE j # k
    <3>1. State(j)' = State(j) /\ seen'[j] = seen[j]
          /\ episode'[j] = episode[j] /\ firedAt'[j] = firedAt[j]
      BY <2>2, <1>2, <1>6, <1>9, <1>10
    <3> QED
      BY <3>1 DEF IInv, KeyInv
  <2> QED
    BY <2>1, <2>2
<1>13. DecisionsAreEarned'
  <2>1. seen'[k] = Longer(seen[k], TRUE) /\ Longer(seen[k], TRUE).breach
    BY <1>2, <1>10 DEF Longer, Runs
  <2> QED
    BY <2>1, <1>4, <1>9 DEF DecisionsAreEarned, Quiet
<1> QED
  BY <1>11, <1>12, <1>13 DEF IInv

\* A clear keeps it: of its own key by ClearOfOneKey, of the others by StoreState.
LEMMA ClearInv ==
    ASSUME IInv, NEW k \in Keys, Clear(k)
    PROVE  IInv'
<1> DEFINE st == State(k)
           nt == AfterClear(st)
           recovers == Recovers(st)
<1>0. TypeOK /\ now \in Nat /\ now # 0 /\ KeyInv(k) /\ ZeroTime = 0
  BY GateAssumption DEF IInv, TypeOK, ZeroTime
<1>1. st \in GateStates /\ st.firstBreach <= now /\ st.lastFired <= now
  BY <1>0, StateType
<1>2. seen[k] \in Runs /\ seen' = [seen EXCEPT ![k] = Longer(seen[k], FALSE)]
  BY <1>0 DEF TypeOK, Runs, Clear, See
<1>3. StreakInv(st, seen[k]) /\ ReportInv(st, episode[k], firedAt[k])
  BY <1>0 DEF KeyInv
<1>4. /\ nt \in GateStates /\ nt.firstBreach <= now /\ nt.lastFired <= now
      /\ StreakInv(nt, Longer(seen[k], FALSE))
      /\ recovers => Longer(seen[k], FALSE).len >= RecoveryPersistence
  BY <1>0, <1>1, <1>2, <1>3, ClearOfOneKey
<1>5. Store(k, nt)
  BY DEF Clear
<1>6. /\ DOMAIN states' \subseteq Keys
      /\ states' \in [DOMAIN states' -> GateStates]
      /\ \A j \in Keys : State(j)' = IF j = k THEN nt ELSE State(j)
      /\ \A j \in DOMAIN states' : states'[j] = IF j = k THEN nt ELSE states[j]
      /\ \A j \in DOMAIN states' : j # k => j \in DOMAIN states
  <2> HIDE DEF nt
  <2> QED
    BY <1>0, <1>4, <1>5, StoreState DEF Store
<1>7. recovers \in BOOLEAN /\ st.firing \in BOOLEAN
  BY <1>1 DEF Recovers, GateStates
<1>8. /\ nt.firing <=> st.firing /\ ~recovers
      /\ nt.lastFired = st.lastFired
  BY DEF AfterClear
<1>8a. recovers => st.firing
  BY DEF Recovers
<1>9. /\ firedAt' = firedAt
      /\ episode' = IF recovers THEN [episode EXCEPT ![k] = ZeroTime] ELSE episode
      /\ told' = IF recovers THEN [key |-> k, what |-> "recovered"] ELSE Quiet
      /\ now' = now /\ cooldown' = cooldown
  BY DEF Clear, Tell
<1>10. now \in 1..MaxTime /\ episode \in [Keys -> 0..MaxTime] /\ firedAt \in [Keys -> 0..MaxTime]
       /\ seen \in [Keys -> Runs]
  BY <1>0 DEF TypeOK, Runs
<1> HIDE DEF st, nt, recovers
<1>11. TypeOK'
  <2>1. seen' \in [Keys -> Runs]
    BY <1>2, <1>10, LongerType
  <2>2. episode' \in [Keys -> 0..MaxTime] /\ firedAt' \in [Keys -> 0..MaxTime]
    BY <1>0, <1>9, <1>10, GateAssumption
  <2>3. told' \in Decisions
    BY <1>9 DEF Decisions, Quiet
  <2>4. \A j \in DOMAIN states' : states'[j].firstBreach <= now /\ states'[j].lastFired <= now
    BY <1>0, <1>4, <1>6 DEF TypeOK
  <2> QED
    BY <1>0, <1>6, <1>9, <1>10, <2>1, <2>2, <2>3, <2>4 DEF TypeOK, Runs
<1>12. ASSUME NEW j \in Keys PROVE KeyInv(j)'
  <2>1. CASE j = k
    <3>1. StreakInv(nt, Longer(seen[k], FALSE)) /\ seen'[k] = Longer(seen[k], FALSE)
      BY <1>2, <1>4, <1>10
    <3>2. ReportInv(nt, episode'[k], firedAt'[k])
      BY <1>0, <1>3, <1>7, <1>8, <1>8a, <1>9, <1>10 DEF ReportInv
    <3> QED
      BY <2>1, <3>1, <3>2, <1>6 DEF KeyInv
  <2>2. CASE j # k
    <3>1. State(j)' = State(j) /\ seen'[j] = seen[j]
          /\ episode'[j] = episode[j] /\ firedAt'[j] = firedAt[j]
      BY <2>2, <1>2, <1>6, <1>9, <1>10
    <3> QED
      BY <3>1 DEF IInv, KeyInv
  <2> QED
    BY <2>1, <2>2
<1>13. DecisionsAreEarned'
  <2>1. seen'[k] = Longer(seen[k], FALSE) /\ ~Longer(seen[k], FALSE).breach
    BY <1>2, <1>10 DEF Longer, Runs
  <2> QED
    BY <2>1, <1>4, <1>9 DEF DecisionsAreEarned, Quiet
<1> QED
  BY <1>11, <1>12, <1>13 DEF IInv

\* Keys that are forgotten start afresh, the others are left alone.
LEMMA ForgetInv ==
    ASSUME IInv, NEW ks \in SUBSET Keys, Forget(ks)
    PROVE  IInv'
<1>0. TypeOK /\ ZeroTime = 0 /\ ZeroTime \in 0..MaxTime
  BY GateAssumption DEF IInv, ZeroTime
<1>1. /\ DOMAIN states' \subseteq Keys
      /\ states' \in [DOMAIN states' -> GateStates]
      /\ \A j \in Keys : State(j)' = IF j \in ks THEN NewState ELSE State(j)
      /\ \A j \in DOMAIN states' : j \in DOMAIN states /\ states'[j] = states[j]
  BY <1>0, ForgetState
<1>2. /\ seen' = [k \in Keys |-> IF k \in ks THEN [breach |-> FALSE, len |-> 0] ELSE seen[k]]
      /\ episode' = [k \in Keys |-> IF k \in ks THEN ZeroTime ELSE episode[k]]
      /\ firedAt' = [k \in Keys |-> IF k \in ks THEN ZeroTime ELSE firedAt[k]]
      /\ told' = Quiet /\ cooldown' = cooldown /\ now' = now
  BY DEF Forget
<1>3. TypeOK'
  <2>1. seen' \in [Keys -> Runs]
    BY <1>0, <1>2, CapsType DEF TypeOK, Runs
  <2>2. episode' \in [Keys -> 0..MaxTime] /\ firedAt' \in [Keys -> 0..MaxTime]
    BY <1>0, <1>2 DEF TypeOK
  <2>3. told' \in Decisions
    BY <1>2 DEF Decisions, Quiet
  <2> QED
    BY <1>0, <1>1, <1>2, <2>1, <2>2, <2>3 DEF TypeOK, Runs
<1>4. ASSUME NEW j \in Keys PROVE KeyInv(j)'
  <2>1. CASE j \in ks
    BY <2>1, <1>0, <1>1, <1>2, CapsType, PersistenceAssumption
       DEF KeyInv, StreakInv, ReportInv, NewState
  <2>2. CASE j \notin ks
    BY <2>2, <1>1, <1>2 DEF IInv, KeyInv
  <2> QED
    BY <2>1, <2>2
<1>5. DecisionsAreEarned'
  BY <1>2 DEF DecisionsAreEarned, Quiet
<1> QED
  BY <1>3, <1>4, <1>5 DEF IInv

\* Time passes.
LEMMA TickInv ==
    ASSUME IInv, Tick
    PROVE  IInv'
<1>1. TypeOK'
  <2>1. TypeOK /\ now \in Nat /\ now' \in 1..MaxTime /\ now' = now + 1
    BY GateAssumption DEF IInv, TypeOK, Tick
  <2>2. \A k \in DOMAIN states : states[k].firstBreach <= now' /\ states[k].lastFired <= now'
    BY <2>1 DEF TypeOK, GateStates
  <2>3. told' \in Decisions
    BY DEF Tick, Quiet, Decisions
  <2> QED
    BY <2>1, <2>2, <2>3 DEF TypeOK, Tick, gateVars
<1>2. \A k \in Keys : KeyInv(k)'
  BY DEF IInv, KeyInv, State, Tick, gateVars
<1>3. DecisionsAreEarned'
  BY DEF DecisionsAreEarned, Quiet, Tick
<1> QED
  BY <1>1, <1>2, <1>3 DEF IInv

\* Nothing moves.
LEMMA StutterInv ==
    ASSUME IInv, UNCHANGED vars
    PROVE  IInv'
BY DEF IInv, TypeOK, KeyInv, State, DecisionsAreEarned, vars, gateVars

\* What pruning forgets are keys.
LEMMA StaleKeys == TypeOK => \A before : Stale(before) \in SUBSET Keys
BY DEF TypeOK, Stale

\* Every step of a gate keeps the invariant.
LEMMA NextInv == IInv /\ [Next]_vars => IInv'
<1> SUFFICES ASSUME IInv, [Next]_vars PROVE IInv'
  OBVIOUS
<1>1. ASSUME NEW k \in Keys, Breach(k) PROVE IInv'
  BY <1>1, BreachInv
<1>2. ASSUME NEW k \in Keys, Clear(k) PROVE IInv'
  BY <1>2, ClearInv
<1>3. ASSUME NEW k \in Keys, Reset(k) PROVE IInv'
  BY <1>3, ForgetInv DEF Reset
<1>4. ASSUME NEW before \in 1..now, Prune(before) PROVE IInv'
  BY <1>4, ForgetInv, StaleKeys DEF Prune, IInv
<1>5. CASE Tick
  BY <1>5, TickInv
<1>6. CASE UNCHANGED vars
  BY <1>6, StutterInv
<1> QED
  BY <1>1, <1>2, <1>3, <1>4, <1>5, <1>6 DEF Next

\* It holds in every reachable state.
LEMMA Invariance == Spec => []IInv
<1> QED
  BY InitInv, NextInv, PTL DEF Spec

-----------------------------------------------------------------------------
\* The gate's map, streaks, instants and history stay in their types: the
\* counters of gateState are bounded by what Breach and Clear compare them with.
THEOREM GateTypeCorrect == Spec => []TypeOK
<1>1. IInv => TypeOK
  BY DEF IInv
<1> QED
  BY <1>1, Invariance, PTL

\* Whatever was counted, suppressed or forgotten before, Breach fires only after
\* Persistence breaches in a row and Clear recovers only after
\* RecoveryPersistence clears in a row.
THEOREM GateDecisionsEarned == Spec => []DecisionsAreEarned
<1>1. IInv => DecisionsAreEarned
  BY DEF IInv
<1> QED
  BY <1>1, Invariance, PTL

\* A run of breaches that is long enough leaves the condition firing, a run of
\* clears that is long enough leaves it not firing: Breach and Clear miss none.
THEOREM GateRunsDecided == Spec => []RunsAreDecided
<1>1. IInv => RunsAreDecided
  BY StreakDecides
<1> QED
  BY <1>1, Invariance, PTL

\* Breach repeats an event of an open report only a cooldown after the last one,
\* and never when the cooldown is zero.
THEOREM GateRepeatsSpaced == Spec => RepeatsAreSpaced
<1>1. ASSUME IInv, [Next]_vars, NEW k \in Keys,
             told'.what = "fire", told'.key = k, episode[k] # ZeroTime, ~UNCHANGED vars
      PROVE  cooldown > 0 /\ now - firedAt[k] >= cooldown
  <2>1. PICK j \in Keys : Breach(j) /\ Fires(State(j), now, cooldown) /\ j = k
    <3>1. ASSUME NEW j \in Keys, Breach(j)
          PROVE  Fires(State(j), now, cooldown) /\ j = k
      BY <1>1, <3>1 DEF Breach, Tell, Quiet
    <3>2. ASSUME NEW j \in Keys, Clear(j) PROVE FALSE
      BY <1>1, <3>2 DEF Clear, Tell, Quiet
    <3>3. ASSUME NEW ks, Forget(ks) PROVE FALSE
      BY <1>1, <3>3 DEF Forget, Quiet
    <3>4. ~Tick
      BY <1>1 DEF Tick, Quiet
    <3> QED
      BY <1>1, <3>1, <3>2, <3>3, <3>4 DEF Next, Reset, Prune
  <2>2. State(k).firing /\ State(k).lastFired = firedAt[k]
    BY <1>1 DEF IInv, KeyInv, ReportInv
  <2>3. cooldown \in Nat /\ now \in Nat /\ firedAt[k] \in Nat
    BY <1>1, GateAssumption DEF IInv, TypeOK
  <2> QED
    BY <2>1, <2>2, <2>3 DEF Fires, CoolingDown
<1>2. IInv /\ [Next]_vars => [\A k \in Keys :
          told'.what = "fire" /\ told'.key = k /\ episode[k] # ZeroTime
             => cooldown > 0 /\ now - firedAt[k] >= cooldown]_vars
  BY <1>1
<1> QED
  BY <1>2, Invariance, PTL DEF Spec, RepeatsAreSpaced

\* An open report ends with a Recovered decision or with the Reset of its owner;
\* Prune, run between any two observations, never ends one.
THEOREM GateReportsEnd == Spec => ReportsEndWithRecovery
<1>1. ASSUME IInv, [Next]_vars, NEW k \in Keys,
             episode[k] # ZeroTime, episode'[k] = ZeroTime, ~UNCHANGED vars
      PROVE  (told'.what = "recovered" /\ told'.key = k) \/ Reset(k)
  <2>0. /\ State(k).firing
        /\ episode \in [Keys -> 0..MaxTime] /\ now # ZeroTime
    BY <1>1 DEF IInv, KeyInv, ReportInv, TypeOK, ZeroTime
  <2>1. ASSUME NEW j \in Keys, Breach(j) PROVE FALSE
    BY <1>1, <2>0, <2>1 DEF Breach
  <2>2. ASSUME NEW j \in Keys, Clear(j) PROVE told'.what = "recovered" /\ told'.key = k
    BY <1>1, <2>0, <2>2 DEF Clear, Tell
  <2>3. ASSUME NEW j \in Keys, Reset(j) PROVE Reset(k)
    BY <1>1, <2>3 DEF Reset, Forget
  <2>4. ASSUME NEW before \in 1..now, Prune(before) PROVE FALSE
    BY <1>1, <2>0, <2>4 DEF Prune, Forget, Stale, State
  <2>5. ~Tick
    BY <1>1 DEF Tick
  <2> QED
    BY <1>1, <2>1, <2>2, <2>3, <2>4, <2>5 DEF Next
<1>2. IInv /\ [Next]_vars => [\A k \in Keys :
          episode[k] # ZeroTime /\ episode'[k] = ZeroTime
             => (told'.what = "recovered" /\ told'.key = k) \/ Reset(k)]_vars
  BY <1>1
<1> QED
  BY <1>2, Invariance, PTL DEF Spec, ReportsEndWithRecovery

-----------------------------------------------------------------------------
(***************************************************************************)
(* Sums over a finite set.  Folds defines them by recursion on the         *)
(* subsets, one chosen element at a time.                                  *)
(***************************************************************************)
One(s) == CHOOSE x \in s : TRUE

Sums(f, S, g) == [s \in SUBSET S |-> IF s = {} THEN 0 ELSE f[One(s)] + g[s \ {One(s)}]]

SumTable(f, S) == CHOOSE g : g = Sums(f, S, g)

\* A set of numbers that is not empty has a least one.
LEMMA Least ==
  ASSUME NEW S \in SUBSET Nat, S # {}
  PROVE  \E m \in S : \A n \in S : m <= n
<1> DEFINE R == OpToRel(<, Nat)
<1>1. IsWellFoundedOn(R, Nat) BY NatLessThanWellFounded
<1>2. \E m \in S : \A n \in S : <<n, m>> \notin R
  <2> HIDE DEF R
  <2>1. QED BY <1>1, WFMin
<1>3. \A m, n \in Nat : <<n, m>> \notin R => m <= n BY DEF OpToRel
<1>4. QED BY <1>2, <1>3

\* What holds of 0, and of n + 1 with n, holds of every number.
LEMMA NumberInduction ==
  ASSUME NEW good \in SUBSET Nat, 0 \in good, \A n \in good : n + 1 \in good
  PROVE  good = Nat
<1>1. SUFFICES ASSUME Nat \ good # {} PROVE FALSE OBVIOUS
<1>2. PICK m \in Nat \ good : \A n \in Nat \ good : m <= n BY <1>1, Least
<1>3. m \in Nat /\ m # 0 BY <1>2
<1>4. m - 1 \in Nat /\ ~(m <= m - 1) BY <1>3
<1>5. m - 1 \in good BY <1>2, <1>4
<1>6. (m - 1) + 1 \in good BY <1>5
<1>7. (m - 1) + 1 = m BY <1>3
<1>8. QED BY <1>2, <1>6, <1>7

\* What holds of the empty set, and of a set when it holds without the element chosen,
\* holds of every subset of a finite set.
LEMMA SubsetInduction ==
  ASSUME NEW S, IsFiniteSet(S), NEW good \in SUBSET SUBSET S, {} \in good,
         \A s \in SUBSET S : s # {} /\ s \ {One(s)} \in good => s \in good
  PROVE  S \in good
<1> DEFINE ups == {n \in Nat : \A s \in SUBSET S : Cardinality(s) <= n => s \in good}
<1>1. \A s \in SUBSET S : IsFiniteSet(s) /\ Cardinality(s) \in Nat
  BY FS_Subset, FS_CardinalityType
<1>2. 0 \in ups
  <2>1. ASSUME NEW s \in SUBSET S, Cardinality(s) <= 0 PROVE s \in good
    <3>1. Cardinality(s) = 0 BY <1>1, <2>1
    <3>2. s = {} BY <1>1, <3>1, FS_EmptySet
    <3>3. QED BY <3>2
  <2>2. QED BY <2>1
<1>3. ASSUME NEW n \in ups PROVE n + 1 \in ups
  <2>1. ASSUME NEW s \in SUBSET S, Cardinality(s) <= n + 1 PROVE s \in good
    <3>1. CASE s = {} BY <3>1
    <3>2. CASE s # {}
      <4>1. One(s) \in s BY <3>2 DEF One
      <4>2. Cardinality(s \ {One(s)}) = Cardinality(s) - 1 BY <1>1, <4>1, FS_RemoveElement
      <4>3. s \ {One(s)} \in SUBSET S OBVIOUS
      <4>4. Cardinality(s \ {One(s)}) <= n BY <1>1, <2>1, <4>2
      <4>5. s \ {One(s)} \in good BY <4>3, <4>4
      <4>6. QED BY <3>2, <4>5
    <3>3. QED BY <3>1, <3>2
  <2>2. QED BY <2>1
<1>4. ups \in SUBSET Nat OBVIOUS
<1> HIDE DEF ups
<1>5. ups = Nat BY <1>2, <1>3, <1>4, NumberInduction
<1>6. S \in SUBSET S /\ Cardinality(S) \in ups BY <1>1, <1>5
<1>7. QED BY <1>1, <1>6 DEF ups

\* The recursion has a solution.
LEMMA SumTableExists ==
  ASSUME NEW S, IsFiniteSet(S), NEW f
  PROVE  SumTable(f, S) = Sums(f, S, SumTable(f, S))
<1> DEFINE value(g, s) == IF s = {} THEN 0 ELSE f[One(s)] + g[s \ {One(s)}]
           fits(g, n) == \A s \in SUBSET S : Cardinality(s) <= n => g[s] = value(g, s)
           ups == {n \in Nat : \E g : fits(g, n)}
<1>1. \A s \in SUBSET S : IsFiniteSet(s) /\ Cardinality(s) \in Nat
  BY FS_Subset, FS_CardinalityType
<1>2. 0 \in ups
  <2> DEFINE g == [s \in SUBSET S |-> 0]
  <2>1. ASSUME NEW s \in SUBSET S, Cardinality(s) <= 0 PROVE g[s] = value(g, s)
    <3>1. Cardinality(s) = 0 BY <1>1, <2>1
    <3>2. s = {} BY <1>1, <3>1, FS_EmptySet
    <3>3. QED BY <3>2
  <2> HIDE DEF g, value
  <2>2. fits(g, 0) BY <2>1
  <2>3. QED BY <2>2
<1>3. ASSUME NEW n \in ups PROVE n + 1 \in ups
  <2>1. PICK h : fits(h, n) OBVIOUS
  <2> DEFINE g == [s \in SUBSET S |-> value(h, s)]
  <2>2. ASSUME NEW s \in SUBSET S, Cardinality(s) <= n + 1 PROVE g[s] = value(g, s)
    <3>1. CASE s = {} BY <3>1
    <3>2. CASE s # {}
      <4>1. One(s) \in s BY <3>2 DEF One
      <4>2. Cardinality(s \ {One(s)}) = Cardinality(s) - 1 BY <1>1, <4>1, FS_RemoveElement
      <4>3. s \ {One(s)} \in SUBSET S OBVIOUS
      <4>4. Cardinality(s \ {One(s)}) <= n BY <1>1, <2>2, <4>2
      <4> DEFINE t == s \ {One(s)}
      <4>5. h[t] = value(h, t) BY <2>1, <4>3, <4>4
      <4>6. g[t] = value(h, t) BY <4>3
      <4>7. g[s] = value(h, s) OBVIOUS
      <4>8. value(h, s) = f[One(s)] + h[t] /\ value(g, s) = f[One(s)] + g[t] BY <3>2
      <4> HIDE DEF t, g, value
      <4>9. QED BY <4>5, <4>6, <4>7, <4>8
    <3>3. QED BY <3>1, <3>2
  <2> HIDE DEF g, value
  <2>3. fits(g, n + 1) BY <2>2
  <2>4. n + 1 \in Nat BY DEF ups
  <2>5. QED BY <2>3, <2>4
<1>4. ups \in SUBSET Nat OBVIOUS
<1>5. ups = Nat
  <2> HIDE DEF ups
  <2>1. QED BY <1>2, <1>3, <1>4, NumberInduction
<1>6. PICK h : fits(h, Cardinality(S))
  <2> HIDE DEF fits
  <2>1. Cardinality(S) \in ups BY <1>1, <1>5
  <2>2. QED BY <2>1
<1> DEFINE g == [s \in SUBSET S |-> h[s]]
<1>7. ASSUME NEW s \in SUBSET S PROVE g[s] = value(g, s)
  <2>1. Cardinality(s) <= Cardinality(S) BY FS_Subset
  <2>2. h[s] = value(h, s) BY <1>6, <2>1
  <2>3. g[s \ {One(s)}] = h[s \ {One(s)}] OBVIOUS
  <2>4. value(h, s) = value(g, s) BY <2>3
  <2>5. g[s] = h[s] OBVIOUS
  <2> HIDE DEF g, value
  <2>6. QED BY <2>2, <2>4, <2>5
<1>8. g = Sums(f, S, g)
  <2>1. g = [s \in SUBSET S |-> g[s]] OBVIOUS
  <2> HIDE DEF g
  <2>2. g = [s \in SUBSET S |-> value(g, s)] BY <1>7, <2>1
  <2>3. QED BY <2>2 DEF Sums
<1>9. QED
  <2> HIDE DEF g
  <2>1. \E k : k = Sums(f, S, k) BY <1>8
  <2>2. QED BY <2>1 DEF SumTable

\* The sum of what is counted, as the community modules define it.
Sum(f, S) == SumTable(f, S)[S]

\* The fold that counts the probes of a cycle is this sum.
LEMMA SumIsFold ==
  ASSUME NEW f, NEW S
  PROVE  Latency!SumFunctionOnSet(f, S) = Sum(f, S)
BY DEF Latency!SumFunctionOnSet, Latency!FoldFunctionOnSet, Latency!MapThenFoldSet, Sum,
  SumTable, Sums, One

\* A sum is the chosen element's number and the sum of the others.
LEMMA SumStep ==
  ASSUME NEW S, IsFiniteSet(S), NEW f
  PROVE  \A s \in SUBSET S :
            SumTable(f, S)[s] = IF s = {} THEN 0 ELSE f[One(s)] + SumTable(f, S)[s \ {One(s)}]
<1> DEFINE g == SumTable(f, S)
<1>1. g = Sums(f, S, g) BY SumTableExists
<1> HIDE DEF g
<1>2. \A s \in SUBSET S : g[s] = IF s = {} THEN 0 ELSE f[One(s)] + g[s \ {One(s)}]
  BY <1>1 DEF Sums
<1>3. QED BY <1>2 DEF g

\* A sum of numbers is one, and not below any bound that each of them keeps.
LEMMA SumOfNumbers ==
  ASSUME NEW S, IsFiniteSet(S), NEW f, \A x \in S : f[x] \in Nat
  PROVE  /\ Sum(f, S) \in Nat
         /\ (\A x \in S : f[x] = 0) => Sum(f, S) = 0
<1> DEFINE g == SumTable(f, S)
           good == {s \in SUBSET S : /\ g[s] \in Nat
                                     /\ (\A x \in S : f[x] = 0) => g[s] = 0}
<1>1. \A s \in SUBSET S : g[s] = IF s = {} THEN 0 ELSE f[One(s)] + g[s \ {One(s)}]
  BY SumStep
<1> HIDE DEF g
<1>2. {} \in good BY <1>1
<1>3. ASSUME NEW s \in SUBSET S, s # {}, s \ {One(s)} \in good PROVE s \in good
  <2>1. One(s) \in S BY <1>3 DEF One
  <2>2. g[s] = f[One(s)] + g[s \ {One(s)}] BY <1>1, <1>3
  <2>3. QED BY <1>3, <2>1, <2>2
<1>4. good \in SUBSET SUBSET S OBVIOUS
<1>5. S \in good
  <2> HIDE DEF good
  <2>1. QED BY <1>2, <1>3, <1>4, SubsetInduction
<1>6. QED BY <1>5 DEF g, Sum

-----------------------------------------------------------------------------
(***************************************************************************)
(* One key of a gate, after a breach and after a clear.                    *)
(***************************************************************************)
LEMMA BreachedKey ==
  ASSUME NEW st \in GateStates, NEW at \in Nat, NEW c
  PROVE  /\ AfterBreach(st, at, c) \in GateStates
         /\ AfterBreach(st, at, c).clears = 0
         /\ AfterBreach(st, at, c).breaches <= st.breaches + 1
         /\ AfterBreach(st, at, c).firing = (st.firing \/ Fires(st, at, c))
<1>1. /\ st.breaches \in 0..BreachCap /\ st.clears \in 0..RecoveryPersistence
      /\ st.firing \in BOOLEAN /\ st.firstBreach \in Nat /\ st.lastFired \in Nat
  BY DEF GateStates
<1>2. BreachCap \in Nat /\ BreachCap >= 2 BY PersistenceAssumption DEF BreachCap
<1>3. /\ UpTo(st.breaches, BreachCap) \in 0..BreachCap
      /\ UpTo(st.breaches, BreachCap) <= st.breaches + 1
  BY <1>1, <1>2 DEF UpTo
<1>4. Fires(st, at, c) \in BOOLEAN BY DEF Fires
<1>5. st.firing \/ Fires(st, at, c) \in BOOLEAN BY <1>1, <1>4
<1>6. 0 \in 0..RecoveryPersistence BY PersistenceAssumption
<1>7. AfterBreach(st, at, c) \in GateStates
  BY <1>1, <1>3, <1>4, <1>5, <1>6 DEF AfterBreach, GateStates
<1>8. QED BY <1>3, <1>7 DEF AfterBreach

\* What a clear does to one key.
LEMMA ClearedKey ==
  ASSUME NEW st \in GateStates
  PROVE  /\ AfterClear(st) \in GateStates
         /\ AfterClear(st).breaches = 0
         /\ AfterClear(st).clears <= st.clears + 1
         /\ AfterClear(st).firing = (st.firing /\ ~Recovers(st))
         /\ AfterClear(st).firing =>
              /\ st.firing /\ st.clears + 1 < RecoveryPersistence
              /\ AfterClear(st).clears = st.clears + 1
         /\ Recovers(st) => st.clears + 1 >= RecoveryPersistence
<1>1. /\ st.breaches \in 0..BreachCap /\ st.clears \in 0..RecoveryPersistence
      /\ st.firing \in BOOLEAN /\ st.firstBreach \in Nat /\ st.lastFired \in Nat
  BY DEF GateStates
<1>2. Recovers(st) \in BOOLEAN BY DEF Recovers
<1>3. (IF Recovers(st) THEN 0 ELSE UpTo(st.clears, RecoveryPersistence))
        \in 0..RecoveryPersistence
  BY <1>1, PersistenceAssumption DEF UpTo
<1>4. (st.firing /\ ~Recovers(st)) \in BOOLEAN BY <1>1, <1>2
<1>5. 0 \in 0..BreachCap BY PersistenceAssumption DEF BreachCap
<1>6. AfterClear(st) \in GateStates BY <1>1, <1>3, <1>4, <1>5 DEF AfterClear, GateStates
<1>7. /\ AfterClear(st).breaches = 0
      /\ AfterClear(st).firing = (st.firing /\ ~Recovers(st))
  BY DEF AfterClear
<1>8. AfterClear(st).clears <= st.clears + 1
  BY <1>1, PersistenceAssumption DEF AfterClear, UpTo
<1>9. ASSUME AfterClear(st).firing
      PROVE  /\ st.firing /\ st.clears + 1 < RecoveryPersistence
             /\ AfterClear(st).clears = st.clears + 1
  <2>1. st.firing /\ ~Recovers(st) BY <1>9 DEF AfterClear
  <2>2. st.clears + 1 < RecoveryPersistence
    BY <1>1, <2>1, PersistenceAssumption DEF Recovers
  <2>3. QED BY <1>1, <2>1, <2>2, PersistenceAssumption DEF AfterClear, UpTo
<1>10. Recovers(st) => st.clears + 1 >= RecoveryPersistence BY DEF Recovers
<1>11. QED BY <1>6, <1>7, <1>8, <1>9, <1>10

\* The dns collector's gates are this gate.
LEMMA DNSKeys ==
  ASSUME NEW st, NEW at, NEW c
  PROVE  /\ DNS!GateStates = GateStates /\ DNS!NewState = NewState
         /\ DNS!AfterBreach(st, at, c) = AfterBreach(st, at, c)
         /\ DNS!AfterClear(st) = AfterClear(st)
         /\ DNS!Fires(st, at, c) <=> Fires(st, at, c)
         /\ DNS!Recovers(st) <=> Recovers(st)
BY DEF DNS!GateStates, GateStates, DNS!BreachCap, BreachCap, DNS!NewState, NewState,
  DNS!ZeroTime, ZeroTime, DNS!AfterBreach, AfterBreach, DNS!UpTo, UpTo, DNS!Fires, Fires,
  DNS!CoolingDown, CoolingDown, DNS!AfterClear, AfterClear, DNS!Recovers, Recovers

\* So is the latency collector's.
LEMMA LatencyKeys ==
  ASSUME NEW st, NEW at, NEW c
  PROVE  /\ Latency!GateStates = GateStates /\ Latency!NewState = NewState
         /\ Latency!AfterBreach(st, at, c) = AfterBreach(st, at, c)
         /\ Latency!AfterClear(st) = AfterClear(st)
BY DEF Latency!GateStates, GateStates, Latency!BreachCap, BreachCap, Latency!NewState,
  NewState, Latency!ZeroTime, ZeroTime, Latency!AfterBreach, AfterBreach, Latency!UpTo,
  UpTo,
  Latency!Fires, Fires, Latency!CoolingDown, CoolingDown, Latency!AfterClear, AfterClear,
  Latency!Recovers, Recovers

-----------------------------------------------------------------------------
(***************************************************************************)
(* The ladder.  What the evidence says of a layer is tied to the world in  *)
(* one direction whatever happens: what was seen to work does.  In the     *)
(* other direction it is so as long as there was time, and a sign of life  *)
(* from a layer shows that there was, for the layers below it.             *)
(***************************************************************************)
LadderType ==
  /\ world \in Ladder!Worlds
  /\ expired \in BOOLEAN
  /\ rung \in {"local", "gateway", "dns", "isp", "internet", "classify", "done"}
  /\ ev \in Ladder!Evidences

Answering == ev.litReached > 0 \/ ev.httpsReached > 0

\* The interface and the radio are read without the network.
LocalIsSeen ==
  rung # "local" =>
    /\ ev.up = world.up /\ ev.addr = world.addr
    /\ ev.wireless = (world.radio # "wired")
    /\ ev.associated = (world.radio \in {"strong", "weak"})

GatewayIsSeen ==
  rung \notin {"local", "gateway"} =>
    /\ ev.route = (world.hop # "no route")
    /\ ev.gateway => world.hop = "point-to-point" \/ world.gateway
    /\ ~expired => (world.hop = "point-to-point" \/ world.gateway => ev.gateway)

\* Nothing is known to resolve before it has been tried, and a fallback or an answer from
\* further up shows that the resolvers had their time.
ResolversAreSeen ==
  /\ ev.resolves => world.resolver
  /\ ev.fallback => world.fallback
  /\ ev.fallback \/ Answering => (world.resolver => ev.resolves) /\ ev.dnsTested
  /\ rung \notin {"local", "gateway", "dns"} /\ ~expired =>
       (world.resolver => ev.resolves) /\ ev.dnsTested

LiteralsAreSeen ==
  /\ ev.litTested <= Literals /\ ev.litReached <= ev.litTested
  /\ rung \in {"local", "gateway", "dns"} => ev.litTested = 0
  /\ ev.litReached > 0 => \E n \in 1..ev.litTested : world.literal[n]
  /\ ev.litReached = ev.litTested => \A n \in 1..ev.litTested : world.literal[n]
  /\ ~expired /\ ev.litReached = 0 => \A n \in 1..ev.litTested : ~world.literal[n]
  /\ ~expired /\ rung \in {"internet", "classify", "done"} => ev.litTested = Literals

EndpointsAreSeen ==
  /\ ev.httpsTested <= Endpoints /\ ev.httpsReached <= ev.httpsTested
  /\ rung \in {"local", "gateway", "dns", "isp"} => ev.httpsTested = 0
  /\ ev.httpsReached > 0 => \E n \in 1..ev.httpsTested : world.https[n] = "ok"
  /\ ~expired /\ ev.httpsReached = 0 => \A n \in 1..ev.httpsTested : world.https[n] # "ok"
  /\ ~expired /\ rung \in {"classify", "done"} => ev.httpsTested = Endpoints
  /\ rung \in {"local", "gateway", "dns", "isp", "internet"} => ~ev.captive
  /\ ev.captive =>
       /\ ev.httpsReached = 0 /\ ev.litReached > 0
       /\ \E n \in 1..Endpoints : world.https[n] = "intercepted"

VerdictIsOfTheEvidence ==
  verdict = IF rung = "done" THEN Ladder!ClassifyEvidence(ev) ELSE Ladder!NoVerdict

LadderInv ==
  /\ LadderType /\ LocalIsSeen /\ GatewayIsSeen /\ ResolversAreSeen
  /\ LiteralsAreSeen /\ EndpointsAreSeen /\ VerdictIsOfTheEvidence

\* A ladder that has not begun has seen nothing.
LEMMA LadderStarts == SuiteInit => LadderInv
<1> SUFFICES ASSUME SuiteInit PROVE LadderInv OBVIOUS
<1>1. Ladder!Init BY DEF SuiteInit
<1>2. ev = Ladder!NoEvidence /\ rung = "local" /\ expired = FALSE /\ verdict = Ladder!NoVerdict
      /\ world \in Ladder!Worlds
  BY <1>1 DEF Ladder!Init
<1>3. ev \in Ladder!Evidences BY <1>2 DEF Ladder!NoEvidence, Ladder!Evidences
<1>4. LadderType BY <1>2, <1>3 DEF LadderType
<1>5. LocalIsSeen /\ GatewayIsSeen BY <1>2 DEF LocalIsSeen, GatewayIsSeen
<1>6. /\ ~ev.resolves /\ ~ev.fallback /\ ~ev.captive
      /\ ev.litTested = 0 /\ ev.litReached = 0 /\ ev.httpsTested = 0 /\ ev.httpsReached = 0
  BY <1>2 DEF Ladder!NoEvidence
<1>7. ResolversAreSeen BY <1>2, <1>6 DEF ResolversAreSeen, Answering
<1>8. LiteralsAreSeen /\ EndpointsAreSeen
  BY <1>2, <1>6, LadderAssumption DEF LiteralsAreSeen, EndpointsAreSeen
<1>9. QED BY <1>2, <1>4, <1>5, <1>7, <1>8 DEF LadderInv, VerdictIsOfTheEvidence

\* The fields of what is noted of a layer, the rest being as it was.
LEMMA LadderLocal == LadderInv /\ Ladder!Local => LadderInv'
<1> SUFFICES ASSUME LadderInv, Ladder!Local PROVE LadderInv' OBVIOUS
<1> USE DEF LadderInv
<1>1. /\ rung = "local" /\ rung' = "gateway" /\ world' = world /\ verdict' = verdict
      /\ expired' \in BOOLEAN /\ (expired => expired')
  BY DEF Ladder!Local, Ladder!MayTimeOut, LadderType
<1>2. /\ ev'.up = world.up /\ ev'.addr = world.addr
      /\ ev'.wireless = (world.radio # "wired")
      /\ ev'.associated = (world.radio \in {"strong", "weak"})
      /\ ev' = [ev EXCEPT !.up = ev'.up, !.addr = ev'.addr, !.wireless = ev'.wireless,
                          !.associated = ev'.associated, !.weak = ev'.weak]
      /\ ev'.weak \in BOOLEAN
  BY DEF Ladder!Local, LadderType, Ladder!Evidences
<1>3. LadderType'
  <2>1. world.up \in BOOLEAN /\ world.addr \in BOOLEAN BY DEF LadderType, Ladder!Worlds
  <2>2. /\ ev'.up \in BOOLEAN /\ ev'.addr \in BOOLEAN
        /\ ev'.wireless \in BOOLEAN /\ ev'.associated \in BOOLEAN
    BY <1>2, <2>1
  <2>3. ev' \in Ladder!Evidences BY <1>2, <2>2 DEF LadderType, Ladder!Evidences
  <2>4. QED BY <1>1, <2>3 DEF LadderType
<1>4. /\ ev'.litTested = ev.litTested /\ ev'.litReached = ev.litReached
      /\ ev'.httpsTested = ev.httpsTested /\ ev'.httpsReached = ev.httpsReached
      /\ ev'.captive = ev.captive /\ ev'.resolves = ev.resolves
      /\ ev'.fallback = ev.fallback /\ ev'.dnsTested = ev.dnsTested
  BY <1>2 DEF LadderType, Ladder!Evidences
<1>5. LocalIsSeen' /\ GatewayIsSeen' /\ VerdictIsOfTheEvidence'
  BY <1>1, <1>2 DEF LocalIsSeen, GatewayIsSeen, VerdictIsOfTheEvidence
<1>6. ResolversAreSeen' BY <1>1, <1>4 DEF ResolversAreSeen, Answering
<1>7. LiteralsAreSeen' BY <1>1, <1>4 DEF LiteralsAreSeen
<1>8. EndpointsAreSeen' BY <1>1, <1>4 DEF EndpointsAreSeen
<1>9. QED BY <1>3, <1>5, <1>6, <1>7, <1>8

\* The gateway rung: a gateway that answers is there; one that does not had its time, or not.
LEMMA LadderGateway == LadderInv /\ Ladder!Gateway => LadderInv'
<1> SUFFICES ASSUME LadderInv, Ladder!Gateway PROVE LadderInv' OBVIOUS
<1> USE DEF LadderInv
<1>1. /\ rung = "gateway" /\ rung' = "dns" /\ world' = world /\ verdict' = verdict
      /\ expired' \in BOOLEAN /\ (expired => expired')
  BY DEF Ladder!Gateway, Ladder!MayTimeOut, LadderType
<1>2. /\ ev'.route = (world.hop # "no route")
      /\ ev'.gateway = (world.hop = "point-to-point" \/ (world.gateway /\ ~expired'))
      /\ ev' = [ev EXCEPT !.route = ev'.route, !.gateway = ev'.gateway]
  BY DEF Ladder!Gateway, LadderType, Ladder!Evidences
<1>3. LadderType' BY <1>1, <1>2 DEF LadderType, Ladder!Evidences
<1>4. /\ ev'.litTested = ev.litTested /\ ev'.litReached = ev.litReached
      /\ ev'.httpsTested = ev.httpsTested /\ ev'.httpsReached = ev.httpsReached
      /\ ev'.captive = ev.captive /\ ev'.resolves = ev.resolves
      /\ ev'.fallback = ev.fallback /\ ev'.dnsTested = ev.dnsTested
      /\ ev'.up = ev.up /\ ev'.addr = ev.addr /\ ev'.wireless = ev.wireless
      /\ ev'.associated = ev.associated
  BY <1>2 DEF LadderType, Ladder!Evidences
<1>5. LocalIsSeen' /\ VerdictIsOfTheEvidence'
  BY <1>1, <1>4 DEF LocalIsSeen, VerdictIsOfTheEvidence
<1>5a. GatewayIsSeen' BY <1>1, <1>2 DEF GatewayIsSeen
<1>6. ResolversAreSeen' BY <1>1, <1>4 DEF ResolversAreSeen, Answering
<1>7. LiteralsAreSeen' BY <1>1, <1>4 DEF LiteralsAreSeen
<1>8. EndpointsAreSeen' BY <1>1, <1>4 DEF EndpointsAreSeen
<1>9. QED BY <1>3, <1>5, <1>5a, <1>6, <1>7, <1>8

\* The dns rung: resolvers that answer work.
LEMMA LadderDNS == LadderInv /\ Ladder!DNS => LadderInv'
<1> SUFFICES ASSUME LadderInv, Ladder!DNS PROVE LadderInv' OBVIOUS
<1> USE DEF LadderInv
<1>1. /\ rung = "dns" /\ rung' = "isp" /\ world' = world /\ verdict' = verdict
      /\ expired' \in BOOLEAN /\ (expired => expired')
  BY DEF Ladder!DNS, Ladder!MayTimeOut, LadderType
<1>2. /\ ev'.resolves = (world.resolver /\ ~expired')
      /\ ev'.fallback = (~ev'.resolves /\ world.fallback /\ ~expired')
      /\ ev'.dnsTested \in BOOLEAN /\ (~expired' => ev'.dnsTested)
      /\ ev' = [ev EXCEPT !.dnsTested = ev'.dnsTested, !.resolves = ev'.resolves,
                          !.fallback = ev'.fallback]
  <2>1. PICK tested \in {TRUE, ~expired'}, resolves \in {world.resolver /\ ~expired'} :
          ev' = [ev EXCEPT !.dnsTested = tested, !.resolves = resolves,
                           !.fallback = ~resolves /\ world.fallback /\ ~expired']
    BY DEF Ladder!DNS
  <2>2. tested \in BOOLEAN /\ (~expired' => tested) /\ resolves = (world.resolver /\ ~expired')
    BY <1>1, <2>1
  <2>3. QED BY <2>1, <2>2 DEF LadderType, Ladder!Evidences
<1>3. LadderType' BY <1>1, <1>2 DEF LadderType, Ladder!Evidences
<1>4. /\ ev'.litTested = ev.litTested /\ ev'.litReached = ev.litReached
      /\ ev'.httpsTested = ev.httpsTested /\ ev'.httpsReached = ev.httpsReached
      /\ ev'.captive = ev.captive
      /\ ev'.up = ev.up /\ ev'.addr = ev.addr /\ ev'.wireless = ev.wireless
      /\ ev'.associated = ev.associated /\ ev'.route = ev.route /\ ev'.gateway = ev.gateway
  BY <1>2 DEF LadderType, Ladder!Evidences
<1>5. LocalIsSeen' /\ GatewayIsSeen' /\ VerdictIsOfTheEvidence'
  BY <1>1, <1>4 DEF LocalIsSeen, GatewayIsSeen, VerdictIsOfTheEvidence
<1>6. ResolversAreSeen'
  <2>1. ~Answering'
    <3>1. ev.litTested = 0 /\ ev.httpsTested = 0
      BY <1>1 DEF LiteralsAreSeen, EndpointsAreSeen
    <3>2. ev.litReached <= 0 /\ ev.httpsReached <= 0
      BY <3>1 DEF LiteralsAreSeen, EndpointsAreSeen
    <3>3. ev.litReached \in Nat /\ ev.httpsReached \in Nat
      BY DEF LadderType, Ladder!Evidences
    <3>4. QED BY <1>4, <3>2, <3>3 DEF Answering
  <2>2. QED BY <1>1, <1>2, <2>1 DEF ResolversAreSeen
<1>7. LiteralsAreSeen' BY <1>1, <1>4 DEF LiteralsAreSeen
<1>8. EndpointsAreSeen' BY <1>1, <1>4 DEF EndpointsAreSeen
<1>9. QED BY <1>3, <1>5, <1>6, <1>7, <1>8

\* One more address is tested.
LEMMA LadderLiteral == LadderInv /\ Ladder!Literal => LadderInv'
<1> SUFFICES ASSUME LadderInv, Ladder!Literal PROVE LadderInv' OBVIOUS
<1> USE DEF LadderInv
<1> DEFINE n == ev.litTested + 1
<1>1. /\ rung = "isp" /\ rung' = rung /\ world' = world /\ verdict' = verdict
      /\ expired = FALSE /\ expired' \in BOOLEAN /\ ev.litTested < Literals
  BY DEF Ladder!Literal, Ladder!MayTimeOut, LadderType
<1>2. ev.litTested \in Nat /\ ev.litReached \in Nat BY DEF LadderType, Ladder!Evidences
<1>3. /\ ev'.litTested = n
      /\ ev'.litReached = IF world.literal[n] /\ ~expired' THEN ev.litReached + 1
                          ELSE ev.litReached
      /\ ev' = [ev EXCEPT !.litTested = ev'.litTested, !.litReached = ev'.litReached]
  BY DEF Ladder!Literal, LadderType, Ladder!Evidences
<1>4. ev'.litTested \in Nat /\ ev'.litReached \in Nat BY <1>2, <1>3
<1>5. LadderType' BY <1>1, <1>3, <1>4 DEF LadderType, Ladder!Evidences
<1>6. /\ ev'.httpsTested = ev.httpsTested /\ ev'.httpsReached = ev.httpsReached
      /\ ev'.captive = ev.captive /\ ev'.resolves = ev.resolves
      /\ ev'.fallback = ev.fallback /\ ev'.dnsTested = ev.dnsTested
      /\ ev'.up = ev.up /\ ev'.addr = ev.addr /\ ev'.wireless = ev.wireless
      /\ ev'.associated = ev.associated /\ ev'.route = ev.route /\ ev'.gateway = ev.gateway
  BY <1>3 DEF LadderType, Ladder!Evidences
<1>7. LocalIsSeen' /\ GatewayIsSeen' /\ VerdictIsOfTheEvidence'
  BY <1>1, <1>6 DEF LocalIsSeen, GatewayIsSeen, VerdictIsOfTheEvidence
<1>8. ResolversAreSeen' BY <1>1, <1>6 DEF ResolversAreSeen, Answering
<1>9. LiteralsAreSeen'
  <2>1. /\ ev.litReached <= ev.litTested
        /\ ev.litReached > 0 => \E m \in 1..ev.litTested : world.literal[m]
        /\ ev.litReached = ev.litTested => \A m \in 1..ev.litTested : world.literal[m]
        /\ ev.litReached = 0 => \A m \in 1..ev.litTested : ~world.literal[m]
    BY <1>1 DEF LiteralsAreSeen
  <2>2. 1..n = 1..ev.litTested \cup {n} /\ n <= Literals BY <1>1, <1>2, LadderAssumption
  <2>3. /\ ev'.litReached <= n
        /\ ev'.litReached > 0 => \E m \in 1..n : world.literal[m]
        /\ ev'.litReached = n => \A m \in 1..n : world.literal[m]
        /\ ~expired' /\ ev'.litReached = 0 => \A m \in 1..n : ~world.literal[m]
    <3>1. CASE world.literal[n] /\ ~expired' BY <1>2, <1>3, <2>1, <2>2, <3>1
    <3>2. CASE ~(world.literal[n] /\ ~expired') BY <1>2, <1>3, <2>1, <2>2, <3>2
    <3>3. QED BY <3>1, <3>2
  <2>4. QED BY <1>1, <1>3, <2>2, <2>3 DEF LiteralsAreSeen
<1>10. EndpointsAreSeen'
  <2>1. ev.captive => ev'.litReached > 0 BY <1>2, <1>3 DEF EndpointsAreSeen
  <2>2. QED BY <1>1, <1>6, <2>1 DEF EndpointsAreSeen
<1>11. QED BY <1>5, <1>7, <1>8, <1>9, <1>10

\* All addresses have been tested, or the time is up.
LEMMA LadderLiteralsDone == LadderInv /\ Ladder!LiteralsDone => LadderInv'
<1> SUFFICES ASSUME LadderInv, Ladder!LiteralsDone PROVE LadderInv' OBVIOUS
<1> USE DEF LadderInv
<1>1. /\ rung = "isp" /\ rung' = "internet" /\ world' = world /\ verdict' = verdict
      /\ ev' = ev /\ expired' \in BOOLEAN /\ (expired => expired')
      /\ ~expired' => ev.litTested = Literals
  BY DEF Ladder!LiteralsDone, LadderType
<1>2. LadderType' BY <1>1 DEF LadderType
<1>3. LocalIsSeen' /\ GatewayIsSeen' /\ VerdictIsOfTheEvidence'
  BY <1>1 DEF LocalIsSeen, GatewayIsSeen, VerdictIsOfTheEvidence
<1>4. ResolversAreSeen' BY <1>1 DEF ResolversAreSeen, Answering
<1>5. LiteralsAreSeen' BY <1>1 DEF LiteralsAreSeen
<1>6. EndpointsAreSeen' BY <1>1 DEF EndpointsAreSeen
<1>7. QED BY <1>2, <1>3, <1>4, <1>5, <1>6

\* One more HTTPS endpoint is tested.
LEMMA LadderEndpoint == LadderInv /\ Ladder!Endpoint => LadderInv'
<1> SUFFICES ASSUME LadderInv, Ladder!Endpoint PROVE LadderInv' OBVIOUS
<1> USE DEF LadderInv
<1> DEFINE n == ev.httpsTested + 1
<1>1. /\ rung = "internet" /\ rung' = rung /\ world' = world /\ verdict' = verdict
      /\ expired = FALSE /\ expired' \in BOOLEAN /\ ev.httpsTested < Endpoints
  BY DEF Ladder!Endpoint, Ladder!MayTimeOut, LadderType
<1>2. ev.httpsTested \in Nat /\ ev.httpsReached \in Nat BY DEF LadderType, Ladder!Evidences
<1>3. /\ ev'.httpsTested = n
      /\ ev'.httpsReached = IF world.https[n] = "ok" /\ ~expired' THEN ev.httpsReached + 1
                            ELSE ev.httpsReached
      /\ ev' = [ev EXCEPT !.httpsTested = ev'.httpsTested, !.httpsReached = ev'.httpsReached]
  BY DEF Ladder!Endpoint, LadderType, Ladder!Evidences
<1>4. ev'.httpsTested \in Nat /\ ev'.httpsReached \in Nat BY <1>2, <1>3
<1>5. LadderType' BY <1>1, <1>3, <1>4 DEF LadderType, Ladder!Evidences
<1>6. /\ ev'.litTested = ev.litTested /\ ev'.litReached = ev.litReached
      /\ ev'.captive = ev.captive /\ ev'.resolves = ev.resolves
      /\ ev'.fallback = ev.fallback /\ ev'.dnsTested = ev.dnsTested
      /\ ev'.up = ev.up /\ ev'.addr = ev.addr /\ ev'.wireless = ev.wireless
      /\ ev'.associated = ev.associated /\ ev'.route = ev.route /\ ev'.gateway = ev.gateway
  BY <1>3 DEF LadderType, Ladder!Evidences
<1>7. LocalIsSeen' /\ GatewayIsSeen' /\ VerdictIsOfTheEvidence'
  BY <1>1, <1>6 DEF LocalIsSeen, GatewayIsSeen, VerdictIsOfTheEvidence
<1>8. ResolversAreSeen' BY <1>1, <1>6 DEF ResolversAreSeen, Answering
<1>9. LiteralsAreSeen' BY <1>1, <1>6 DEF LiteralsAreSeen
<1>10. EndpointsAreSeen'
  <2>1. /\ ev.httpsReached <= ev.httpsTested
        /\ ev.httpsReached > 0 => \E m \in 1..ev.httpsTested : world.https[m] = "ok"
        /\ ev.httpsReached = 0 => \A m \in 1..ev.httpsTested : world.https[m] # "ok"
    BY <1>1 DEF EndpointsAreSeen
  <2>2. 1..n = 1..ev.httpsTested \cup {n} /\ n <= Endpoints BY <1>1, <1>2, LadderAssumption
  <2>3. /\ ev'.httpsReached <= n
        /\ ev'.httpsReached > 0 => \E m \in 1..n : world.https[m] = "ok"
        /\ ~expired' /\ ev'.httpsReached = 0 => \A m \in 1..n : world.https[m] # "ok"
    <3>1. CASE world.https[n] = "ok" /\ ~expired' BY <1>2, <1>3, <2>1, <2>2, <3>1
    <3>2. CASE ~(world.https[n] = "ok" /\ ~expired') BY <1>2, <1>3, <2>1, <2>2, <3>2
    <3>3. QED BY <3>1, <3>2
  <2>4. ~ev.captive BY <1>1 DEF EndpointsAreSeen
  <2>5. QED BY <1>1, <1>3, <1>6, <2>2, <2>3, <2>4 DEF EndpointsAreSeen
<1>11. QED BY <1>5, <1>7, <1>8, <1>9, <1>10

\* All endpoints have been tested, or the time is up.
LEMMA LadderEndpointsDone == LadderInv /\ Ladder!EndpointsDone => LadderInv'
<1> SUFFICES ASSUME LadderInv, Ladder!EndpointsDone PROVE LadderInv' OBVIOUS
<1> USE DEF LadderInv
<1>1. /\ rung = "internet" /\ rung' = "classify" /\ world' = world /\ verdict' = verdict
      /\ expired' \in BOOLEAN /\ (expired => expired')
      /\ ~expired' => ev.httpsTested = Endpoints
  BY DEF Ladder!EndpointsDone, LadderType
<1>2. CASE ev' = ev
  <2>1. LadderType' BY <1>1, <1>2 DEF LadderType
  <2>2. LocalIsSeen' /\ GatewayIsSeen' /\ VerdictIsOfTheEvidence'
    BY <1>1, <1>2 DEF LocalIsSeen, GatewayIsSeen, VerdictIsOfTheEvidence
  <2>3. ResolversAreSeen' BY <1>1, <1>2 DEF ResolversAreSeen, Answering
  <2>4. LiteralsAreSeen' BY <1>1, <1>2 DEF LiteralsAreSeen
  <2>5. EndpointsAreSeen' BY <1>1, <1>2 DEF EndpointsAreSeen
  <2>6. QED BY <2>1, <2>2, <2>3, <2>4, <2>5
<1>3. CASE ev' # ev
  <2>1. PICK seen_ \in {Ladder!Intercepted} \cup
               (IF expired THEN {Ladder!Intercepted \ {ev.httpsTested}} ELSE {}) :
          ev' = [ev EXCEPT !.captive = Ladder!CaptivePortal(seen_)]
    BY <1>3 DEF Ladder!EndpointsDone
  <2>2. seen_ \subseteq Ladder!Intercepted BY <2>1
  <2>3. ev'.captive \in BOOLEAN /\ ev' = [ev EXCEPT !.captive = ev'.captive]
    BY <2>1 DEF Ladder!CaptivePortal, LadderType, Ladder!Evidences
  <2>4. LadderType' BY <1>1, <2>3 DEF LadderType, Ladder!Evidences
  <2>5. /\ ev'.litTested = ev.litTested /\ ev'.litReached = ev.litReached
        /\ ev'.httpsTested = ev.httpsTested /\ ev'.httpsReached = ev.httpsReached
        /\ ev'.resolves = ev.resolves
        /\ ev'.fallback = ev.fallback /\ ev'.dnsTested = ev.dnsTested
        /\ ev'.up = ev.up /\ ev'.addr = ev.addr /\ ev'.wireless = ev.wireless
        /\ ev'.associated = ev.associated /\ ev'.route = ev.route /\ ev'.gateway = ev.gateway
    BY <2>3 DEF LadderType, Ladder!Evidences
  <2>6. LocalIsSeen' /\ GatewayIsSeen' /\ VerdictIsOfTheEvidence'
    BY <1>1, <2>5 DEF LocalIsSeen, GatewayIsSeen, VerdictIsOfTheEvidence
  <2>7. ResolversAreSeen' BY <1>1, <2>5 DEF ResolversAreSeen, Answering
  <2>8. LiteralsAreSeen' BY <1>1, <2>5 DEF LiteralsAreSeen
  <2>9. EndpointsAreSeen'
    <3>1. ASSUME ev'.captive
          PROVE  /\ ev.httpsReached = 0 /\ ev.litReached > 0
                 /\ \E n \in 1..Endpoints : world.https[n] = "intercepted"
      <4>1. Ladder!CaptivePortal(seen_)
        BY <2>1, <3>1 DEF LadderType, Ladder!Evidences
      <4>2. /\ ev.httpsReached = 0 /\ ev.litReached > 0 /\ seen_ # {}
        BY <4>1 DEF Ladder!CaptivePortal, Ladder!ExternalIPReachable
      <4>3. PICK n \in 1..ev.httpsTested : world.https[n] = "intercepted"
        BY <2>2, <4>2 DEF Ladder!Intercepted
      <4>4. ev.httpsTested \in Nat /\ ev.httpsTested <= Endpoints
        BY DEF LadderType, Ladder!Evidences, EndpointsAreSeen
      <4>5. n \in 1..Endpoints BY <4>4, LadderAssumption
      <4>6. QED BY <4>2, <4>3, <4>5
    <3>2. QED BY <1>1, <2>5, <3>1 DEF EndpointsAreSeen
  <2>10. QED BY <2>4, <2>6, <2>7, <2>8, <2>9
<1>4. QED BY <1>2, <1>3

\* The verdict is drawn from the evidence as it is.
LEMMA LadderConclude == LadderInv /\ Ladder!Conclude => LadderInv'
<1> SUFFICES ASSUME LadderInv, Ladder!Conclude PROVE LadderInv' OBVIOUS
<1> USE DEF LadderInv
<1>1. /\ rung = "classify" /\ rung' = "done" /\ UNCHANGED <<world, ev, expired>>
      /\ verdict' = Ladder!ClassifyEvidence(ev)
  BY DEF Ladder!Conclude
<1>2. LadderType' BY <1>1 DEF LadderType
<1>3. LocalIsSeen' /\ GatewayIsSeen' BY <1>1 DEF LocalIsSeen, GatewayIsSeen
<1>4. ResolversAreSeen' BY <1>1 DEF ResolversAreSeen, Answering
<1>5. LiteralsAreSeen' BY <1>1 DEF LiteralsAreSeen
<1>6. EndpointsAreSeen' BY <1>1 DEF EndpointsAreSeen
<1>7. VerdictIsOfTheEvidence'
  <2>1. Ladder!ClassifyEvidence(ev) = Ladder!ClassifyEvidence(ev)'
    BY <1>1 DEF Ladder!ClassifyEvidence, Ladder!LocalBroken,
    Ladder!GatewayBroken, Ladder!AboveGatewayWorks, Ladder!ClassifyPartial,
    Ladder!ClassifyLoss,
    Ladder!ExternalIPReachable, Ladder!HTTPSReachableAny, Ladder!AllLiteralsReached,
    Ladder!NothingResolves
  <2>2. QED BY <1>1, <2>1 DEF VerdictIsOfTheEvidence
<1>8. QED BY <1>2, <1>3, <1>4, <1>5, <1>6, <1>7

\* Every step keeps what the evidence says of the world.
LEMMA LadderStep == LadderInv /\ [SuiteNext]_allVars => LadderInv'
<1> SUFFICES ASSUME LadderInv, [SuiteNext]_allVars PROVE LadderInv' OBVIOUS
<1>1. CASE UNCHANGED ladderVars
  <2>1. world' = world /\ expired' = expired /\ rung' = rung /\ ev' = ev /\ verdict' = verdict
    BY <1>1 DEF ladderVars
  <2>2. VerdictIsOfTheEvidence'
    BY <2>1
      DEF LadderInv, VerdictIsOfTheEvidence, Ladder!ClassifyEvidence, Ladder!LocalBroken,
    Ladder!GatewayBroken, Ladder!AboveGatewayWorks, Ladder!ClassifyPartial,
    Ladder!ClassifyLoss,
    Ladder!ExternalIPReachable, Ladder!HTTPSReachableAny, Ladder!AllLiteralsReached,
    Ladder!NothingResolves
  <2>3. LadderType' /\ LocalIsSeen' /\ GatewayIsSeen'
    BY <2>1 DEF LadderInv, LadderType, LocalIsSeen, GatewayIsSeen
  <2>4. ResolversAreSeen' BY <2>1 DEF LadderInv, ResolversAreSeen, Answering
  <2>5. LiteralsAreSeen' BY <2>1 DEF LadderInv, LiteralsAreSeen
  <2>6. EndpointsAreSeen' BY <2>1 DEF LadderInv, EndpointsAreSeen
  <2>7. QED BY <2>2, <2>3, <2>4, <2>5, <2>6 DEF LadderInv
<1>2. CASE Ladder!Next
  BY <1>2, LadderLocal, LadderGateway, LadderDNS, LadderLiteral, LadderLiteralsDone,
    LadderEndpoint, LadderEndpointsDone, LadderConclude DEF Ladder!Next
<1>3. QED BY <1>1, <1>2 DEF SuiteNext, allVars

\* What the verdict says, field by field, of the evidence.
LEMMA LadderSound == LadderInv => VerdictIsSound
<1> SUFFICES ASSUME LadderInv PROVE VerdictIsSound OBVIOUS
<1> DEFINE Done == rung = "done" /\ verdict = Ladder!ClassifyEvidence(ev)
<1>1. Ladder!Concluded => Done
  BY DEF LadderInv, VerdictIsOfTheEvidence, Ladder!Concluded
<1>2. verdict \in Ladder!LadderClasses => Ladder!Concluded
  BY DEF Ladder!Concluded, Ladder!LadderClasses, Ladder!NoVerdict
<1> USE DEF Ladder!ExternalIPReachable, Ladder!HTTPSReachableAny
<1>3. /\ ev.litTested \in Nat /\ ev.litReached \in Nat
      /\ ev.httpsTested \in Nat /\ ev.httpsReached \in Nat
      /\ world.radio \in Ladder!Radios
  BY DEF LadderInv, LadderType, Ladder!Evidences, Ladder!Worlds
<1>4. /\ ev.litReached > 0 => Ladder!SomeLiteral
      /\ ev.litReached = ev.litTested /\ ev.litTested = Literals => Ladder!AllLiterals
      /\ ~expired /\ ev.litReached = 0 /\ ev.litTested = Literals => ~Ladder!SomeLiteral
      /\ ev.litReached <= ev.litTested
  BY <1>3, LadderAssumption
  DEF LadderInv, LiteralsAreSeen, Ladder!SomeLiteral, Ladder!AllLiterals
<1>5. /\ ev.httpsReached > 0 => Ladder!SomeHTTPS
      /\ ~expired /\ ev.httpsReached = 0 /\ ev.httpsTested = Endpoints => ~Ladder!SomeHTTPS
      /\ ev.httpsReached <= ev.httpsTested
      /\ ev.captive => /\ ev.httpsReached = 0
                       /\ \E n \in 1..Endpoints : world.https[n] = "intercepted"
  BY <1>3, LadderAssumption DEF LadderInv, EndpointsAreSeen, Ladder!SomeHTTPS
<1>6. /\ rung = "done" /\ ~expired => ev.litTested = Literals /\ ev.httpsTested = Endpoints
      /\ rung = "done" => ev.up = world.up /\ ev.addr = world.addr
      /\ rung = "done" => ev.route = (world.hop # "no route")
      /\ rung = "done" => ev.wireless = (world.radio # "wired")
      /\ rung = "done" => ev.associated = (world.radio \in {"strong", "weak"})
      /\ rung = "done" /\ ~expired => (world.gateway => ev.gateway)
  BY DEF LadderInv, LiteralsAreSeen, EndpointsAreSeen, LocalIsSeen, GatewayIsSeen
<1>7. /\ ev.resolves => world.resolver
      /\ ev.fallback => world.fallback
      /\ ev.litReached > 0 \/ ev.fallback => (world.resolver => ev.resolves) /\ ev.dnsTested
  BY DEF LadderInv, ResolversAreSeen, Answering
<1>8. Ladder!LocalFaultsAreNamed
  <2>1. ASSUME Ladder!Concluded PROVE
        /\ ~Ladder!LinkUsable => verdict = "LOCAL_INTERFACE_FAILURE"
        /\ Ladder!LinkUsable /\ ~Ladder!RouteExists =>
              verdict \in {"LOCAL_INTERFACE_FAILURE", "ROUTING_FAILURE"}
    BY <1>1, <1>6, <2>1
    DEF Ladder!ClassifyEvidence, Ladder!LocalBroken, Ladder!LinkUsable, Ladder!RouteExists
  <2>2. ASSUME Ladder!Concluded, verdict = "LOCAL_INTERFACE_FAILURE"
        PROVE  Ladder!LocalBroken(ev)
    BY <1>1, <2>2 DEF Ladder!ClassifyEvidence, Ladder!ClassifyPartial, Ladder!ClassifyLoss
  <2>3. ASSUME Ladder!Concluded, verdict = "LOCAL_INTERFACE_FAILURE"
        PROVE  ~Ladder!LinkUsable \/ world.radio = "unassociated"
    BY <1>1, <1>3, <1>6, <2>2, <2>3 DEF Ladder!LocalBroken, Ladder!LinkUsable, Ladder!Radios
  <2>4. QED BY <2>1, <2>3 DEF Ladder!LocalFaultsAreNamed
<1>9. Ladder!HealthyIsEarned
  <2> SUFFICES ASSUME verdict = "HEALTHY" PROVE
        /\ Ladder!LinkUsable /\ Ladder!RouteExists /\ world.resolver
        /\ Ladder!SomeLiteral \/ Ladder!SomeHTTPS
        /\ ~expired => Ladder!AllLiterals /\ (Endpoints > 0 => Ladder!SomeHTTPS)
    BY DEF Ladder!HealthyIsEarned
  <2>1. Done BY <1>1, <1>2 DEF Ladder!LadderClasses
  <2>2. /\ ~Ladder!LocalBroken(ev) /\ ev.route
        /\ \/ Ladder!AboveGatewayWorks(ev)
           \/ ev.litReached > 0 /\ Ladder!ClassifyPartial(ev) = "HEALTHY"
    BY <2>1 DEF Ladder!ClassifyEvidence, Ladder!ClassifyLoss
  <2>3. Ladder!LinkUsable /\ Ladder!RouteExists
    BY <1>6, <2>1, <2>2 DEF Ladder!LocalBroken, Ladder!LinkUsable, Ladder!RouteExists
  <2>4. CASE Ladder!AboveGatewayWorks(ev)
    <3>1. ev.httpsReached > 0 /\ ev.resolves
          /\ (ev.litTested = 0 \/ ev.litReached = ev.litTested)
      BY <2>4 DEF Ladder!AboveGatewayWorks, Ladder!AllLiteralsReached
    <3>2. ev.litReached = ev.litTested BY <1>3, <1>4, <3>1
    <3>3. QED BY <1>4, <1>5, <1>6, <1>7, <2>1, <2>3, <3>1, <3>2
  <2>5. CASE ev.litReached > 0 /\ Ladder!ClassifyPartial(ev) = "HEALTHY"
    <3>1. /\ ev.litReached > 0 /\ (ev.resolves \/ ~ev.dnsTested)
          /\ ~(ev.litTested > 0 /\ ev.litReached < ev.litTested)
          /\ ~(ev.httpsTested > 0 /\ ev.httpsReached < ev.httpsTested)
      BY <2>5 DEF Ladder!ClassifyPartial, Ladder!NothingResolves
    <3>2. ev.litReached = ev.litTested BY <1>3, <1>4, <3>1
    <3>3. ev.httpsTested > 0 => ev.httpsReached > 0 BY <1>3, <1>5, <3>1
    <3>4. QED BY <1>4, <1>5, <1>6, <1>7, <2>1, <2>3, <3>1, <3>2, <3>3
  <2>6. QED BY <2>2, <2>4, <2>5
<1>10. Ladder!TotalLossIsALoss
  <2> SUFFICES ASSUME Ladder!Concluded, ~Ladder!SomeLiteral, ~Ladder!SomeHTTPS
               PROVE  verdict \notin {"HEALTHY", "PARTIAL_CONNECTIVITY", "CAPTIVE_PORTAL"}
    BY DEF Ladder!TotalLossIsALoss
  <2>1. ~(ev.litReached > 0) /\ ~(ev.httpsReached > 0) BY <1>4, <1>5
  <2>2. QED
    BY <1>1, <2>1 DEF Ladder!ClassifyEvidence, Ladder!AboveGatewayWorks, Ladder!ClassifyLoss
<1>11. Ladder!BlameIsSound
  <2>1. ASSUME verdict = "GATEWAY_FAILURE", ~expired
        PROVE  ~world.gateway /\ ~Ladder!SomeLiteral /\ ~Ladder!SomeHTTPS
    <3>1. Done BY <1>1, <1>2, <2>1 DEF Ladder!LadderClasses
    <3>2. Ladder!GatewayBroken(ev)
      BY <2>1, <3>1 DEF Ladder!ClassifyEvidence, Ladder!ClassifyPartial, Ladder!ClassifyLoss
    <3>3. ~ev.gateway /\ ev.litReached = 0 /\ ev.httpsReached = 0
      BY <1>3, <3>2 DEF Ladder!GatewayBroken
    <3>4. QED BY <1>4, <1>5, <1>6, <2>1, <3>1, <3>3
  <2>2. ASSUME verdict = "DNS_FAILURE"
        PROVE  ~world.resolver /\ (Ladder!SomeLiteral \/ world.fallback)
    <3>1. Done BY <1>1, <1>2, <2>2 DEF Ladder!LadderClasses
    <3>2. ~ev.resolves /\ (ev.litReached > 0 \/ ev.fallback)
      BY <2>2, <3>1
        DEF Ladder!ClassifyEvidence, Ladder!ClassifyPartial, Ladder!ClassifyLoss,
        Ladder!NothingResolves
    <3>3. QED BY <1>4, <1>7, <3>2
  <2>3. ASSUME verdict = "CAPTIVE_PORTAL"
        PROVE  /\ world.resolver /\ Ladder!SomeLiteral
               /\ \E n \in 1..Endpoints : world.https[n] = "intercepted"
               /\ ~expired => Ladder!AllLiterals /\ ~Ladder!SomeHTTPS
    <3>1. Done BY <1>1, <1>2, <2>3 DEF Ladder!LadderClasses
    <3>2. /\ ev.litReached > 0 /\ (ev.resolves \/ ~ev.dnsTested) /\ ev.captive
          /\ ~(ev.litTested > 0 /\ ev.litReached < ev.litTested)
      BY <2>3, <3>1
        DEF Ladder!ClassifyEvidence, Ladder!ClassifyPartial, Ladder!ClassifyLoss,
        Ladder!NothingResolves
    <3>3. ev.litReached = ev.litTested BY <1>3, <1>4, <3>2
    <3>4. QED BY <1>4, <1>5, <1>6, <1>7, <3>1, <3>2, <3>3
  <2>4. QED BY <2>1, <2>2, <2>3 DEF Ladder!BlameIsSound
<1>12. QED BY <1>8, <1>9, <1>10, <1>11 DEF VerdictIsSound, Ladder!VerdictIsSound

\* Whatever the network, the number of targets and the place where the deadline falls, the
\* verdict names a fault of this host, is HEALTHY only when that was seen, is a loss when
\* nothing answers, and blames only what is broken.  (Engine.Diagnose, Classify)
THEOREM SpecVerdictIsSound == SuiteSpec => []VerdictIsSound
<1>1. SuiteInit => LadderInv BY LadderStarts
<1>2. LadderInv /\ [SuiteNext]_allVars => LadderInv' BY LadderStep
<1>3. LadderInv => VerdictIsSound BY LadderSound
<1>4. QED BY <1>1, <1>2, <1>3, PTL DEF SuiteSpec

-----------------------------------------------------------------------------
(***************************************************************************)
(* Packet loss.  A loss that stands reported has been answered by as many  *)
(* clear cycles as the targets have been reachable for.                    *)
(***************************************************************************)
LatencyType ==
  /\ method \in {"auto", "icmp", "tcp"}
  /\ loss \in Latency!GateStates
  /\ latencyNow \in Nat
  /\ reachable \in 0..RecoveryPersistence

ReachableIsCleared ==
  loss.firing =>
    loss.clears < RecoveryPersistence /\ (method = "auto" => loss.clears >= reachable)

LossIsNew == method = "auto" /\ latencyEvent = "PACKET_LOSS_DETECTED" => reachable = 0

LatencyInv == LatencyType /\ ReachableIsCleared /\ LossIsNew

\* Nothing has been probed.
LEMMA LatencyStarts == SuiteInit => LatencyInv
<1> SUFFICES ASSUME SuiteInit PROVE LatencyInv OBVIOUS
<1>1. Latency!Init BY DEF SuiteInit
<1>2. loss = Latency!NewState /\ reachable = 0 /\ latencyEvent = Latency!None /\ latencyNow = 1
      /\ method \in {"auto", "icmp", "tcp"}
  BY <1>1 DEF Latency!Init
<1>3. loss \in Latency!GateStates /\ ~loss.firing
  BY <1>2, PersistenceAssumption
  DEF Latency!NewState, Latency!GateStates, Latency!BreachCap, Latency!ZeroTime
<1>4. QED
  BY <1>2, <1>3, PersistenceAssumption
  DEF LatencyInv, LatencyType, ReachableIsCleared, LossIsNew

\* The gate's key.
LEMMA LossKey ==
  ASSUME NEW st \in Latency!GateStates
  PROVE  /\ latencyNow \in Nat =>
              Latency!AfterBreach(st, latencyNow, Cooldown) \in Latency!GateStates
         /\ latencyNow \in Nat => Latency!AfterBreach(st, latencyNow, Cooldown).clears = 0
         /\ Latency!AfterClear(st) \in Latency!GateStates
         /\ Latency!AfterClear(st).firing =>
              /\ st.firing /\ st.clears + 1 < RecoveryPersistence
              /\ Latency!AfterClear(st).clears = st.clears + 1
BY LatencyKeys, BreachedKey, ClearedKey

\* When every probe that was sent was answered there is no loss.
LEMMA NothingLost ==
  ASSUME NEW results,
         \A t \in Targets : results[t].sent \in Nat /\ results[t].recv = results[t].sent
  PROVE  ~Latency!Lossy(results)
<1> DEFINE sent == [t \in Targets |-> results[t].sent]
           lost == [t \in Targets |-> results[t].sent - results[t].recv]
<1>1. \A t \in Targets : sent[t] \in Nat /\ lost[t] \in Nat /\ lost[t] = 0 OBVIOUS
<1>2. DOMAIN sent = Targets /\ DOMAIN lost = Targets OBVIOUS
<1>3. Latency!Sent(results) = Sum(sent, Targets) /\ Latency!Lost(results) = Sum(lost, Targets)
  BY <1>2, SumIsFold DEF Latency!Sent, Latency!Lost, Latency!SumFunction
<1> HIDE DEF sent, lost
<1>4. Latency!Sent(results) \in Nat /\ Latency!Lost(results) = 0
  BY <1>1, <1>3, SumOfNumbers, LatencyAssumption
<1> DEFINE n == Latency!Sent(results)
<1>5. n \in Nat /\ LossPercent \in Nat /\ LossPercent > 0 BY <1>4, LatencyAssumption
<1> HIDE DEF n
<1>6. n > 0 => LossPercent * n > 0 BY <1>5
<1>7. 0 * 100 = 0 OBVIOUS
<1>8. n > 0 => ~(0 >= LossPercent * n) BY <1>5, <1>6
<1>9. QED BY <1>4, <1>7, <1>8 DEF Latency!Lossy, n

\* In auto mode a target that answers over TCP, and passes echo requests all or not at all,
\* has every probe that is sent to it answered.
LEMMA ReachableAnswers ==
  ASSUME method = "auto", NEW t, NEW icmp \in Latency!Outcomes,
         NEW tcp \in Latency!Outcomes, NEW blocked,
         tcp.sent = Probes, tcp.recv = Probes, icmp.recv \in {0, Probes}
  PROVE  /\ Latency!Probe(t, icmp, tcp, blocked).sent \in Nat
         /\ Latency!Probe(t, icmp, tcp, blocked).recv = Latency!Probe(t, icmp, tcp, blocked).sent
<1>1. Latency!Method = IF icmpUsable THEN "icmp" ELSE "tcp" BY DEF Latency!Method
<1>2. \/ Latency!Probe(t, icmp, tcp, blocked) = tcp
      \/ Latency!Probe(t, icmp, tcp, blocked) = icmp /\ ~(icmp.recv = 0 /\ tcp.recv > 0)
  BY <1>1 DEF Latency!Probe
<1>3. Probes \in Nat BY LatencyAssumption
<1>4. icmp.recv # 0 => icmp.sent = Probes BY DEF Latency!Outcomes
<1>5. Probes = 0 => icmp.sent = 0 BY DEF Latency!Outcomes
<1>6. CASE Latency!Probe(t, icmp, tcp, blocked) = tcp BY <1>3, <1>6
<1>7. CASE Latency!Probe(t, icmp, tcp, blocked) = icmp /\ ~(icmp.recv = 0 /\ tcp.recv > 0)
  BY <1>3, <1>4, <1>5, <1>7
<1>8. QED BY <1>2, <1>6, <1>7

\* A cycle of probes: a target that is reachable answers over one of the two methods.
LEMMA LatencyRun == LatencyInv /\ Latency!Run => LatencyInv'
<1> SUFFICES ASSUME LatencyInv, Latency!Run PROVE LatencyInv' OBVIOUS
<1>1. PICK icmp \in [Targets -> Latency!Outcomes], tcp \in [Targets -> Latency!Outcomes],
           expired_ \in SUBSET icmpBlocked :
        LET blocked == icmpBlocked \ expired_
            results == [t \in Targets |-> Latency!Probe(t, icmp[t], tcp[t], blocked)]
            full(r) == r.sent = Probes /\ r.recv = Probes
            counts  == \E t \in Targets : results[t].recv > 0
        IN
        /\ Latency!ReportLoss(results)
        /\ reachable' = IF ~counts THEN reachable
                        ELSE IF \A t \in Targets : full(tcp[t]) /\ icmp[t].recv \in {0, Probes}
                        THEN Latency!UpTo(reachable, RecoveryPersistence) ELSE 0
  BY DEF Latency!Run
<1> DEFINE blocked == icmpBlocked \ expired_
           results == [t \in Targets |-> Latency!Probe(t, icmp[t], tcp[t], blocked)]
           counts == \E t \in Targets : results[t].recv > 0
           passes == \A t \in Targets : /\ tcp[t].sent = Probes /\ tcp[t].recv = Probes
                                        /\ icmp[t].recv \in {0, Probes}
<1>2. /\ Latency!ReportLoss(results)
      /\ reachable' = IF ~counts THEN reachable
                      ELSE IF passes THEN Latency!UpTo(reachable, RecoveryPersistence) ELSE 0
  BY <1>1
<1>3. method' = method /\ latencyNow \in Nat /\ latencyNow' \in Nat
  BY DEF Latency!Run, LatencyInv, LatencyType
<1>4. method = "auto" /\ passes => ~Latency!Lossy(results)
  <2> SUFFICES ASSUME method = "auto", passes PROVE ~Latency!Lossy(results) OBVIOUS
  <2>1. ASSUME NEW t \in Targets
        PROVE  /\ Latency!Probe(t, icmp[t], tcp[t], blocked).sent \in Nat
               /\ Latency!Probe(t, icmp[t], tcp[t], blocked).recv
                    = Latency!Probe(t, icmp[t], tcp[t], blocked).sent
    <3>1. icmp[t] \in Latency!Outcomes /\ tcp[t] \in Latency!Outcomes OBVIOUS
    <3> HIDE DEF blocked, results
    <3>2. QED BY <3>1, ReachableAnswers
  <2>2. \A t \in Targets : results[t].sent \in Nat /\ results[t].recv = results[t].sent
    BY <2>1
  <2> HIDE DEF results
  <2>3. QED BY <2>2, NothingLost
<1>5. (\A t \in Targets : results[t].recv = 0) <=> ~counts
  <2>1. ASSUME NEW t \in Targets PROVE results[t].recv \in Nat
    <3>1. icmp[t].recv \in Nat /\ tcp[t].recv \in Nat
      BY LatencyAssumption DEF Latency!Outcomes
    <3>2. results[t] \in {icmp[t], tcp[t], Latency!NoProbes} BY DEF Latency!Probe
    <3>3. QED BY <3>1, <3>2 DEF Latency!NoProbes
  <2> HIDE DEF results
  <2>2. QED BY <2>1 DEF counts
<1> HIDE DEF results, passes, counts
<1>6. /\ loss \in Latency!GateStates /\ reachable \in 0..RecoveryPersistence
      /\ loss.clears \in 0..RecoveryPersistence
      /\ method \in {"auto", "icmp", "tcp"}
  BY DEF LatencyInv, LatencyType, Latency!GateStates
<1>7. reachable' \in 0..RecoveryPersistence /\ (reachable' = 0 \/ reachable' <= reachable + 1)
  BY <1>2, <1>6, PersistenceAssumption DEF Latency!UpTo
<1>8. CASE ~counts
  <2>1. reachable' = reachable /\ loss' = loss /\ latencyEvent' = Latency!None
    BY <1>2, <1>5, <1>8 DEF Latency!ReportLoss
  <2>2. QED
    BY <1>3, <2>1 DEF LatencyInv, LatencyType, ReachableIsCleared, LossIsNew, Latency!None
<1>9. CASE counts /\ Latency!Lossy(results)
  <2>1. loss' = Latency!AfterBreach(loss, latencyNow, Cooldown)
    BY <1>2, <1>5, <1>9 DEF Latency!ReportLoss
  <2>2. loss' \in Latency!GateStates /\ loss'.clears = 0 BY <1>3, <1>6, <2>1, LossKey
  <2>3. method = "auto" => reachable' = 0 BY <1>2, <1>4, <1>9
  <2>4. QED
    BY <1>3, <1>6, <1>7, <2>2, <2>3, PersistenceAssumption
    DEF LatencyInv, LatencyType, ReachableIsCleared, LossIsNew
<1>10. CASE counts /\ ~Latency!Lossy(results)
  <2>1. /\ loss' = Latency!AfterClear(loss)
        /\ latencyEvent' # "PACKET_LOSS_DETECTED"
    BY <1>2, <1>5, <1>10 DEF Latency!ReportLoss, Latency!None
  <2>2. /\ loss' \in Latency!GateStates
        /\ loss'.firing => /\ loss.firing /\ loss.clears + 1 < RecoveryPersistence
                           /\ loss'.clears = loss.clears + 1
    BY <1>6, <2>1, LossKey
  <2>3. ReachableIsCleared'
    <3>1. SUFFICES ASSUME loss'.firing
                   PROVE  loss'.clears < RecoveryPersistence
                          /\ (method = "auto" => loss'.clears >= reachable')
      BY <1>3 DEF ReachableIsCleared
    <3>2. loss.clears < RecoveryPersistence /\ (method = "auto" => loss.clears >= reachable)
      BY <2>2, <3>1 DEF LatencyInv, ReachableIsCleared
    <3>3. QED BY <1>6, <1>7, <2>2, <3>1, <3>2, PersistenceAssumption
  <2>4. LatencyType' BY <1>3, <1>6, <1>7, <2>2 DEF LatencyType
  <2>5. LossIsNew' BY <2>1 DEF LossIsNew
  <2>6. QED BY <2>3, <2>4, <2>5 DEF LatencyInv
<1>11. QED BY <1>8, <1>9, <1>10

\* Every step keeps it.
LEMMA LatencyStep == LatencyInv /\ [SuiteNext]_allVars => LatencyInv'
<1> SUFFICES ASSUME LatencyInv, [SuiteNext]_allVars PROVE LatencyInv' OBVIOUS
<1>1. CASE /\ method' = method /\ loss' = loss /\ reachable' = reachable
           /\ latencyNow' = latencyNow
           /\ latencyEvent' = latencyEvent \/ latencyEvent' = Latency!None
  BY <1>1 DEF LatencyInv, LatencyType, ReachableIsCleared, LossIsNew, Latency!None
<1>2. CASE UNCHANGED latencyVars BY <1>1, <1>2 DEF latencyVars
<1>3. CASE Latency!Next
  <2>1. CASE Latency!CheckICMP \/ Latency!StoreICMP
    BY <1>1, <2>1 DEF Latency!CheckICMP, Latency!StoreICMP
  <2>2. CASE Latency!Run BY <2>2, LatencyRun
  <2>3. QED BY <1>3, <2>1, <2>2 DEF Latency!Next
<1>4. QED BY <1>2, <1>3 DEF SuiteNext, allVars

\* A loss reported in auto mode while targets answer contradicts the clear cycles counted.
LEMMA LatencySound == LatencyInv => FilteredIsNotLost
<1> SUFFICES ASSUME LatencyInv, method = "auto"
             PROVE  /\ latencyEvent = "PACKET_LOSS_DETECTED" => reachable = 0
                    /\ reachable >= RecoveryPersistence => ~loss.firing
  BY DEF FilteredIsNotLost, Latency!FilteredIsNotLost
<1>1. latencyEvent = "PACKET_LOSS_DETECTED" => reachable = 0 BY DEF LatencyInv, LossIsNew
<1>2. ASSUME reachable >= RecoveryPersistence, loss.firing PROVE FALSE
  <2>1. loss.clears < RecoveryPersistence /\ loss.clears >= reachable
    BY <1>2 DEF LatencyInv, ReachableIsCleared
  <2>2. loss.clears \in Nat /\ reachable \in Nat
    BY PersistenceAssumption DEF LatencyInv, LatencyType, Latency!GateStates
  <2>3. QED BY <1>2, <2>1, <2>2, PersistenceAssumption
<1>3. QED BY <1>1, <1>2

\* Whatever the number of targets and probes and the threshold, and whenever the capability
\* was found out: in auto mode a firewall that drops echo requests is not reported as loss,
\* and a report from before is withdrawn.  (Prober.Probe, reportLoss)
THEOREM SpecFilteredIsNotLost == SuiteSpec => []FilteredIsNotLost
<1>1. SuiteInit => LatencyInv BY LatencyStarts
<1>2. LatencyInv /\ [SuiteNext]_allVars => LatencyInv' BY LatencyStep
<1>3. LatencyInv => FilteredIsNotLost BY LatencySound
<1>4. QED BY <1>1, <1>2, <1>3, PTL DEF SuiteSpec

-----------------------------------------------------------------------------
(***************************************************************************)
(* The dns collector.  The streaks of the gates are the streaks of the     *)
(* cycles, a failure that stands reported is owed its recovery, and a      *)
(* firing gate has not seen as many clean cycles as withdraw it.           *)
(***************************************************************************)
DNSType ==
  /\ fail \in GateStates /\ partial \in GateStates
  /\ dnsNow \in Nat /\ clean \in Nat
  /\ down \in 0..DNS!Streak /\ up \in 0..DNS!Streak
  /\ owed \in BOOLEAN

StreaksAreCounted ==
  /\ fail.breaches <= down \/ down = DNS!Streak
  /\ fail.clears <= up \/ up = DNS!Streak

FiringIsOwed == fail.firing => owed

CleanIsCleared ==
  /\ fail.firing => clean <= fail.clears /\ fail.clears < RecoveryPersistence
  /\ partial.firing => clean <= partial.clears /\ partial.clears < RecoveryPersistence

DNSInv == DNSType /\ StreaksAreCounted /\ FiringIsOwed /\ CleanIsCleared

\* What a cycle may report.
DNSReports ==
  /\ "RESOLUTION_FAILED" \in dnsEvents' => down' >= Persistence
  /\ "RECOVERED" \in dnsEvents' => owed /\ up' >= RecoveryPersistence
  /\ clean' >= RecoveryPersistence => ~fail'.firing /\ ~partial'.firing

\* The cap on the streaks is not below what they are compared with.
LEMMA StreakFacts ==
  /\ DNS!Streak \in Nat /\ DNS!Streak >= Persistence /\ DNS!Streak >= RecoveryPersistence
  /\ Persistence \in Nat /\ RecoveryPersistence \in Nat /\ RecoveryPersistence > 0
BY PersistenceAssumption DEF DNS!Streak

\* No resolver has been asked.
LEMMA DNSStarts == SuiteInit => DNSInv
<1> SUFFICES ASSUME SuiteInit PROVE DNSInv OBVIOUS
<1>1. DNS!Init BY DEF SuiteInit
<1>2. /\ fail = NewState /\ partial = NewState /\ dnsNow = 1 /\ owed = FALSE
      /\ down = 0 /\ up = 0 /\ clean = 0
  BY <1>1, DNSKeys DEF DNS!Init
<1>3. fail \in GateStates /\ partial \in GateStates BY <1>2, NewStateType
<1>4. /\ fail.breaches = 0 /\ fail.clears = 0 /\ ~fail.firing /\ ~partial.firing
  BY <1>2 DEF NewState
<1>5. QED
  <2>0. 0 \in 0..DNS!Streak BY StreakFacts
  <2>1. DNSType BY <1>2, <1>3, <2>0 DEF DNSType
  <2>2. StreaksAreCounted BY <1>2, <1>4 DEF StreaksAreCounted
  <2>3. FiringIsOwed /\ CleanIsCleared BY <1>4 DEF FiringIsOwed, CleanIsCleared
  <2>4. QED BY <2>1, <2>2, <2>3 DEF DNSInv

\* Some resolver is asked.
LEMMA SomeoneIsAsked == 1..Resolvers # {}
BY DNSAssumption

\* A streak that goes on keeps up with the gate's.
LEMMA StreakGrows ==
  ASSUME NEW n \in 0..DNS!Streak, NEW k \in Nat, NEW k2 \in Nat,
         k <= n \/ n = DNS!Streak, k2 <= k + 1
  PROVE  /\ DNS!UpTo(n, DNS!Streak) \in 0..DNS!Streak
         /\ k2 <= DNS!UpTo(n, DNS!Streak) \/ DNS!UpTo(n, DNS!Streak) = DNS!Streak
         /\ k + 1 <= DNS!UpTo(n, DNS!Streak) \/ DNS!UpTo(n, DNS!Streak) = DNS!Streak
<1>1. CASE n < DNS!Streak BY <1>1, StreakFacts DEF DNS!UpTo
<1>2. CASE ~(n < DNS!Streak) BY <1>2, StreakFacts DEF DNS!UpTo
<1>3. QED BY <1>1, <1>2

\* A cycle keeps the streaks together, whichever of the three reports it makes.
LEMMA DNSCycle ==
  ASSUME DNSInv, NEW answering, NEW hanging, NEW slowly, DNS!Cycle(answering, hanging, slowly)
  PROVE  DNSInv' /\ DNSReports
<1> DEFINE tried == 1..Resolvers
<1>1. /\ dnsNow' = dnsNow + 1
      /\ \/ answering = {} /\ DNS!AllFailed
         \/ answering # {} /\ answering # tried /\ DNS!SomeFailed
         \/ answering = tried /\ DNS!AllAnswered
      /\ down' = IF answering = {} THEN DNS!UpTo(down, DNS!Streak) ELSE 0
      /\ up' = IF answering # {} THEN DNS!UpTo(up, DNS!Streak) ELSE 0
      /\ clean' = IF answering = tried THEN DNS!UpTo(clean, DNS!Streak) ELSE 0
      /\ owed' = ((owed \/ "RESOLUTION_FAILED" \in dnsEvents') /\ "RECOVERED" \notin dnsEvents')
  BY DEF DNS!Cycle
<1>2. tried # {} BY SomeoneIsAsked
<1> HIDE DEF tried
<1>3. /\ fail \in GateStates /\ partial \in GateStates
      /\ dnsNow \in Nat /\ clean \in Nat
      /\ down \in 0..DNS!Streak /\ up \in 0..DNS!Streak
      /\ dnsNow' \in Nat /\ owed' \in BOOLEAN
  BY <1>1 DEF DNSInv, DNSType
<1>4. /\ fail.breaches \in Nat /\ fail.clears \in Nat /\ partial.clears \in Nat
      /\ fail.firing \in BOOLEAN /\ partial.firing \in BOOLEAN
  BY <1>3, PersistenceAssumption DEF GateStates, BreachCap
<1>5. DNS!UpTo(clean, DNS!Streak) \in Nat /\ DNS!UpTo(clean, DNS!Streak) <= clean + 1
  BY <1>3, StreakFacts DEF DNS!UpTo
<1>6. /\ fail.breaches <= down \/ down = DNS!Streak
      /\ fail.clears <= up \/ up = DNS!Streak
      /\ fail.firing => owed
      /\ fail.firing => clean <= fail.clears /\ fail.clears < RecoveryPersistence
      /\ partial.firing => clean <= partial.clears /\ partial.clears < RecoveryPersistence
  BY DEF DNSInv, StreaksAreCounted, FiringIsOwed, CleanIsCleared
<1>10. DNS!Streak' = DNS!Streak BY DEF DNS!Streak
<1>7. CASE answering = {} /\ DNS!AllFailed
  <2>1. /\ fail' = AfterBreach(fail, dnsNow, Cooldown) /\ partial' = partial
        /\ dnsEvents' = IF Fires(fail, dnsNow, Cooldown) THEN {"RESOLUTION_FAILED"} ELSE {}
        /\ down' = DNS!UpTo(down, DNS!Streak) /\ up' = 0 /\ clean' = 0
    BY <1>1, <1>2, <1>7, DNSKeys DEF DNS!AllFailed, DNS!Observe, DNS!When
  <2>2. /\ fail' \in GateStates /\ fail'.clears = 0 /\ fail'.breaches <= fail.breaches + 1
        /\ fail'.firing = (fail.firing \/ Fires(fail, dnsNow, Cooldown))
    BY <1>3, <2>1, BreachedKey
  <2>3. fail'.breaches \in Nat BY <2>2, PersistenceAssumption DEF GateStates, BreachCap
  <2>4. /\ down' \in 0..DNS!Streak /\ (fail'.breaches <= down' \/ down' = DNS!Streak)
        /\ (fail.breaches + 1 <= down' \/ down' = DNS!Streak)
    BY <1>3, <1>4, <1>6, <2>1, <2>2, <2>3, StreakGrows
  <2>5. DNSType' BY <1>3, <2>1, <2>2, <2>4, <1>10, StreakFacts DEF DNSType
  <2>6. StreaksAreCounted' BY <1>10, <2>1, <2>2, <2>4 DEF StreaksAreCounted
  <2>7. FiringIsOwed' BY <1>1, <1>6, <2>1, <2>2 DEF FiringIsOwed
  <2>8. CleanIsCleared' BY <1>4, <1>6, <2>1, <2>2, StreakFacts DEF CleanIsCleared
  <2>9. DNSReports
    <3>1. ASSUME "RESOLUTION_FAILED" \in dnsEvents' PROVE down' >= Persistence
      <4>1. Fires(fail, dnsNow, Cooldown) BY <2>1, <3>1
      <4>2. fail.breaches + 1 >= Persistence BY <4>1 DEF Fires
      <4>3. QED BY <1>4, <2>4, <4>2, StreakFacts
    <3>2. "RECOVERED" \notin dnsEvents' BY <2>1
    <3>3. ~(clean' >= RecoveryPersistence) BY <2>1, StreakFacts
    <3>4. QED BY <3>1, <3>2, <3>3 DEF DNSReports
  <2>10. QED BY <2>5, <2>6, <2>7, <2>8, <2>9 DEF DNSInv
<1>8. CASE answering # {} /\ (DNS!SomeFailed \/ DNS!AllAnswered)
  <2>1. /\ fail' = AfterClear(fail) /\ down' = 0 /\ up' = DNS!UpTo(up, DNS!Streak)
        /\ "RESOLUTION_FAILED" \notin dnsEvents'
        /\ "RECOVERED" \in dnsEvents' => Recovers(fail)
    BY <1>1, <1>8, DNSKeys DEF DNS!SomeFailed, DNS!AllAnswered, DNS!Observe, DNS!When
  <2>2. /\ fail' \in GateStates /\ fail'.breaches = 0 /\ fail'.clears <= fail.clears + 1
        /\ fail'.firing = (fail.firing /\ ~Recovers(fail))
        /\ fail'.firing => /\ fail.firing /\ fail.clears + 1 < RecoveryPersistence
                           /\ fail'.clears = fail.clears + 1
        /\ Recovers(fail) => fail.clears + 1 >= RecoveryPersistence
    BY <1>3, <2>1, ClearedKey
  <2>3. fail'.clears \in Nat BY <2>2, PersistenceAssumption DEF GateStates
  <2>4. /\ up' \in 0..DNS!Streak /\ (fail'.clears <= up' \/ up' = DNS!Streak)
        /\ (fail.clears + 1 <= up' \/ up' = DNS!Streak)
    BY <1>3, <1>4, <1>6, <2>1, <2>2, <2>3, StreakGrows
  <2>5. /\ partial' \in GateStates /\ clean' \in Nat
        /\ clean' = 0 \/ clean' <= clean + 1
        /\ partial'.firing => clean' <= partial'.clears /\ partial'.clears < RecoveryPersistence
    <3>1. CASE answering # tried
      <4>1. partial' = AfterBreach(partial, dnsNow, Cooldown) /\ clean' = 0
        BY <1>1, <1>8, <3>1, DNSKeys DEF DNS!SomeFailed, DNS!Observe
      <4>2. partial' \in GateStates /\ partial'.clears = 0 BY <1>3, <4>1, BreachedKey
      <4>3. QED BY <4>1, <4>2, StreakFacts
    <3>2. CASE answering = tried
      <4>1. partial' = AfterClear(partial) /\ clean' = DNS!UpTo(clean, DNS!Streak)
        BY <1>1, <1>8, <3>2, DNSKeys DEF DNS!AllAnswered, DNS!Observe
      <4>2. /\ partial' \in GateStates
            /\ partial'.firing => /\ partial.firing /\ partial.clears + 1 < RecoveryPersistence
                                  /\ partial'.clears = partial.clears + 1
        BY <1>3, <4>1, ClearedKey
      <4>3. QED BY <1>3, <1>4, <1>5, <1>6, <4>1, <4>2, StreakFacts
    <3>3. QED BY <3>1, <3>2
  <2>6. DNSType' BY <1>3, <2>1, <2>2, <2>4, <2>5, <1>10, StreakFacts DEF DNSType
  <2>7. StreaksAreCounted' BY <1>10, <2>1, <2>2, <2>4 DEF StreaksAreCounted
  <2>8. FiringIsOwed' BY <1>1, <1>6, <2>1, <2>2 DEF FiringIsOwed
  <2>9. fail'.firing => clean' <= fail'.clears /\ fail'.clears < RecoveryPersistence
    BY <1>3, <1>4, <1>6, <2>2, <2>3, <2>5, StreakFacts
  <2>10. CleanIsCleared' BY <2>5, <2>9 DEF CleanIsCleared
  <2>11. DNSReports
    <3>1. ASSUME "RECOVERED" \in dnsEvents' PROVE owed /\ up' >= RecoveryPersistence
      <4>1. Recovers(fail) BY <2>1, <3>1
      <4>2. fail.firing /\ fail.clears + 1 >= RecoveryPersistence BY <2>2, <4>1 DEF Recovers
      <4>3. QED BY <1>4, <1>6, <2>4, <4>2, StreakFacts
    <3>2. partial'.clears \in Nat BY <2>5, PersistenceAssumption DEF GateStates
    <3>3. ASSUME clean' >= RecoveryPersistence PROVE ~fail'.firing /\ ~partial'.firing
      BY <2>3, <2>5, <2>9, <3>2, <3>3, StreakFacts
    <3>4. QED BY <2>1, <3>1, <3>3 DEF DNSReports
  <2>12. QED BY <2>6, <2>7, <2>8, <2>10, <2>11 DEF DNSInv
<1>9. QED BY <1>1, <1>2, <1>7, <1>8

\* So does every step, and what it reports is owed.
LEMMA DNSStep == DNSInv /\ [SuiteNext]_allVars => DNSInv' /\ (DNSReports \/ UNCHANGED dnsVars)
<1> SUFFICES ASSUME DNSInv, [SuiteNext]_allVars
             PROVE  DNSInv' /\ (DNSReports \/ UNCHANGED dnsVars)
  OBVIOUS
<1>1. CASE UNCHANGED dnsVars
  <2>1. UNCHANGED <<fail, partial, dnsNow, down, up, clean, owed>> BY <1>1 DEF dnsVars
  <2>2. DNS!Streak' = DNS!Streak BY DEF DNS!Streak
  <2>3. QED
    BY <1>1, <2>1, <2>2

      DEF DNSInv, DNSType, StreaksAreCounted, FiringIsOwed, CleanIsCleared, GateStates, BreachCap
<1>2. CASE DNS!NotStored
  <2>1. /\ UNCHANGED <<fail, partial, down, up, clean, owed>>
        /\ dnsNow' = dnsNow + 1 /\ dnsEvents' = {}
    BY <1>2 DEF DNS!NotStored, DNS!gates
  <2>2. DNS!Streak' = DNS!Streak BY DEF DNS!Streak
  <2>3. DNSInv'
    <3>1. DNSType' BY <2>1, <2>2 DEF DNSInv, DNSType, GateStates, BreachCap
    <3>2. QED
      BY <2>1, <2>2, <3>1 DEF DNSInv, StreaksAreCounted, FiringIsOwed, CleanIsCleared
  <2>4. fail.clears \in Nat /\ partial.clears \in Nat /\ clean \in Nat
    BY DEF DNSInv, DNSType, GateStates
  <2>5. DNSReports
    BY <2>1, <2>4, StreakFacts DEF DNSReports, DNSInv, CleanIsCleared
  <2>6. QED BY <2>3, <2>5
<1>3. CASE DNS!Next BY <1>2, <1>3, DNSCycle DEF DNS!Next
<1>4. QED BY <1>1, <1>3 DEF SuiteNext, allVars

\* Whatever the number of resolvers and what the gates are configured to, a total failure is
\* reported only for as many stored cycles in a row as configured, a recovery follows a
\* failure that was reported, and clean cycles withdraw both conditions.  (dnsMonitor.report)
THEOREM SpecFailuresAreReported == SuiteSpec => FailuresAreReported
<1>1. SuiteInit => DNSInv BY DNSStarts
<1>2. DNSInv /\ [SuiteNext]_allVars => DNSInv' BY DNSStep
<1>3. DNSInv /\ [SuiteNext]_allVars =>
        [/\ "RESOLUTION_FAILED" \in dnsEvents' => down' >= Persistence
         /\ "RECOVERED" \in dnsEvents' => owed /\ up' >= RecoveryPersistence
         /\ clean' >= RecoveryPersistence => ~fail'.firing /\ ~partial'.firing]_(DNS!vars)
  BY DNSStep DEF DNSReports, dnsVars, DNS!vars, DNS!gates
<1>4. QED
  BY <1>1, <1>2, <1>3, PTL DEF SuiteSpec, FailuresAreReported, DNS!FailuresAreReported

-----------------------------------------------------------------------------
(***************************************************************************)
(* The public address.  Two answers of the same address that is not the    *)
(* host's are two providers that misbehave.                                *)
(***************************************************************************)
RecordIsReal ==
  latest.ip # latest'.ip /\ PublicIP!None \notin {latest.ip, latest'.ip} /\ liars' <= 1
    => latest'.ip = wan.ip

\* Every answer of an address that is not the host's is of a provider that misbehaves.
LEMMA LiarsAreCounted ==
  ASSUME NEW answer, NEW asked \in 1..Providers, NEW addr,
         addr # PublicIP!None, addr # wan.ip
  PROVE  PublicIP!Count(PublicIP!Answers(answer, asked), addr)
           <= PublicIP!Cardinality({p \in 1..Providers :
                answer[p] \notin {PublicIP!None, wan.ip}})
<1> DEFINE results == PublicIP!Answers(answer, asked)
           K == {k \in DOMAIN results : results[k] = addr}
           L == {p \in 1..Providers : answer[p] \notin {PublicIP!None, wan.ip}}
<1>1. IsFiniteSet(L)
  <2>1. IsFiniteSet(1..Providers) BY FS_Interval, PublicIPAssumption
  <2>2. L \subseteq 1..Providers OBVIOUS
  <2> HIDE DEF L
  <2>3. QED BY <2>1, <2>2, FS_Subset
<1>2. K \subseteq L
  <2>1. ASSUME NEW k \in K PROVE k \in L
    <3>1. k \in 1..asked /\ results[k] = answer[k] BY DEF PublicIP!Answers
    <3>2. answer[k] = addr BY <3>1
    <3>3. k \in 1..Providers BY <3>1, PublicIPAssumption
    <3>4. QED BY <3>2, <3>3
  <2>2. QED BY <2>1
<1>3. PublicIP!Cardinality(K) = Cardinality(K) /\ PublicIP!Cardinality(L) = Cardinality(L)
  BY DEF PublicIP!Cardinality, Cardinality
<1> HIDE DEF L, K
<1>4. Cardinality(K) <= Cardinality(L) BY <1>1, <1>2, FS_Subset
<1>5. QED BY <1>3, <1>4 DEF K, L, PublicIP!Count

\* A change of address is confirmed by two answers, and two providers do not both misbehave.
LEMMA PublicIPCycle ==
  ASSUME Confirm, Providers # 1, PublicIP!Cycle PROVE RecordIsReal
<1>1. PICK answer \in [1..Providers -> Addresses \cup {PublicIP!None}], asked \in 1..Providers :
        /\ \/ latest' = latest
           \/ PublicIP!Observe(PublicIP!Answers(answer, asked))
        /\ liars' = PublicIP!Cardinality({p \in 1..Providers :
                      answer[p] \notin {PublicIP!None, wan.ip}})
  BY DEF PublicIP!Cycle
<1> DEFINE results == PublicIP!Answers(answer, asked)
           addr == PublicIP!Agreed(results)
           liars_ == PublicIP!Cardinality({p \in 1..Providers :
                       answer[p] \notin {PublicIP!None, wan.ip}})
<1> HIDE DEF results, addr
<1> SUFFICES ASSUME latest.ip # latest'.ip, PublicIP!None \notin {latest.ip, latest'.ip},
                    liars' <= 1, latest'.ip # wan.ip
             PROVE  FALSE
  BY DEF RecordIsReal
<1>2. latest # PublicIP!NoRow BY DEF PublicIP!NoRow
<1>3. PublicIP!Observe(results) BY <1>1 DEF results
<1>4. PublicIP!Confirmed(results, addr) /\ latest'.ip = addr
  BY <1>2, <1>3 DEF PublicIP!Observe, addr
<1>5. PublicIP!Count(results, addr) >= 2 BY <1>4 DEF PublicIP!Confirmed
<1>6. addr # PublicIP!None /\ addr # wan.ip BY <1>4
<1>7. PublicIP!Count(results, addr) <= liars' BY <1>1, <1>6, LiarsAreCounted DEF results
<1>8. PublicIP!Count(results, addr) \in Nat /\ liars' \in Nat
  <2>1. \A S : PublicIP!Cardinality(S) = Cardinality(S)
    BY DEF PublicIP!Cardinality, Cardinality
  <2>2. IsFiniteSet(1..Providers) BY FS_Interval, PublicIPAssumption
  <2>3. IsFiniteSet({p \in 1..Providers : answer[p] \notin {PublicIP!None, wan.ip}})
    BY <2>2, FS_Subset
  <2>4. IsFiniteSet({k \in DOMAIN results : results[k] = addr})
    <3>1. DOMAIN results \subseteq 1..Providers
      BY PublicIPAssumption DEF results, PublicIP!Answers
    <3>2. QED BY <2>2, <3>1, FS_Subset
  <2>5. QED BY <1>1, <2>1, <2>3, <2>4, FS_CardinalityType DEF PublicIP!Count
<1>9. QED BY <1>5, <1>7, <1>8

\* Every other step leaves the record, or forgets it.
LEMMA PublicIPStep ==
  Confirm /\ Providers # 1 /\ [SuiteNext]_allVars => RecordIsReal \/ UNCHANGED publicIPVars
<1> SUFFICES ASSUME Confirm, Providers # 1, [SuiteNext]_allVars
             PROVE  RecordIsReal \/ UNCHANGED publicIPVars
  OBVIOUS
<1>1. CASE PublicIP!Cycle BY <1>1, PublicIPCycle
<1>2. CASE PublicIP!Environment
  <2>1. latest' = latest \/ latest'.ip = PublicIP!None
    BY <1>2 DEF PublicIP!Environment, PublicIP!NoRow
  <2>2. QED BY <2>1 DEF RecordIsReal
<1>3. QED BY <1>1, <1>2 DEF PublicIP!Next, SuiteNext, allVars

\* With confirm_changes and more than one provider, however many there are and whichever of
\* them answer: one that misbehaves cannot change the address on record.  (Agree, check)
THEOREM SpecChangesAreReal ==
  Confirm /\ Providers # 1 => (SuiteSpec => ChangesAreReal)
<1> SUFFICES ASSUME Confirm, Providers # 1 PROVE SuiteSpec => ChangesAreReal OBVIOUS
<1>1. [SuiteNext]_allVars =>
        [latest.ip # latest'.ip /\ PublicIP!None \notin {latest.ip, latest'.ip} /\ liars' <= 1
          => latest'.ip = wan.ip]_(PublicIP!vars)
  BY PublicIPStep DEF RecordIsReal, publicIPVars, PublicIP!vars
<1>2. QED BY <1>1, PTL DEF SuiteSpec, ChangesAreReal, PublicIP!ChangesAreReal

-----------------------------------------------------------------------------
\* A number that is less is less by one at least, also when both are multiplied.
LEMMA Multiples ==
  ASSUME NEW a \in Int, NEW b \in Int, NEW s \in Nat, a < b
  PROVE  a * s + s <= b * s
<1>1. PICK d \in Nat : b = a + 1 + d
  <2>1. b - a - 1 \in Nat /\ b = a + 1 + (b - a - 1) OBVIOUS
  <2>2. QED BY <2>1
<1>2. b * s = a * s + s + d * s BY <1>1
<1>3. d * s \in Nat OBVIOUS
<1>4. QED BY <1>2, <1>3

\* What integer division is.
LEMMA Quotient ==
  ASSUME NEW a \in Int, NEW s \in Nat, s > 0
  PROVE  /\ a \div s \in Int
         /\ (a \div s) * s <= a
         /\ a < (a \div s) * s + s
OBVIOUS

\* The quotient of a number between two multiples.
LEMMA Quotients ==
  ASSUME NEW a \in Int, NEW s \in Nat, s > 0, NEW k \in Int
  PROVE  /\ k * s <= a => k <= a \div s
         /\ a < k * s => a \div s < k
<1> DEFINE q == a \div s
<1>1. q \in Int /\ q * s <= a /\ a < q * s + s BY Quotient
<1> HIDE DEF q
<1>2. ASSUME k * s <= a, ~(k <= q) PROVE FALSE
  <2>1. q * s + s <= k * s BY <1>1, <1>2, Multiples
  <2>2. q * s \in Int /\ k * s \in Int BY <1>1
  <2>3. QED BY <1>1, <1>2, <2>1, <2>2
<1>3. ASSUME a < k * s, ~(q < k) PROVE FALSE
  <2>1. k * s <= q * s
    <3>1. CASE k = q BY <1>1, <3>1
    <3>2. CASE k # q
      <4>1. k * s + s <= q * s BY <1>1, <1>3, <3>2, Multiples
      <4>2. QED BY <1>1, <4>1
    <3>3. QED BY <3>1, <3>2
  <2>2. q * s \in Int /\ k * s \in Int BY <1>1
  <2>3. QED BY <1>1, <1>3, <2>1, <2>2
<1>4. QED BY <1>1, <1>2, <1>3 DEF q

\* Division keeps the order.
LEMMA QuotientMonotone ==
  ASSUME NEW a \in Int, NEW b \in Int, NEW s \in Nat, s > 0, a <= b
  PROVE  a \div s <= b \div s
<1>1. a \div s \in Int /\ (a \div s) * s <= a BY Quotient
<1>2. (a \div s) * s <= b BY <1>1
<1>3. QED BY <1>1, <1>2, Quotients

-----------------------------------------------------------------------------
\* A sum is above, or below, as many times its weights as each of its terms is.
LEMMA SumOfWeighted ==
  ASSUME NEW S, IsFiniteSet(S), NEW f, NEW w, NEW k \in Nat,
         \A x \in S : f[x] \in Nat /\ w[x] \in Nat
  PROVE  /\ (\A x \in S : f[x] >= k * w[x]) => Sum(f, S) >= k * Sum(w, S)
         /\ (\A x \in S : f[x] <= k * w[x]) => Sum(f, S) <= k * Sum(w, S)
<1> DEFINE F == SumTable(f, S)
           W == SumTable(w, S)
           good == {s \in SUBSET S :
                      /\ F[s] \in Nat /\ W[s] \in Nat
                      /\ (\A x \in S : f[x] >= k * w[x]) => F[s] >= k * W[s]
                      /\ (\A x \in S : f[x] <= k * w[x]) => F[s] <= k * W[s]}
<1>1. \A s \in SUBSET S : F[s] = IF s = {} THEN 0 ELSE f[One(s)] + F[s \ {One(s)}]
  BY SumStep
<1>2. \A s \in SUBSET S : W[s] = IF s = {} THEN 0 ELSE w[One(s)] + W[s \ {One(s)}]
  BY SumStep
<1> HIDE DEF F, W
<1>3. {} \in good
  <2>1. {} \in SUBSET S /\ F[{}] = 0 /\ W[{}] = 0 BY <1>1, <1>2
  <2>2. k * 0 = 0 OBVIOUS
  <2>3. QED BY <2>1, <2>2
<1>4. ASSUME NEW s \in SUBSET S, s # {}, s \ {One(s)} \in good PROVE s \in good
  <2> DEFINE x == One(s)
             t == s \ {x}
  <2>1. x \in S BY <1>4 DEF One
  <2>2. F[s] = f[x] + F[t] /\ W[s] = w[x] + W[t] BY <1>1, <1>2, <1>4
  <2>3. /\ F[t] \in Nat /\ W[t] \in Nat
        /\ (\A y \in S : f[y] >= k * w[y]) => F[t] >= k * W[t]
        /\ (\A y \in S : f[y] <= k * w[y]) => F[t] <= k * W[t]
    BY <1>4
  <2> HIDE DEF x, t
  <2>4. f[x] \in Nat /\ w[x] \in Nat BY <2>1
  <2>5. k * W[s] = k * w[x] + k * W[t] BY <2>2, <2>3, <2>4
  <2>6. k * w[x] \in Nat /\ k * W[t] \in Nat BY <2>3, <2>4
  <2>7. F[s] \in Nat /\ W[s] \in Nat BY <2>2, <2>3, <2>4
  <2>8. ASSUME \A y \in S : f[y] >= k * w[y] PROVE F[s] >= k * W[s]
    <3>1. f[x] >= k * w[x] /\ F[t] >= k * W[t] BY <2>1, <2>3, <2>8
    <3>2. QED BY <2>2, <2>3, <2>4, <2>5, <2>6, <3>1
  <2>9. ASSUME \A y \in S : f[y] <= k * w[y] PROVE F[s] <= k * W[s]
    <3>1. f[x] <= k * w[x] /\ F[t] <= k * W[t] BY <2>1, <2>3, <2>9
    <3>2. QED BY <2>2, <2>3, <2>4, <2>5, <2>6, <3>1
  <2>10. QED BY <2>7, <2>8, <2>9
<1>5. good \in SUBSET SUBSET S OBVIOUS
<1>6. S \in good
  <2> HIDE DEF good
  <2>1. QED BY <1>3, <1>4, <1>5, SubsetInduction
<1>7. QED BY <1>6 DEF F, W, Sum

\* A sum of larger numbers is larger.
LEMMA SumMonotone ==
  ASSUME NEW S, IsFiniteSet(S), NEW f, NEW g,
         \A x \in S : f[x] \in Nat /\ g[x] \in Nat /\ f[x] <= g[x]
  PROVE  Sum(f, S) <= Sum(g, S)
<1>1. /\ (\A x \in S : g[x] >= 1 * f[x]) => Sum(g, S) >= 1 * Sum(f, S)
  BY SumOfWeighted
<1>2. \A x \in S : g[x] >= 1 * f[x] OBVIOUS
<1>3. Sum(f, S) \in Nat /\ Sum(g, S) \in Nat BY SumOfNumbers
<1>4. QED BY <1>1, <1>2, <1>3

\* A sum with a term that is positive is positive.
LEMMA SumPositive ==
  ASSUME NEW S, IsFiniteSet(S), S # {}, NEW f, \A x \in S : f[x] \in Nat /\ f[x] > 0
  PROVE  Sum(f, S) > 0
<1> DEFINE F == SumTable(f, S)
           good == {s \in SUBSET S : F[s] \in Nat /\ (s # {} => F[s] > 0)}
<1>1. \A s \in SUBSET S : F[s] = IF s = {} THEN 0 ELSE f[One(s)] + F[s \ {One(s)}]
  BY SumStep
<1> HIDE DEF F
<1>2. {} \in good
  <2>1. {} \in SUBSET S /\ F[{}] = 0 BY <1>1
  <2>2. QED BY <2>1
<1>3. ASSUME NEW s \in SUBSET S, s # {}, s \ {One(s)} \in good PROVE s \in good
  <2>1. One(s) \in S BY <1>3 DEF One
  <2>2. F[s] = f[One(s)] + F[s \ {One(s)}] BY <1>1, <1>3
  <2>3. QED BY <1>3, <2>1, <2>2
<1>4. good \in SUBSET SUBSET S OBVIOUS
<1>5. S \in good
  <2> HIDE DEF good
  <2>1. QED BY <1>2, <1>3, <1>4, SubsetInduction
<1>6. QED BY <1>5 DEF F, Sum
-----------------------------------------------------------------------------
(***************************************************************************)
(* The health score.  It is a weighted average of the scores of what was   *)
(* measured, rounded to a tenth of a point.                                *)
(***************************************************************************)
LEMMA HealthSums ==
  ASSUME NEW f, NEW S PROVE Health!SumFunctionOnSet(f, S) = Sum(f, S)
BY DEF Health!SumFunctionOnSet, Health!FoldFunctionOnSet, Health!MapThenFoldSet, Sum,
  SumTable, Sums, One

\* The lesser and the greater of two numbers.
LEMMA HealthExtremes ==
  ASSUME NEW a \in Int, NEW b \in Int
  PROVE  /\ Health!Min({a, b}) = IF a <= b THEN a ELSE b
         /\ Health!Max({a, b}) = IF a >= b THEN a ELSE b
<1>1. \A x : x \in {a, b} /\ (\A y \in {a, b} : x <= y) => x = IF a <= b THEN a ELSE b
  OBVIOUS
<1>2. \A x : x \in {a, b} /\ (\A y \in {a, b} : x >= y) => x = IF a >= b THEN a ELSE b
  OBVIOUS
<1>3. Health!Min({a, b}) = IF a <= b THEN a ELSE b
  <2>1. \E x \in {a, b} : \A y \in {a, b} : x <= y OBVIOUS
  <2>2. QED BY <1>1, <2>1 DEF Health!Min
<1>4. Health!Max({a, b}) = IF a >= b THEN a ELSE b
  <2>1. \E x \in {a, b} : \A y \in {a, b} : x >= y OBVIOUS
  <2>2. QED BY <1>2, <2>1 DEF Health!Max
<1>5. QED BY <1>3, <1>4

\* A value clamped to the range of scores.
Clamped(q) == Health!Max({0, Health!Min({Health!Full, q})})

\* Clamping yields a score between nothing and full.
LEMMA ClampedInRange ==
  ASSUME NEW q \in Int
  PROVE  Clamped(q) = IF q < 0 THEN 0 ELSE IF q > 10000 THEN 10000 ELSE q
<1>1. Health!Min({10000, q}) = IF 10000 <= q THEN 10000 ELSE q BY HealthExtremes
<1>2. Health!Min({10000, q}) \in Int BY <1>1
<1>3. Health!Max({0, Health!Min({10000, q})})
        = IF 0 >= Health!Min({10000, q}) THEN 0 ELSE Health!Min({10000, q})
  <2> DEFINE e == Health!Min({10000, q})
  <2>1. e \in Int BY <1>2
  <2> HIDE DEF e
  <2>2. Health!Max({0, e}) = IF 0 >= e THEN 0 ELSE e BY <2>1, HealthExtremes
  <2>3. QED BY <2>2 DEF e
<1>4. QED BY <1>1, <1>3 DEF Clamped, Health!Full

\* How far a value is from the bad end of its scale, and how long the scale is.
Part(c, v) == IF Good[c] < Bad[c] THEN Bad[c] - v ELSE v - Bad[c]
Span(c) == IF Good[c] < Bad[c] THEN Bad[c] - Good[c] ELSE Good[c] - Bad[c]

\* A score is the part of the way from bad to good, whichever of them is higher.
LEMMA Scale ==
  ASSUME NEW c \in Components, NEW v \in Nat
  PROVE  /\ Part(c, v) \in Int /\ Span(c) \in Nat /\ Span(c) > 0
         /\ (Part(c, v) * 10000) \div Span(c) \in Int
         /\ Health!LinearScore(v, Good[c], Bad[c]) = Clamped((Part(c, v) * 10000) \div Span(c))
<1>1. Good[c] \in Nat /\ Bad[c] \in Nat /\ Good[c] # Bad[c] BY HealthAssumption
<1>2. Part(c, v) \in Int /\ Span(c) \in Nat /\ Span(c) > 0 BY <1>1 DEF Part, Span
<1>3. (Part(c, v) * 10000) \in Int BY <1>2
<1>4. (Part(c, v) * 10000) \div Span(c) \in Int BY <1>2, <1>3, Quotient
<1>5. Health!LinearScore(v, Good[c], Bad[c]) = Clamped((Part(c, v) * 10000) \div Span(c))
  BY <1>1 DEF Health!LinearScore, Clamped, Part, Span, Health!Full
<1>6. QED BY <1>2, <1>4, <1>5

\* The score of a measurement is a number.
LEMMA ScoreIsNumber ==
  ASSUME NEW c \in Components, NEW v \in Nat
  PROVE  Health!LinearScore(v, Good[c], Bad[c]) \in Nat
<1> DEFINE q == (Part(c, v) * 10000) \div Span(c)
<1>1. q \in Int /\ Health!LinearScore(v, Good[c], Bad[c]) = Clamped(q) BY Scale
<1> HIDE DEF q
<1>2. Clamped(q) = IF q < 0 THEN 0 ELSE IF q > 10000 THEN 10000 ELSE q
  BY <1>1, ClampedInRange
<1>3. QED BY <1>1, <1>2

\* A better value does not score less.
LEMMA ScoreMonotone ==
  ASSUME NEW c \in Components, NEW a \in Nat, NEW b \in Nat, Health!Better(c, a, b)
  PROVE  Health!LinearScore(a, Good[c], Bad[c]) >= Health!LinearScore(b, Good[c], Bad[c])
<1> DEFINE p == Part(c, a) * 10000
           r == Part(c, b) * 10000
<1>1. Part(c, a) \in Int /\ Part(c, b) \in Int /\ Span(c) \in Nat /\ Span(c) > 0
  BY Scale
<1>2. Good[c] \in Nat /\ Bad[c] \in Nat /\ (Good[c] < Bad[c] <=> c \notin Throughput)
  BY HealthAssumption
<1>3. Part(c, b) <= Part(c, a) BY <1>2 DEF Part, Health!Better
<1>4. p \in Int /\ r \in Int /\ r <= p BY <1>1, <1>3
<1> HIDE DEF p, r
<1>5. r \div Span(c) <= p \div Span(c) BY <1>1, <1>4, QuotientMonotone
<1>6. /\ p \div Span(c) \in Int /\ r \div Span(c) \in Int
      /\ Health!LinearScore(a, Good[c], Bad[c]) = Clamped(p \div Span(c))
      /\ Health!LinearScore(b, Good[c], Bad[c]) = Clamped(r \div Span(c))
  BY Scale DEF p, r
<1>7. QED BY <1>5, <1>6, ClampedInRange

\* Rounding to tenths keeps the order, and leaves a whole number of tenths alone.
LEMMA Rounded ==
  ASSUME NEW a \in Nat, NEW b \in Nat, a <= b
  PROVE  /\ Health!Round(a) \in Nat /\ Health!Round(a) <= Health!Round(b)
         /\ a % 10 = 0 => Health!Round(a) = a
BY DEF Health!Round

\* The average of what is counted.
Scores(m) == [c \in Components |-> Weight[c] * Health!Raw(m, c)]
Average(m) == Sum(Scores(m), Health!Counted(m)) \div Sum(Weight, Health!Counted(m))

\* What is counted was measured, has a weight, and has the score of its measurement.
LEMMA Counting ==
  ASSUME NEW m \in Health!Inputs
  PROVE  /\ IsFiniteSet(Health!Counted(m)) /\ Health!Counted(m) \subseteq Components
         /\ \A c \in Health!Counted(m) : Weight[c] \in Nat /\ Weight[c] > 0
         /\ \A c \in Health!Counted(m) : Health!Raw(m, c) \in Nat
         /\ \A c \in Health!Counted(m) :
              m[c] \in Nat /\ Health!Raw(m, c) = Health!LinearScore(m[c], Good[c], Bad[c])
         /\ \A c \in Health!Counted(m) :
              Scores(m)[c] \in Nat /\ Scores(m)[c] = Weight[c] * Health!Raw(m, c)
<1>1. Health!Counted(m) \subseteq Components BY DEF Health!Counted
<1>2. IsFiniteSet(Health!Counted(m)) BY <1>1, HealthAssumption, FS_Subset
<1>3. ASSUME NEW c \in Health!Counted(m)
      PROVE  /\ Weight[c] \in Nat /\ Weight[c] > 0
             /\ Health!Raw(m, c) \in Nat
             /\ m[c] \in Nat /\ Health!Raw(m, c) = Health!LinearScore(m[c], Good[c], Bad[c])
             /\ Scores(m)[c] \in Nat /\ Scores(m)[c] = Weight[c] * Health!Raw(m, c)
  <2>1. c \in Components /\ m[c] # Health!None /\ Weight[c] > 0 BY DEF Health!Counted
  <2>2. Weight[c] \in Nat BY <2>1, HealthAssumption
  <2>3. m[c] \in Measures BY <2>1 DEF Health!Inputs
  <2>4. m[c] \in Nat
    <3>1. Measures \subseteq Nat BY HealthAssumption
    <3>2. QED BY <2>3, <3>1
  <2>5. Health!Raw(m, c) = Health!LinearScore(m[c], Good[c], Bad[c])
    BY <2>1 DEF Health!Raw
  <2>6. Health!Raw(m, c) \in Nat
    <3>1. Health!LinearScore(m[c], Good[c], Bad[c]) \in Nat BY <2>1, <2>4, ScoreIsNumber
    <3>2. QED BY <2>5, <3>1
  <2>7. Scores(m)[c] = Weight[c] * Health!Raw(m, c) BY <2>1 DEF Scores
  <2>8. Scores(m)[c] \in Nat BY <2>2, <2>6, <2>7
  <2>9. QED BY <2>1, <2>2, <2>4, <2>5, <2>6, <2>7, <2>8
<1>4. QED BY <1>1, <1>2, <1>3

\* The total is the weighted average, rounded.
LEMMA TotalIsAverage ==
  ASSUME NEW m \in Health!Inputs
  PROVE  Health!Total(m) = Health!Round(Average(m))
BY HealthSums DEF Health!Total, Health!TotalWeight, Average, Scores

\* The average is not below all the scores, and not above all of them.
LEMMA AverageIsBetween ==
  ASSUME NEW m \in Health!Inputs, Health!Counted(m) # {}
  PROVE  /\ Average(m) \in Nat
         /\ \E c \in Health!Counted(m) : Health!Raw(m, c) <= Average(m)
         /\ \E c \in Health!Counted(m) : Health!Raw(m, c) >= Average(m)
<1> DEFINE K == Health!Counted(m)
           X == Sum(Scores(m), K)
           T == Sum(Weight, K)
           q == X \div T
<1>1. /\ IsFiniteSet(K)
      /\ \A c \in K : Weight[c] \in Nat /\ Weight[c] > 0
      /\ \A c \in K : Health!Raw(m, c) \in Nat
      /\ \A c \in K : Scores(m)[c] \in Nat /\ Scores(m)[c] = Weight[c] * Health!Raw(m, c)
  BY Counting
<1> HIDE DEF K
<1>2. X \in Nat /\ T \in Nat BY <1>1, SumOfNumbers
<1>3. T > 0 BY <1>1, SumPositive DEF K
<1>4. ASSUME NEW k \in Nat
      PROVE  /\ (\A c \in K : Health!Raw(m, c) >= k) => X >= k * T
             /\ (\A c \in K : Health!Raw(m, c) <= k) => X <= k * T
  <2>1. /\ (\A c \in K : Scores(m)[c] >= k * Weight[c]) => X >= k * T
        /\ (\A c \in K : Scores(m)[c] <= k * Weight[c]) => X <= k * T
    BY <1>1, SumOfWeighted
  <2>2. ASSUME NEW c \in K
        PROVE  /\ Health!Raw(m, c) >= k => Weight[c] * Health!Raw(m, c) >= k * Weight[c]
               /\ Health!Raw(m, c) <= k => Weight[c] * Health!Raw(m, c) <= k * Weight[c]
    <3> DEFINE n == Health!Raw(m, c)
    <3>1. n \in Nat /\ Weight[c] \in Nat BY <1>1
    <3> HIDE DEF n
    <3>2. n > k => k * Weight[c] + Weight[c] <= n * Weight[c] BY <3>1, Multiples
    <3>3. n < k => n * Weight[c] + Weight[c] <= k * Weight[c] BY <3>1, Multiples
    <3>4. n * Weight[c] = Weight[c] * n /\ n * Weight[c] \in Nat /\ k * Weight[c] \in Nat
      BY <3>1
    <3>5. n >= k => n * Weight[c] >= k * Weight[c]
      <4>1. CASE n = k BY <3>4, <4>1
      <4>2. CASE n # k BY <3>1, <3>2, <3>4, <4>2
      <4>3. QED BY <4>1, <4>2
    <3>6. n <= k => n * Weight[c] <= k * Weight[c]
      <4>1. CASE n = k BY <3>4, <4>1
      <4>2. CASE n # k BY <3>1, <3>3, <3>4, <4>2
      <4>3. QED BY <4>1, <4>2
    <3>7. QED BY <3>4, <3>5, <3>6 DEF n
  <2>3. QED BY <1>1, <2>1, <2>2
<1> HIDE DEF X, T
<1>5. q \in Int /\ q * T <= X /\ X < q * T + T BY <1>2, <1>3, Quotient
<1>6. 0 * T <= X BY <1>2
<1>7. 0 <= q BY <1>2, <1>3, <1>6, Quotients
<1>8. q \in Nat BY <1>5, <1>7
<1>9. Average(m) = q BY DEF Average, X, T, K
<1> HIDE DEF q
<1>10. \E c \in K : Health!Raw(m, c) <= q
  <2> SUFFICES ASSUME \A c \in K : ~(Health!Raw(m, c) <= q) PROVE FALSE OBVIOUS
  <2>1. \A c \in K : Health!Raw(m, c) >= q + 1 BY <1>1, <1>8
  <2>2. X >= (q + 1) * T BY <1>4, <1>8, <2>1
  <2>3. (q + 1) * T = q * T + T /\ q * T \in Nat BY <1>2, <1>8
  <2>4. QED BY <1>2, <1>5, <2>2, <2>3
<1>11. \E c \in K : Health!Raw(m, c) >= q
  <2> SUFFICES ASSUME \A c \in K : ~(Health!Raw(m, c) >= q) PROVE FALSE OBVIOUS
  <2>1. CASE q = 0 BY <1>1, <2>1 DEF K
  <2>2. CASE q > 0
    <3>1. q - 1 \in Nat /\ \A c \in K : Health!Raw(m, c) <= q - 1 BY <1>1, <1>8, <2>2
    <3>2. X <= (q - 1) * T BY <1>4, <3>1
    <3>3. (q - 1) * T + T = q * T /\ (q - 1) * T \in Nat BY <1>2, <1>8, <3>1
    <3>4. QED BY <1>2, <1>3, <1>5, <3>2, <3>3
  <2>3. QED BY <1>8, <2>1, <2>2
<1>12. QED BY <1>8, <1>9, <1>10, <1>11 DEF K

\* The score that stands is that of the last measurements that counted.
HealthInv ==
  /\ inputs \in Health!Inputs /\ score.total \in Int
  /\ Health!Counted(inputs) # {} => score.total = Health!Total(inputs)

\* What a cycle may do to the score.
ScoreIsFairNow ==
  /\ healthEvent' = "HEALTH_SCORE_DEGRADED" =>
       \E c \in Health!Counted(inputs') : Health!Raw(inputs', c) < WarnBelow
  /\ score' # score =>
       /\ \E c \in Health!Counted(inputs') :
            Health!Round(Health!Raw(inputs', c)) <= score'.total
       /\ \E c \in Health!Counted(inputs') :
            Health!Round(Health!Raw(inputs', c)) >= score'.total
  /\ Health!Counted(inputs) = Health!Counted(inputs') /\ Health!Counted(inputs) # {}
     /\ (\A c \in Health!Counted(inputs) : Health!Better(c, inputs'[c], inputs[c]))
       => score'.total >= score.total

\* Nothing has been measured.
LEMMA HealthStarts == SuiteInit => HealthInv
<1> SUFFICES ASSUME SuiteInit PROVE HealthInv OBVIOUS
<1>1. Health!Init BY DEF SuiteInit
<1>2. inputs = [c \in Components |-> Health!None] /\ score = Health!NoScore
  BY <1>1 DEF Health!Init
<1>3. inputs \in Health!Inputs BY <1>2 DEF Health!Inputs
<1>4. Health!Counted(inputs) = {} BY <1>2 DEF Health!Counted
<1>5. score.total \in Int BY <1>2 DEF Health!NoScore, Health!None
<1>6. QED BY <1>3, <1>4, <1>5 DEF HealthInv

\* When the same is measured and none of it is worse, the total is not lower.
LEMMA TotalMonotone ==
  ASSUME NEW m \in Health!Inputs, NEW n \in Health!Inputs,
         Health!Counted(m) = Health!Counted(n), Health!Counted(m) # {},
         \A c \in Health!Counted(m) : Health!Better(c, n[c], m[c])
  PROVE  Health!Total(n) >= Health!Total(m)
<1> DEFINE K == Health!Counted(m)
           X == Sum(Scores(m), K)
           Y == Sum(Scores(n), K)
           T == Sum(Weight, K)
<1>1. /\ IsFiniteSet(K) /\ K \subseteq Components
      /\ \A c \in K : Weight[c] \in Nat /\ Weight[c] > 0
  BY Counting
<1>2. ASSUME NEW c \in K
      PROVE  Scores(m)[c] \in Nat /\ Scores(n)[c] \in Nat /\ Scores(m)[c] <= Scores(n)[c]
  <2> DEFINE a == Health!Raw(m, c)
             b == Health!Raw(n, c)
  <2>1. /\ a \in Nat /\ m[c] \in Nat /\ a = Health!LinearScore(m[c], Good[c], Bad[c])
        /\ Scores(m)[c] \in Nat /\ Scores(m)[c] = Weight[c] * a
    BY Counting
  <2>2. /\ b \in Nat /\ n[c] \in Nat /\ b = Health!LinearScore(n[c], Good[c], Bad[c])
        /\ Scores(n)[c] \in Nat /\ Scores(n)[c] = Weight[c] * b
    BY Counting
  <2>3. a <= b BY <1>1, <2>1, <2>2, ScoreMonotone
  <2> HIDE DEF a, b
  <2>4. Weight[c] \in Nat BY <1>1
  <2>5. a < b => a * Weight[c] + Weight[c] <= b * Weight[c] BY <2>1, <2>2, <2>4, Multiples
  <2>6. /\ a * Weight[c] = Weight[c] * a /\ b * Weight[c] = Weight[c] * b
        /\ a * Weight[c] \in Nat /\ b * Weight[c] \in Nat
    BY <2>1, <2>2, <2>4
  <2>7. CASE a = b BY <2>1, <2>2, <2>6, <2>7
  <2>8. CASE a # b BY <2>1, <2>2, <2>3, <2>4, <2>5, <2>6, <2>8
  <2>9. QED BY <2>7, <2>8
<1> HIDE DEF K
<1>3. X \in Nat /\ Y \in Nat /\ T \in Nat /\ X <= Y
  BY <1>1, <1>2, SumOfNumbers, SumMonotone
<1>4. T > 0 BY <1>1, SumPositive DEF K
<1>5. Average(m) = X \div T /\ Average(n) = Y \div T BY DEF Average, K
<1>6. Average(m) \in Nat /\ Average(n) \in Nat BY AverageIsBetween
<1> HIDE DEF X, Y, T
<1>7. Average(m) <= Average(n) BY <1>3, <1>4, <1>5, QuotientMonotone
<1>8. Health!Round(Average(m)) <= Health!Round(Average(n)) BY <1>6, <1>7, Rounded
<1>9. Health!Round(Average(m)) \in Nat /\ Health!Round(Average(n)) \in Nat
  BY <1>6, Rounded
<1>10. QED BY <1>8, <1>9, TotalIsAverage

\* A total is between the scores of what was measured, and is below the warning only when
\* one of them is.
LEMMA TotalIsBetween ==
  ASSUME NEW m \in Health!Inputs, Health!Counted(m) # {}
  PROVE  /\ Health!Total(m) \in Nat
         /\ \E c \in Health!Counted(m) : Health!Round(Health!Raw(m, c)) <= Health!Total(m)
         /\ \E c \in Health!Counted(m) : Health!Round(Health!Raw(m, c)) >= Health!Total(m)
         /\ WarnBelow % 10 = 0 /\ Health!Total(m) < WarnBelow =>
              \E c \in Health!Counted(m) : Health!Raw(m, c) < WarnBelow
<1>1. Average(m) \in Nat /\ Health!Total(m) = Health!Round(Average(m))
  BY AverageIsBetween, TotalIsAverage
<1>2. PICK c \in Health!Counted(m) : Health!Raw(m, c) <= Average(m) BY AverageIsBetween
<1>3. PICK d \in Health!Counted(m) : Health!Raw(m, d) >= Average(m) BY AverageIsBetween
<1>4. Health!Raw(m, c) \in Nat /\ Health!Raw(m, d) \in Nat BY Counting
<1>5. /\ Health!Round(Health!Raw(m, c)) <= Health!Round(Average(m))
      /\ Health!Round(Average(m)) <= Health!Round(Health!Raw(m, d))
      /\ Health!Round(Average(m)) \in Nat /\ Health!Round(Health!Raw(m, d)) \in Nat
  BY <1>1, <1>2, <1>3, <1>4, Rounded
<1>6. ASSUME WarnBelow % 10 = 0, Health!Total(m) < WarnBelow
      PROVE  Health!Raw(m, c) < WarnBelow
  <2>1. WarnBelow \in Nat BY HealthAssumption
  <2>2. WarnBelow <= Average(m) => WarnBelow <= Health!Round(Average(m))
    BY <1>1, <1>6, <2>1, Rounded
  <2>3. Average(m) < WarnBelow BY <1>1, <1>5, <1>6, <2>1, <2>2
  <2>4. QED BY <1>1, <1>2, <1>4, <2>1, <2>3
<1>7. QED BY <1>1, <1>5, <1>6

\* A run with measurements replaces the score by one that is fair; one without leaves it.
LEMMA HealthRun ==
  ASSUME WarnBelow % 10 = 0, HealthInv, NEW m \in Health!Inputs, Health!Run(m)
  PROVE  HealthInv' /\ ScoreIsFairNow
<1>1. inputs' = m BY DEF Health!Run
<1>2. CASE Health!Counted(m) = {}
  <2>1. score' = score /\ healthEvent' = Health!NoEvent BY <1>2 DEF Health!Run
  <2>2. HealthInv' BY <1>1, <1>2, <2>1 DEF HealthInv
  <2>3. ScoreIsFairNow BY <1>1, <1>2, <2>1 DEF ScoreIsFairNow, Health!NoEvent
  <2>4. QED BY <2>2, <2>3
<1>3. CASE Health!Counted(m) # {}
  <2>1. /\ score' = [total |-> Health!Total(m), worst |-> Health!Worst(m)]
        /\ healthEvent' = "HEALTH_SCORE_DEGRADED" => Health!Total(m) < WarnBelow
    BY <1>3 DEF Health!Run, Health!NoEvent
  <2>2. score'.total = Health!Total(m) BY <2>1
  <2>3. /\ Health!Total(m) \in Nat
        /\ \E c \in Health!Counted(m) : Health!Round(Health!Raw(m, c)) <= Health!Total(m)
        /\ \E c \in Health!Counted(m) : Health!Round(Health!Raw(m, c)) >= Health!Total(m)
        /\ Health!Total(m) < WarnBelow =>
             \E c \in Health!Counted(m) : Health!Raw(m, c) < WarnBelow
    BY <1>3, TotalIsBetween
  <2>4. HealthInv' BY <1>1, <2>2, <2>3 DEF HealthInv
  <2>5. ASSUME Health!Counted(inputs) = Health!Counted(m), Health!Counted(inputs) # {},
               \A c \in Health!Counted(inputs) : Health!Better(c, m[c], inputs[c])
        PROVE  score'.total >= score.total
    <3>1. inputs \in Health!Inputs /\ score.total = Health!Total(inputs)
      BY <2>5 DEF HealthInv
    <3>2. Health!Total(m) >= Health!Total(inputs) BY <2>5, <3>1, TotalMonotone
    <3>3. QED BY <2>2, <3>1, <3>2
  <2>6. ScoreIsFairNow BY <1>1, <2>1, <2>2, <2>3, <2>5 DEF ScoreIsFairNow
  <2>7. QED BY <2>4, <2>6
<1>4. QED BY <1>2, <1>3

\* Every step keeps the score that of the last measurements that counted.
LEMMA HealthStep ==
  WarnBelow % 10 = 0 /\ HealthInv /\ [SuiteNext]_allVars
    => HealthInv' /\ (ScoreIsFairNow \/ UNCHANGED healthVars)
<1> SUFFICES ASSUME WarnBelow % 10 = 0, HealthInv, [SuiteNext]_allVars
             PROVE  HealthInv' /\ (ScoreIsFairNow \/ UNCHANGED healthVars)
  OBVIOUS
<1>1. CASE UNCHANGED healthVars
  <2>1. inputs' = inputs /\ score' = score BY <1>1 DEF healthVars
  <2>2. QED BY <1>1, <2>1 DEF HealthInv
<1>2. CASE Health!FailToStore
  <2>1. inputs' = inputs /\ score' = score /\ healthEvent' = Health!NoEvent
    BY <1>2 DEF Health!FailToStore
  <2>2. HealthInv' BY <2>1 DEF HealthInv
  <2>3. score'.total >= score.total BY <2>1 DEF HealthInv
  <2>4. QED BY <2>1, <2>2, <2>3 DEF ScoreIsFairNow, Health!NoEvent
<1>3. CASE \E m \in Health!Inputs : Health!Run(m) BY <1>3, HealthRun
<1>4. QED BY <1>1, <1>2, <1>3 DEF SuiteNext, allVars, Health!Next

\* With a threshold in whole tenths of a point, which is what a score is rounded to, and
\* whatever the components, their weights and their scales: the score lies between those of
\* what was measured, is not degraded while all of them are above the threshold, and does
\* not fall when nothing gets worse.  (health.Compute)
THEOREM SpecScoreIsFair == WarnBelow % 10 = 0 => (SuiteSpec => ScoreIsFair)
<1> SUFFICES ASSUME WarnBelow % 10 = 0 PROVE SuiteSpec => ScoreIsFair OBVIOUS
<1>1. SuiteInit => HealthInv BY HealthStarts
<1>2. HealthInv /\ [SuiteNext]_allVars => HealthInv' BY HealthStep
<1>3. HealthInv /\ [SuiteNext]_allVars =>
        [/\ healthEvent' = "HEALTH_SCORE_DEGRADED" =>
              \E c \in Health!Counted(inputs') : Health!Raw(inputs', c) < WarnBelow
         /\ score' # score =>
              /\ \E c \in Health!Counted(inputs') :
                   Health!Round(Health!Raw(inputs', c)) <= score'.total
              /\ \E c \in Health!Counted(inputs') :
                   Health!Round(Health!Raw(inputs', c)) >= score'.total
         /\ Health!Counted(inputs) = Health!Counted(inputs') /\ Health!Counted(inputs) # {}
            /\ (\A c \in Health!Counted(inputs) : Health!Better(c, inputs'[c], inputs[c]))
              => score'.total >= score.total]_(Health!vars)
  BY HealthStep DEF ScoreIsFairNow, healthVars, Health!vars
<1>4. QED BY <1>1, <1>2, <1>3, PTL DEF SuiteSpec, ScoreIsFair, Health!ScoreIsFair

-----------------------------------------------------------------------------
(***************************************************************************)
(* The reference of a deviation: of the numbers that a baseline holds,     *)
(* at least one is no more than the median.                                *)
(***************************************************************************)
\* The numbers of a sequence are bounded.
LEMMA Bounded ==
  ASSUME NEW s \in Seq(Nat)
  PROVE  \E x \in Nat : \A i \in 1..Len(s) : s[i] <= x
<1> DEFINE good == {n \in Nat : n <= Len(s) => \E x \in Nat : \A i \in 1..n : s[i] <= x}
<1>1. Len(s) \in Nat /\ \A i \in 1..Len(s) : s[i] \in Nat BY LenProperties, ElementOfSeq
<1>2. 0 \in good
  <2>1. \A i \in 1..0 : s[i] <= 0 OBVIOUS
  <2>2. QED BY <2>1
<1>3. ASSUME NEW n \in good PROVE n + 1 \in good
  <2>1. SUFFICES ASSUME n + 1 <= Len(s)
                 PROVE  \E x \in Nat : \A i \in 1..(n + 1) : s[i] <= x
    OBVIOUS
  <2>2. n \in Nat /\ n <= Len(s) BY <1>1, <2>1
  <2>3. PICK x \in Nat : \A i \in 1..n : s[i] <= x BY <2>2
  <2>4. n + 1 \in 1..Len(s) /\ s[n + 1] \in Nat BY <1>1, <2>1, <2>2
  <2>5. \A i \in 1..n : s[i] \in Nat BY <1>1, <2>2
  <2>6. CASE s[n + 1] <= x
    <3>1. \A i \in 1..(n + 1) : s[i] <= x BY <2>2, <2>3, <2>6
    <3>2. QED BY <3>1
  <2>7. CASE ~(s[n + 1] <= x)
    <3>1. \A i \in 1..(n + 1) : s[i] <= s[n + 1] BY <2>2, <2>3, <2>4, <2>5, <2>7
    <3>2. QED BY <2>4, <3>1
  <2>8. QED BY <2>6, <2>7
<1> HIDE DEF good
<1>4. good = Nat
  <2>1. good \in SUBSET Nat BY DEF good
  <2>2. QED BY <1>2, <1>3, <2>1, NumberInduction
<1>5. Len(s) \in good BY <1>1, <1>4
<1>6. QED BY <1>1, <1>5 DEF good

\* There is a k-th number in order, and it is one of the numbers.
LEMMA SmallestIsThere ==
  ASSUME NEW s \in Seq(Nat), NEW k \in 1..Len(s)
  PROVE  \E i \in 1..Len(s) : Anomaly!Smallest(s, k) = s[i]
<1> DEFINE upTo(x) == {i \in 1..Len(s) : s[i] <= x}
           below(x) == {i \in 1..Len(s) : s[i] < x}
           good == {x \in Nat : Cardinality(upTo(x)) >= k}
<1>1. /\ Len(s) \in Nat /\ DOMAIN s = 1..Len(s) /\ k \in Nat
      /\ \A i \in 1..Len(s) : s[i] \in Nat
  BY LenProperties, ElementOfSeq
<1>2. \A x : Cardinality(upTo(x)) \in Nat /\ Cardinality(below(x)) \in Nat
  <2>1. IsFiniteSet(1..Len(s)) BY <1>1, FS_Interval
  <2>2. \A x : upTo(x) \subseteq 1..Len(s) /\ below(x) \subseteq 1..Len(s) OBVIOUS
  <2> HIDE DEF upTo, below
  <2>3. QED BY <2>1, <2>2, FS_Subset, FS_CardinalityType
<1>3. PICK most \in Nat : \A i \in 1..Len(s) : s[i] <= most BY Bounded
<1>4. most \in good
  <2>1. upTo(most) = 1..Len(s) BY <1>3
  <2>2. \A n \in Nat : Cardinality(1..n) = n
    <3>1. \A n \in Nat : Cardinality(1..n) = IF 1 > n THEN 0 ELSE n - 1 + 1 BY FS_Interval
    <3>2. QED BY <3>1
  <2>3. k <= Len(s) BY <1>1
  <2> HIDE DEF upTo
  <2>4. Cardinality(upTo(most)) >= k BY <1>1, <2>1, <2>2, <2>3
  <2>5. QED BY <2>4
<1>5. PICK x \in good : \A y \in good : x <= y BY <1>4, Least
<1>6. x \in Nat /\ Cardinality(upTo(x)) >= k BY <1>5
<1>7. Cardinality(below(x)) < k
  <2>1. CASE x = 0
    <3>1. below(x) = {} BY <1>1, <2>1
    <3>2. Cardinality(below(x)) = 0 BY <3>1, FS_EmptySet
    <3>3. 0 < k BY <1>1
    <3> HIDE DEF below
    <3>4. QED BY <3>2, <3>3
  <2>2. CASE x # 0
    <3>1. x - 1 \in Nat /\ ~(x <= x - 1) BY <1>6, <2>2
    <3>2. x - 1 \notin good BY <1>5, <3>1
    <3>3. below(x) = upTo(x - 1) BY <1>1, <1>6
    <3>4. ~(Cardinality(upTo(x - 1)) >= k) BY <3>1, <3>2
    <3> HIDE DEF upTo, below
    <3>5. QED BY <1>1, <1>2, <3>3, <3>4
  <2>3. QED BY <2>1, <2>2
<1>8. x \in Anomaly!ToSet(s)
  <2>1. SUFFICES ASSUME x \notin Anomaly!ToSet(s) PROVE FALSE OBVIOUS
  <2>2. \A i \in 1..Len(s) : s[i] # x BY <1>1, <2>1 DEF Anomaly!ToSet
  <2>3. upTo(x) = below(x) BY <1>1, <1>6, <2>2
  <2> HIDE DEF upTo, below
  <2>4. QED BY <1>1, <1>2, <1>6, <1>7, <2>3
<1>9. \A S : Anomaly!Cardinality(S) = Cardinality(S) BY DEF Anomaly!Cardinality, Cardinality
<1>10. Anomaly!Smallest(s, k) \in Anomaly!ToSet(s)
  <2>1. /\ Anomaly!Cardinality({i \in DOMAIN s : s[i] < x}) < k
        /\ Anomaly!Cardinality({i \in DOMAIN s : s[i] <= x}) >= k
    BY <1>1, <1>6, <1>7, <1>9
  <2>2. QED BY <1>8, <2>1 DEF Anomaly!Smallest
<1>11. QED BY <1>1, <1>10 DEF Anomaly!ToSet

\* The lesser of two numbers is no more than their average.
LEMMA LesserHalf ==
  ASSUME NEW a \in Nat, NEW b \in Nat
  PROVE  a + b \in Nat /\ (2 * a <= a + b \/ 2 * b <= a + b)
OBVIOUS

\* One of the numbers at least is no more than their median.
LEMMA MedianIsNotLeast ==
  ASSUME NEW s \in Seq(Nat), Len(s) # 0
  PROVE  Anomaly!Median2(s) \in Nat /\ \E i \in 1..Len(s) : 2 * s[i] <= Anomaly!Median2(s)
<1> DEFINE n == Len(s)
<1>1. n \in Nat /\ n # 0 /\ \A i \in 1..n : s[i] \in Nat BY LenProperties, ElementOfSeq
<1>2. CASE n % 2 = 1
  <2>1. (n + 1) \div 2 \in 1..n BY <1>1, <1>2
  <2>2. PICK i \in 1..n : Anomaly!Smallest(s, (n + 1) \div 2) = s[i]
    BY <2>1, SmallestIsThere
  <2>3. Anomaly!Median2(s) = 2 * s[i] BY <1>2, <2>2 DEF Anomaly!Median2
  <2>4. s[i] \in Nat BY <1>1
  <2> HIDE DEF n
  <2>5. 2 * s[i] \in Nat /\ 2 * s[i] <= 2 * s[i] BY <2>4
  <2>6. QED BY <2>3, <2>5 DEF n
<1>3. CASE n % 2 # 1
  <2>1. n \div 2 \in 1..n /\ n \div 2 + 1 \in 1..n BY <1>1, <1>3
  <2>2. PICK i \in 1..n : Anomaly!Smallest(s, n \div 2) = s[i] BY <2>1, SmallestIsThere
  <2>3. PICK j \in 1..n : Anomaly!Smallest(s, n \div 2 + 1) = s[j] BY <2>1, SmallestIsThere
  <2>4. Anomaly!Median2(s) = s[i] + s[j] BY <1>3, <2>2, <2>3 DEF Anomaly!Median2
  <2>5. s[i] \in Nat /\ s[j] \in Nat BY <1>1
  <2> HIDE DEF n
  <2>6. s[i] + s[j] \in Nat /\ (2 * s[i] <= s[i] + s[j] \/ 2 * s[j] <= s[i] + s[j])
    BY <2>5, LesserHalf
  <2>7. QED BY <2>4, <2>6 DEF n
<1>4. QED BY <1>2, <1>3

\* Products.
LEMMA ProductMonotone ==
  ASSUME NEW a \in Nat, NEW x \in Nat, NEW y \in Nat, x <= y
  PROVE  a * x \in Nat /\ a * y \in Nat /\ a * x <= a * y
<1>1. PICK d \in Nat : y = x + d
  <2>1. y - x \in Nat /\ y = x + (y - x) OBVIOUS
  <2>2. QED BY <2>1
<1>2. a * y = a * x + a * d BY <1>1
<1>3. a * x \in Nat /\ a * d \in Nat OBVIOUS
<1>4. QED BY <1>2, <1>3

\* A value beyond the threshold from half of m is so from what is no more than that.
LEMMA BeyondMedian ==
  ASSUME NEW limit \in Nat, NEW m \in Nat, NEW x \in Nat, NEW v \in Nat,
         2 * x <= m, (2 * v - m) * 100 >= limit * m
  PROVE  v * 100 >= (100 + limit) * x
<1>1. 2 * x \in Nat OBVIOUS
<1>2. limit * (2 * x) <= limit * m BY <1>1, ProductMonotone
<1> DEFINE p == limit * x
           q == limit * m
<1>3. p \in Nat /\ q \in Nat /\ limit * (2 * x) = 2 * p /\ (100 + limit) * x = 100 * x + p
  OBVIOUS
<1>4. 2 * p <= q BY <1>2, <1>3
<1>5. (2 * v - m) * 100 >= q OBVIOUS
<1> HIDE DEF p, q
<1>6. v * 100 >= 100 * x + p BY <1>3, <1>4, <1>5
<1>7. QED BY <1>3, <1>6

\* A value that the deviation rule calls a breach is beyond the threshold from a sample.
LEMMA BreachDeviates ==
  ASSUME NEW base \in Seq(Nat), Len(base) # 0, NEW v \in Nat,
         Rule = "deviation", Anomaly!Breached(base, v)
  PROVE  /\ v >= MinAbsolute
         /\ \E i \in 1..Len(base) : v * 100 >= (100 + Threshold) * base[i]
<1> DEFINE M == Anomaly!Median2(base)
<1>1. PICK i \in 1..Len(base) : 2 * base[i] <= M BY MedianIsNotLeast
<1>2. M \in Nat /\ base[i] \in Nat /\ Threshold \in Nat
  BY MedianIsNotLeast, ElementOfSeq, AnomalyAssumption
<1>3. Anomaly!DeviationBreach(Anomaly!Reference(base), v) BY DEF Anomaly!Breached
<1>4. v >= MinAbsolute BY <1>3 DEF Anomaly!DeviationBreach
<1>5. CASE M > 0
  <2>1. Anomaly!Reference(base) = [n |-> M, d |-> 2] BY <1>5 DEF Anomaly!Reference
  <2>2. (2 * v - M) * 100 >= Threshold * M BY <1>3, <2>1 DEF Anomaly!DeviationBreach
  <2> HIDE DEF M
  <2>3. v * 100 >= (100 + Threshold) * base[i] BY <1>1, <1>2, <2>2, BeyondMedian
  <2>4. QED BY <1>4, <2>3
<1>6. CASE ~(M > 0)
  <2> HIDE DEF M
  <2>1. base[i] = 0 BY <1>1, <1>2, <1>6
  <2>2. (100 + Threshold) * base[i] = 0 BY <1>2, <2>1
  <2>3. QED BY <1>4, <2>2
<1>7. QED BY <1>5, <1>6

-----------------------------------------------------------------------------
(***************************************************************************)
(* The buckets of a baseline together hold what each of them holds.        *)
(***************************************************************************)
Joined(q, g) == [i \in 1..Len(q) |-> IF i = 1 THEN q[i] ELSE g[i - 1] \o q[i]]

\* There is a function that joins more and more of the sequences.
LEMMA JoinedExists ==
  ASSUME NEW S, NEW q \in Seq(Seq(S))
  PROVE  \E g : g = Joined(q, g)
<1> DEFINE value(g, i) == IF i = 1 THEN q[i] ELSE g[i - 1] \o q[i]
           fits(g, n) == g \in [1..n -> Seq(S)] /\ \A i \in 1..n : g[i] = value(g, i)
           good == {n \in Nat : n <= Len(q) => \E g : fits(g, n)}
<1>1. Len(q) \in Nat /\ \A i \in 1..Len(q) : q[i] \in Seq(S) BY LenProperties, ElementOfSeq
<1>2. 0 \in good
  <2>1. fits([i \in 1..0 |-> <<>>], 0) OBVIOUS
  <2> HIDE DEF fits
  <2>2. QED BY <2>1
<1>3. ASSUME NEW n \in good PROVE n + 1 \in good
  <2>1. SUFFICES ASSUME n + 1 <= Len(q) PROVE \E g : fits(g, n + 1)
    <3> HIDE DEF fits
    <3>1. QED OBVIOUS
  <2>2. n \in Nat /\ n <= Len(q) BY <1>1, <2>1
  <2>3. PICK g : fits(g, n)
    <3> HIDE DEF fits
    <3>1. QED BY <2>2
  <2> DEFINE last == value(g, n + 1)
             h == [i \in 1..(n + 1) |-> IF i = n + 1 THEN last ELSE g[i]]
  <2>4. n + 1 \in 1..Len(q) BY <1>1, <2>1, <2>2
  <2>5. last \in Seq(S)
    <3>1. CASE n = 0 BY <1>1, <2>4, <3>1
    <3>2. CASE n # 0
      <4>1. n \in 1..n /\ (n + 1) - 1 = n /\ n + 1 # 1 BY <2>2, <3>2
      <4>2. g[n] \in Seq(S) /\ q[n + 1] \in Seq(S) BY <1>1, <2>3, <2>4, <4>1
      <4>3. last = g[n] \o q[n + 1] BY <4>1
      <4>4. QED BY <4>2, <4>3, ConcatProperties
    <3>3. QED BY <3>1, <3>2
  <2>6. \A i \in 1..n : i \in 1..(n + 1) /\ i # n + 1 BY <2>2
  <2>7. \A i \in 1..(n + 1) : i \in 1..n \/ i = n + 1 BY <2>2
  <2>8. h \in [1..(n + 1) -> Seq(S)]
    <3> HIDE DEF last
    <3>1. QED BY <2>3, <2>5, <2>7
  <2>9. \A i \in 1..n : h[i] = g[i] BY <2>6
  <2>10. ASSUME NEW i \in 1..(n + 1) PROVE h[i] = value(h, i)
    <3>1. CASE i \in 1..n
      <4>1. i # 1 => i - 1 \in 1..n BY <2>2, <3>1
      <4>2. h[i] = value(g, i) BY <2>3, <2>9, <3>1
      <4> HIDE DEF h
      <4>3. QED BY <2>9, <4>1, <4>2
    <3>2. CASE i = n + 1
      <4>1. i # 1 => i - 1 \in 1..n BY <2>2, <3>2
      <4>2. h[i] = value(g, i) BY <3>2
      <4> HIDE DEF h
      <4>3. QED BY <2>9, <4>1, <4>2
    <3>3. QED BY <2>7, <3>1, <3>2
  <2> HIDE DEF h, value
  <2>11. QED BY <2>8, <2>10
<1> HIDE DEF good
<1>4. good = Nat
  <2>1. good \in SUBSET Nat BY DEF good
  <2>2. QED BY <1>2, <1>3, <2>1, NumberInduction
<1>5. \E g : fits(g, Len(q))
  <2>1. Len(q) \in good /\ Len(q) <= Len(q) BY <1>1, <1>4
  <2> HIDE DEF fits
  <2>2. QED BY <2>1 DEF good
<1>6. PICK g : fits(g, Len(q)) BY <1>5
<1>7. g = Joined(q, g) BY <1>6 DEF Joined
<1>8. QED BY <1>7

\* The sequences joined are a sequence over the same elements.
LEMMA Flattened ==
  ASSUME NEW S, NEW q \in Seq(Seq(S))
  PROVE  Anomaly!FlattenSeq(q) \in Seq(S)
<1>1. CASE Len(q) = 0
  <2>1. q = <<>> BY <1>1, EmptySeq
  <2>2. Anomaly!FlattenSeq(q) = q BY <1>1 DEF Anomaly!FlattenSeq
  <2>3. QED BY <2>1, <2>2, EmptySeq
<1>2. CASE Len(q) # 0
  <2> DEFINE g == CHOOSE g : g = Joined(q, g)
  <2>1. g = Joined(q, g) BY JoinedExists
  <2>2. Anomaly!FlattenSeq(q) = g[Len(q)] BY <1>2 DEF Anomaly!FlattenSeq, Joined
  <2> HIDE DEF g
  <2> DEFINE good == {n \in Nat : \A i \in 1..Len(q) : i <= n => g[i] \in Seq(S)}
  <2>3. Len(q) \in Nat /\ \A i \in 1..Len(q) : q[i] \in Seq(S)
    BY LenProperties, ElementOfSeq
  <2>4. \A i \in 1..Len(q) : g[i] = IF i = 1 THEN q[i] ELSE g[i - 1] \o q[i]
    BY <2>1 DEF Joined
  <2>5. 0 \in good BY <2>3
  <2>6. ASSUME NEW n \in good PROVE n + 1 \in good
    <3>1. SUFFICES ASSUME NEW i \in 1..Len(q), i <= n + 1 PROVE g[i] \in Seq(S) OBVIOUS
    <3>2. n \in Nat /\ i \in Nat BY <2>3
    <3>3. CASE i = 1 BY <2>3, <2>4, <3>3
    <3>4. CASE i # 1
      <4>1. i - 1 \in 1..Len(q) /\ i - 1 <= n BY <2>3, <3>1, <3>2, <3>4
      <4>2. g[i - 1] \in Seq(S) /\ q[i] \in Seq(S) BY <2>3, <4>1
      <4>3. g[i] = g[i - 1] \o q[i] BY <2>4, <3>4
      <4>4. QED BY <4>2, <4>3, ConcatProperties
    <3>5. QED BY <3>3, <3>4
  <2> HIDE DEF good
  <2>7. good = Nat
    <3>1. good \in SUBSET Nat BY DEF good
    <3>2. QED BY <2>5, <2>6, <3>1, NumberInduction
  <2>8. Len(q) \in good /\ Len(q) \in 1..Len(q) /\ Len(q) <= Len(q) BY <1>2, <2>3, <2>7
  <2>9. QED BY <2>2, <2>8 DEF good
<1>3. QED BY <1>1, <1>2

-----------------------------------------------------------------------------
\* The anomaly rules' gate is this gate.
LEMMA AnomalyKeys ==
  ASSUME NEW st, NEW at, NEW c
  PROVE  /\ Anomaly!GateStates = GateStates /\ Anomaly!NewState = NewState
         /\ Anomaly!AfterBreach(st, at, c) = AfterBreach(st, at, c)
         /\ Anomaly!AfterClear(st) = AfterClear(st)
         /\ Anomaly!Fires(st, at, c) <=> Fires(st, at, c)
BY DEF Anomaly!GateStates, GateStates, Anomaly!BreachCap, BreachCap, Anomaly!NewState,
  NewState, Anomaly!ZeroTime, ZeroTime, Anomaly!AfterBreach, AfterBreach, Anomaly!UpTo,
  UpTo,
  Anomaly!Fires, Fires, Anomaly!CoolingDown, CoolingDown, Anomaly!AfterClear, AfterClear,
  Anomaly!Recovers, Recovers

(***************************************************************************)
(* What holds of the detection pipeline of one metric at every step.       *)
(***************************************************************************)
Heard == {anomalySeen[t] : t \in Anomaly!Sampled}

AnomalyType ==
  /\ anomalyNow \in Nat /\ anomalyNow # 0
  /\ anomalySeen \in Seq(Values \cup {-1}) /\ Len(anomalySeen) = anomalyNow - 1
  /\ compared \in Seq(Nat) /\ Len(compared) = anomalyNow - 1
  /\ anomalyGate \in GateStates
  /\ sustained \in [since : Nat, reported : Nat]

\* Baselines are made of samples.
WindowsAreSeen == windows \in [0..Buckets-1 -> Seq(Heard)]

\* In the samples q, that of instant t is beyond the threshold from one seen so far.
Beyond(q, t) ==
  q[t] >= MinAbsolute /\ \E u \in 1..t : q[u] # -1 /\ q[t] * 100 >= (100 + Threshold) * q[u]

\* Of the instants J of the samples q, the last b are of samples beyond the threshold.
Streak(q, J, b) ==
  /\ b <= Cardinality(J)
  /\ \A t \in J : Cardinality({u \in J : u > t}) < b => Beyond(q, t)

\* As many breaches as the gate counts are real.
BreachesAreReal ==
  Rule = "deviation" =>
    /\ Streak(anomalySeen, Anomaly!Judged, anomalyGate.breaches)
    /\ anomalyTold.rule = "deviates" => anomalyGate.breaches >= Persistence

\* No sample of q from that instant on is below the floor.
AboveIn(q, from) == \A t \in from..Len(q) : q[t] # -1 => q[t] >= Floor

\* The condition has lasted since the first sample of those that are all above the floor.
SinceIsFirst ==
  /\ sustained.since # 0 =>
       sustained.since \in Anomaly!Sampled /\ AboveIn(anomalySeen, sustained.since)
  /\ \A from \in Anomaly!Sampled :
       AboveIn(anomalySeen, from) => sustained.since # 0 /\ sustained.since <= from
  /\ sustained.reported < anomalyNow

\* What was reported lasted long enough; what has is not passed over.
ReportIsTimely ==
  LET n == Len(anomalySeen)
  IN  /\ anomalyTold.sustained => sustained.since # 0 /\ n - sustained.since >= MinDuration
      /\ n \in Anomaly!Sampled /\ sustained.since # 0 /\ n - sustained.since >= MinDuration =>
           /\ sustained.reported # 0
           /\ Repeat > 0 => n - sustained.reported < Repeat

AnomalyInv ==
  AnomalyType /\ WindowsAreSeen /\ BreachesAreReal /\ SinceIsFirst /\ ReportIsTimely

-----------------------------------------------------------------------------
\* A breach more, by the sample of instant n.
LEMMA BreachesGrow ==
  ASSUME NEW n \in Nat, NEW q, NEW r, \A t \in 1..(n - 1) : r[t] = q[t],
         NEW J \in SUBSET (1..(n - 1)), NEW b \in Nat, Streak(q, J, b),
         NEW c \in Nat, c <= b + 1, Beyond(r, n)
  PROVE  Streak(r, J \cup {n}, c)
<1>1. IsFiniteSet(J) /\ n \notin J
  <2>1. IsFiniteSet(1..(n - 1)) BY FS_Interval
  <2>2. IsFiniteSet(J) BY <2>1, FS_Subset
  <2>3. n \notin 1..(n - 1) OBVIOUS
  <2>4. QED BY <2>2, <2>3
<1>2. Cardinality(J \cup {n}) = Cardinality(J) + 1 /\ Cardinality(J) \in Nat
  BY <1>1, FS_AddElement, FS_CardinalityType
<1>3. c <= Cardinality(J \cup {n}) BY <1>2 DEF Streak
<1>4. ASSUME NEW t \in J \cup {n}, Cardinality({u \in J \cup {n} : u > t}) < c
      PROVE  Beyond(r, t)
  <2>1. CASE t = n BY <2>1
  <2>2. CASE t \in J
    <3> DEFINE later == {u \in J : u > t}
    <3>1. t \in 1..(n - 1) /\ t < n /\ t \in Nat BY <2>2
    <3>2. {u \in J \cup {n} : u > t} = later \cup {n} BY <3>1
    <3>3. IsFiniteSet(later) /\ n \notin later BY <1>1, FS_Subset
    <3>4. Cardinality(later \cup {n}) = Cardinality(later) + 1 /\ Cardinality(later) \in Nat
      <4> HIDE DEF later
      <4>1. QED BY <3>3, FS_AddElement, FS_CardinalityType
    <3>5. Cardinality(later) < b
      <4> HIDE DEF later
      <4>1. QED BY <1>4, <3>2, <3>4
    <3>6. Beyond(q, t) BY <2>2, <3>5 DEF Streak
    <3>7. \A u \in 1..t : r[u] = q[u] BY <3>1
    <3>8. r[t] = q[t] BY <3>1
    <3>9. QED BY <3>6, <3>7, <3>8 DEF Beyond
  <2>3. QED BY <2>1, <2>2
<1>5. QED BY <1>3, <1>4 DEF Streak

\* No breach counted, nothing claimed.
LEMMA BreachesEnd ==
  ASSUME NEW q, NEW J, IsFiniteSet(J)
  PROVE  Streak(q, J, 0)
<1>1. Cardinality(J) \in Nat BY FS_CardinalityType
<1>2. ASSUME NEW t \in J PROVE ~(Cardinality({u \in J : u > t}) < 0)
  <2> DEFINE later == {u \in J : u > t}
  <2>1. later \in SUBSET J OBVIOUS
  <2> HIDE DEF later
  <2>2. IsFiniteSet(later) BY <2>1, FS_Subset
  <2>3. Cardinality(later) \in Nat BY <2>2, FS_CardinalityType
  <2>4. ~(Cardinality(later) < 0) BY <2>3
  <2>5. QED BY <2>4 DEF later
<1>3. 0 <= Cardinality(J) BY <1>1
<1>4. QED BY <1>2, <1>3 DEF Streak

\* Samples that come later leave the breaches what they are.
LEMMA BreachesStay ==
  ASSUME NEW n \in Nat, NEW q, NEW r, \A t \in 1..(n - 1) : r[t] = q[t],
         NEW J \in SUBSET (1..(n - 1)), NEW b, Streak(q, J, b)
  PROVE  Streak(r, J, b)
<1>1. ASSUME NEW t \in J, Beyond(q, t) PROVE Beyond(r, t)
  <2>1. t \in 1..(n - 1) /\ r[t] = q[t] OBVIOUS
  <2>2. \A u \in 1..t : r[u] = q[u] BY <2>1
  <2>3. QED BY <1>1, <2>1, <2>2 DEF Beyond
<1>2. QED BY <1>1 DEF Streak

\* One cycle of the collector.
LEMMA Cycle ==
  ASSUME AnomalyType, NEW s \in Values \cup {-1}, NEW k \in Nat, Anomaly!Tick(s, k)
  PROVE  /\ anomalyNow' = anomalyNow + 1
         /\ anomalySeen' \in Seq(Values \cup {-1}) /\ Len(anomalySeen') = anomalyNow
         /\ compared' \in Seq(Nat) /\ Len(compared') = anomalyNow
         /\ \A t \in 1..(anomalyNow - 1) : anomalySeen'[t] = anomalySeen[t]
         /\ anomalySeen'[anomalyNow] = s
         /\ Anomaly!Sampled \in SUBSET (1..(anomalyNow - 1))
         /\ Anomaly!Sampled' = Anomaly!Sampled \cup (IF s # -1 THEN {anomalyNow} ELSE {})
         /\ Anomaly!Judged \in SUBSET (1..(anomalyNow - 1))
         /\ Anomaly!Judged' = Anomaly!Judged \cup (IF k > 0 THEN {anomalyNow} ELSE {})
<1> DEFINE n == anomalyNow
           q == anomalySeen
           r == anomalySeen'
           c == compared
           d == compared'
<1>1. /\ n \in Nat /\ n # 0
      /\ q \in Seq(Values \cup {-1}) /\ Len(q) = n - 1
      /\ c \in Seq(Nat) /\ Len(c) = n - 1
  BY DEF AnomalyType
<1>2. anomalyNow' = n + 1 /\ r = Append(q, s) /\ d = Append(c, k) BY DEF Anomaly!Tick
<1>3. /\ DOMAIN q = 1..(n - 1) /\ DOMAIN c = 1..(n - 1)
  BY <1>1, LenProperties
<1>4. /\ r \in Seq(Values \cup {-1}) /\ Len(r) = Len(q) + 1
      /\ \A t \in 1..Len(q) : r[t] = q[t]
      /\ r[Len(q) + 1] = s
  <2> HIDE DEF r, q
  <2>1. QED BY <1>1, <1>2, AppendProperties
<1>5. /\ d \in Seq(Nat) /\ Len(d) = Len(c) + 1
      /\ \A t \in 1..Len(c) : d[t] = c[t]
      /\ d[Len(c) + 1] = k
  <2> HIDE DEF d, c
  <2>1. QED BY <1>1, <1>2, AppendProperties
<1>6. Len(q) + 1 = n /\ Len(c) + 1 = n BY <1>1
<1>7. DOMAIN r = 1..n /\ DOMAIN d = 1..n BY <1>4, <1>5, <1>6, LenProperties
<1>8. 1..n = 1..(n - 1) \cup {n} BY <1>1
<1>9. n \notin 1..(n - 1) BY <1>1
<1> HIDE DEF n, q, r, c, d
<1>10. /\ {t \in DOMAIN q : q[t] # -1} \in SUBSET (1..(n - 1))
       /\ {t \in DOMAIN r : r[t] # -1}
            = {t \in DOMAIN q : q[t] # -1} \cup (IF s # -1 THEN {n} ELSE {})
  BY <1>1, <1>3, <1>4, <1>6, <1>7, <1>8
<1>11. /\ {t \in DOMAIN c : c[t] > 0} \in SUBSET (1..(n - 1))
       /\ {t \in DOMAIN d : d[t] > 0}
            = {t \in DOMAIN c : c[t] > 0} \cup (IF k > 0 THEN {n} ELSE {})
  BY <1>1, <1>3, <1>5, <1>6, <1>7, <1>8
<1>12. /\ Anomaly!Sampled = {t \in DOMAIN q : q[t] # -1}
       /\ Anomaly!Sampled' = {t \in DOMAIN r : r[t] # -1}
  BY DEF Anomaly!Sampled, Anomaly!None, q, r
<1>13. /\ Anomaly!Judged = {t \in DOMAIN c : c[t] > 0}
       /\ Anomaly!Judged' = {t \in DOMAIN d : d[t] > 0}
  BY DEF Anomaly!Judged, c, d
<1>14. QED
  BY <1>1, <1>2, <1>4, <1>5, <1>6, <1>10, <1>11, <1>12, <1>13 DEF n, q, r, c, d

\* What a sample is compared with is made of samples, its own among them at most.
LEMMA PriorIsHeard ==
  ASSUME NEW H, windows \in [0..Buckets-1 -> Seq(H)], NEW v \in H, anomalyNow \in Nat
  PROVE  Anomaly!Prior(v) \in Seq(H) /\ Anomaly!Observe(v) \in [0..Buckets-1 -> Seq(H)]
<1> DEFINE b == Anomaly!BucketFor(anomalyNow)
           w == Anomaly!Observe(v)
           q == [i \in 1..Buckets |-> w[i - 1]]
<1>1. Buckets \in Nat /\ Buckets # 0 BY AnomalyAssumption
<1>2. b \in 0..Buckets-1 BY <1>1 DEF Anomaly!BucketFor
<1> HIDE DEF b
<1>3. windows[b] \in Seq(H) BY <1>2
<1>4. Append(windows[b], v) \in Seq(H) BY <1>3, AppendProperties
<1>5. w \in [0..Buckets-1 -> Seq(H)] BY <1>2, <1>4 DEF Anomaly!Observe, b
<1> HIDE DEF w
<1>6. \A i \in 1..Buckets : i - 1 \in 0..Buckets-1 BY <1>1
<1>7. q \in [1..Buckets -> Seq(H)] BY <1>5, <1>6
<1>8. q \in Seq(Seq(H)) BY <1>1, <1>7, SeqDef
<1>9. Anomaly!FlattenSeq(q) \in Seq(H)
  <2> HIDE DEF q
  <2>1. QED BY <1>8, Flattened
<1>10. w[b] \in Seq(H) BY <1>2, <1>5
<1>11. Anomaly!Best(w) \in Seq(H) BY <1>9, <1>10 DEF Anomaly!Best, b
<1>12. Anomaly!Prior(v) \in Seq(H) BY <1>3, <1>11 DEF Anomaly!Prior, b, w
<1>13. QED BY <1>5, <1>12 DEF w

\* A sample that the rule calls a breach is beyond the threshold from one seen so far.
LEMMA BreachIsBeyond ==
  ASSUME NEW n \in Nat, n # 0, NEW q \in Seq(Values \cup {-1}), Len(q) = n,
         NEW base \in Seq({q[t] : t \in {u \in 1..n : q[u] # -1}}),
         q[n] # -1, Rule = "deviation",
         Anomaly!Comparable(base), Anomaly!Breached(base, q[n])
  PROVE  Beyond(q, n)
<1> DEFINE H == {q[t] : t \in {u \in 1..n : q[u] # -1}}
           v == q[n]
<1>1. Values \subseteq Nat BY AnomalyAssumption
<1>2. \A t \in 1..n : q[t] \in Values \cup {-1} BY ElementOfSeq
<1>3. H \subseteq Nat BY <1>1, <1>2
<1>4. n \in 1..n OBVIOUS
<1>5. v \in Nat BY <1>1, <1>2, <1>4
<1>6. base \in Seq(Nat) BY <1>3, SeqMonotonic
<1>7. Len(base) # 0
  <2>1. Len(base) >= MinObservations BY DEF Anomaly!Comparable, Anomaly!Usable
  <2>2. MinObservations \in Nat \ {0} BY AnomalyAssumption
  <2>3. Len(base) \in Nat BY <1>6, LenProperties
  <2>4. QED BY <2>1, <2>2, <2>3
<1> HIDE DEF v
<1>8. /\ v >= MinAbsolute
      /\ \E i \in 1..Len(base) : v * 100 >= (100 + Threshold) * base[i]
  BY <1>5, <1>6, <1>7, BreachDeviates DEF v
<1>9. PICK i \in 1..Len(base) : v * 100 >= (100 + Threshold) * base[i] BY <1>8
<1>10. base[i] \in H
  <2> HIDE DEF H
  <2>1. base \in Seq(H) BY DEF H
  <2>2. QED BY <2>1, ElementOfSeq
<1>11. PICK t \in 1..n : q[t] # -1 /\ base[i] = q[t] BY <1>10
<1>12. QED BY <1>8, <1>9, <1>11 DEF Beyond, v

\* What a sample does to the baselines and to the gate.
LEMMA SampleJudges ==
  ASSUME AnomalyInv, NEW v \in Values, Anomaly!Sample(v)
  PROVE  AnomalyType' /\ WindowsAreSeen' /\ BreachesAreReal'
<1> DEFINE n == anomalyNow
           H == Heard \cup {v}
           base == Anomaly!Prior(v)
           k == IF Anomaly!Comparable(base) THEN Len(base) ELSE 0
           st == anomalyGate
<1>1. AnomalyType /\ n \in Nat /\ n # 0 /\ st \in GateStates
  BY DEF AnomalyInv, AnomalyType
<1>2. windows \in [0..Buckets-1 -> Seq(H)]
  <2>1. windows \in [0..Buckets-1 -> Seq(Heard)] BY DEF AnomalyInv, WindowsAreSeen
  <2>2. Heard \subseteq H OBVIOUS
  <2> HIDE DEF H
  <2>3. \A b \in 0..Buckets-1 : windows[b] \in Seq(H) BY <2>1, <2>2, SeqMonotonic
  <2>4. QED BY <2>1, <2>3
<1>3. base \in Seq(H) /\ Anomaly!Observe(v) \in [0..Buckets-1 -> Seq(H)]
  <2>1. v \in H OBVIOUS
  <2> HIDE DEF H
  <2>2. QED BY <1>1, <1>2, <2>1, PriorIsHeard
<1> HIDE DEF base
<1>4. k \in Nat BY <1>3, LenProperties
<1>5. /\ Anomaly!Tick(v, k) /\ windows' = Anomaly!Observe(v)
      /\ Anomaly!Evaluate(base, v)
      /\ sustained' = Anomaly!Sustained(v)
  BY DEF Anomaly!Sample, base
<1>6. v \in Nat /\ v # -1 /\ v \in Values \cup {-1} BY AnomalyAssumption
<1> HIDE DEF k
<1>7. /\ anomalyNow' = n + 1
      /\ anomalySeen' \in Seq(Values \cup {-1}) /\ Len(anomalySeen') = n
      /\ compared' \in Seq(Nat) /\ Len(compared') = n
      /\ \A t \in 1..(n - 1) : anomalySeen'[t] = anomalySeen[t]
      /\ anomalySeen'[n] = v
      /\ Anomaly!Sampled \in SUBSET (1..(n - 1))
      /\ Anomaly!Sampled' = Anomaly!Sampled \cup {n}
      /\ Anomaly!Judged \in SUBSET (1..(n - 1))
      /\ Anomaly!Judged' = Anomaly!Judged \cup (IF k > 0 THEN {n} ELSE {})
  BY <1>1, <1>4, <1>5, <1>6, Cycle
<1>8. Heard' = H
  <2>1. \A t \in Anomaly!Sampled : anomalySeen'[t] = anomalySeen[t] BY <1>7
  <2>2. QED BY <1>7, <2>1 DEF Heard
<1>9. WindowsAreSeen' BY <1>3, <1>5, <1>8 DEF WindowsAreSeen
<1>10. st' \in GateStates
       /\ \/ /\ st' = AfterBreach(st, n, Cooldown) /\ Anomaly!Comparable(base)
             /\ Anomaly!Breached(base, v)
             /\ anomalyTold'.rule = "deviates" => Fires(st, n, Cooldown)
          \/ (st' = AfterClear(st) /\ anomalyTold'.rule # "deviates")
          \/ (st' = st /\ anomalyTold'.rule # "deviates" /\ ~Anomaly!Comparable(base))
  <2>1. CASE ~Anomaly!Comparable(base) BY <1>1, <1>5, <2>1 DEF Anomaly!Evaluate
  <2>2. CASE Anomaly!Comparable(base) /\ Anomaly!Breached(base, v)
    <3>1. /\ st' = AfterBreach(st, n, Cooldown)
          /\ anomalyTold'.rule = "deviates" => Fires(st, n, Cooldown)
      BY <1>5, <2>2, AnomalyKeys DEF Anomaly!Evaluate
    <3>2. AfterBreach(st, n, Cooldown) \in GateStates BY <1>1, BreachedKey
    <3>3. QED BY <2>2, <3>1, <3>2
  <2>3. CASE Anomaly!Comparable(base) /\ ~Anomaly!Breached(base, v)
    <3>1. st' = AfterClear(st) /\ anomalyTold'.rule # "deviates"
      BY <1>5, <2>3, AnomalyKeys DEF Anomaly!Evaluate
    <3>2. AfterClear(st) \in GateStates BY <1>1, ClearedKey
    <3>3. QED BY <3>1, <3>2
  <2>4. QED BY <2>1, <2>2, <2>3
<1>11. sustained' \in [since : Nat, reported : Nat]
  <2>1. sustained \in [since : Nat, reported : Nat] BY <1>1 DEF AnomalyType
  <2>2. QED
    BY <1>1, <1>5, <2>1 DEF Anomaly!Sustained, Anomaly!NotSustained, Anomaly!StillSustained,
      Anomaly!ZeroTime
<1>12. AnomalyType'
  <2>1. n + 1 \in Nat /\ n + 1 # 0 /\ (n + 1) - 1 = n BY <1>1
  <2>2. QED BY <1>7, <1>10, <1>11, <2>1 DEF AnomalyType
<1>13. ASSUME Rule = "deviation"
       PROVE  /\ Streak(anomalySeen', Anomaly!Judged', st'.breaches)
              /\ anomalyTold'.rule = "deviates" => st'.breaches >= Persistence
  <2>1. Streak(anomalySeen, Anomaly!Judged, st.breaches)
    BY <1>13 DEF AnomalyInv, BreachesAreReal
  <2>2. IsFiniteSet(Anomaly!Judged')
    <3>1. IsFiniteSet(1..n) BY <1>1, FS_Interval
    <3>2. Anomaly!Judged' \in SUBSET (1..n)
      <4>1. 1..(n - 1) \subseteq 1..n /\ n \in 1..n BY <1>1
      <4> HIDE DEF n
      <4>2. QED BY <1>7, <4>1
    <3>3. QED BY <3>1, <3>2, FS_Subset
  <2>3. st.breaches \in Nat /\ st'.breaches \in Nat
    BY <1>1, <1>10, PersistenceAssumption DEF GateStates, BreachCap
  <2>4. CASE /\ st' = AfterBreach(st, n, Cooldown) /\ Anomaly!Comparable(base)
             /\ Anomaly!Breached(base, v)
             /\ anomalyTold'.rule = "deviates" => Fires(st, n, Cooldown)
    <3>1. st'.breaches <= st.breaches + 1 BY <1>1, <2>4, BreachedKey
    <3>2. base \in Seq({anomalySeen'[t] : t \in {u \in 1..n : anomalySeen'[u] # -1}})
      <4>1. H = {anomalySeen'[t] : t \in Anomaly!Sampled'} BY <1>8 DEF Heard
      <4>2. Anomaly!Sampled' = {u \in 1..n : anomalySeen'[u] # -1}
        BY <1>7, LenProperties DEF Anomaly!Sampled, Anomaly!None
      <4> HIDE DEF H
      <4>3. QED BY <1>3, <4>1, <4>2
    <3>3. Beyond(anomalySeen', n)
      <4> DEFINE q == anomalySeen'
      <4>1. /\ q \in Seq(Values \cup {-1}) /\ Len(q) = n /\ q[n] # -1
            /\ Anomaly!Breached(base, q[n])
            /\ base \in Seq({q[t] : t \in {u \in 1..n : q[u] # -1}})
        BY <1>6, <1>7, <2>4, <3>2
      <4> HIDE DEF q, n
      <4>2. Beyond(q, n) BY <1>1, <1>13, <2>4, <4>1, BreachIsBeyond
      <4>3. QED BY <4>2 DEF q
    <3>4. k > 0
      <4>1. Len(base) >= MinObservations
        BY <2>4 DEF Anomaly!Comparable, Anomaly!Usable
      <4>2. MinObservations \in Nat \ {0} BY AnomalyAssumption
      <4>3. k = Len(base) BY <2>4 DEF k
      <4>4. QED BY <1>4, <4>1, <4>2, <4>3
    <3>5. Anomaly!Judged' = Anomaly!Judged \cup {n} BY <1>7, <3>4
    <3>6. Streak(anomalySeen', Anomaly!Judged \cup {n}, st'.breaches)
      <4> DEFINE q == anomalySeen
                 r == anomalySeen'
                 c == st'.breaches
      <4>1. /\ \A t \in 1..(n - 1) : r[t] = q[t]
            /\ Anomaly!Judged \in SUBSET (1..(n - 1)) /\ st.breaches \in Nat
            /\ Streak(q, Anomaly!Judged, st.breaches)
            /\ c \in Nat /\ c <= st.breaches + 1 /\ Beyond(r, n)
        BY <1>7, <2>1, <2>3, <3>1, <3>3
      <4> HIDE DEF q, r, c, n
      <4>2. Streak(r, Anomaly!Judged \cup {n}, c) BY <1>1, <4>1, BreachesGrow
      <4>3. QED BY <4>2 DEF r, c
    <3>7. anomalyTold'.rule = "deviates" => st'.breaches >= Persistence
      <4>1. Fires(st, n, Cooldown) => st.breaches + 1 >= Persistence BY DEF Fires
      <4>2. st'.breaches = UpTo(st.breaches, BreachCap) BY <2>4 DEF AfterBreach
      <4>3. st.breaches \in 0..BreachCap BY <1>1 DEF GateStates
      <4>4. QED
        BY <2>3, <2>4, <4>1, <4>2, <4>3, PersistenceAssumption DEF UpTo, BreachCap
    <3>8. QED BY <3>5, <3>6, <3>7
  <2>5. CASE st' = AfterClear(st) /\ anomalyTold'.rule # "deviates"
    <3>1. st'.breaches = 0 BY <1>1, <2>5, ClearedKey
    <3>2. QED BY <2>2, <2>5, <3>1, BreachesEnd
  <2>6. CASE st' = st /\ anomalyTold'.rule # "deviates" /\ ~Anomaly!Comparable(base)
    <3>1. k = 0 BY <2>6 DEF k
    <3>2. Anomaly!Judged' = Anomaly!Judged BY <1>7, <3>1
    <3> DEFINE q == anomalySeen
               r == anomalySeen'
    <3>3. /\ \A t \in 1..(n - 1) : r[t] = q[t]
          /\ Anomaly!Judged \in SUBSET (1..(n - 1))
          /\ Streak(q, Anomaly!Judged, st.breaches)
      BY <1>7, <2>1
    <3> HIDE DEF q, r, n
    <3>4. Streak(r, Anomaly!Judged, st.breaches) BY <1>1, <3>3, BreachesStay
    <3>5. QED BY <2>6, <3>2, <3>4 DEF r
  <2>7. QED BY <1>10, <2>4, <2>5, <2>6
<1>14. BreachesAreReal' BY <1>13 DEF BreachesAreReal
<1>15. QED BY <1>9, <1>12, <1>14

\* What a cycle does to how long the use has been sustained, and to what is told of it.
LEMMA SampleSustains ==
  ASSUME AnomalyInv, NEW v \in Values, NEW k \in Nat, Anomaly!Tick(v, k),
         sustained' = Anomaly!Sustained(v),
         anomalyTold'.sustained => sustained'.reported = anomalyNow
  PROVE  SinceIsFirst' /\ ReportIsTimely'
<1> DEFINE n == anomalyNow
           q == anomalySeen
           r == anomalySeen'
           since == sustained.since
           reported == sustained.reported
<1>1. /\ AnomalyType /\ SinceIsFirst
      /\ n \in Nat /\ n # 0 /\ since \in Nat /\ reported \in Nat
      /\ Len(q) = n - 1
  BY DEF AnomalyInv, AnomalyType
<1>2. v \in Nat /\ v # -1 /\ v \in Values \cup {-1} BY AnomalyAssumption
<1>3. /\ anomalyNow' = n + 1 /\ Len(r) = n
      /\ \A t \in 1..(n - 1) : r[t] = q[t]
      /\ r[n] = v
      /\ Anomaly!Sampled \in SUBSET (1..(n - 1))
      /\ Anomaly!Sampled' = Anomaly!Sampled \cup {n}
  BY <1>1, <1>2, Cycle
<1>4. \A from \in 1..n :
        AboveIn(r, from) <=> /\ \A t \in from..(n - 1) : q[t] # -1 => q[t] >= Floor
                             /\ v >= Floor
  <2> HIDE DEF q, r
  <2>1. ASSUME NEW from \in 1..n
        PROVE  AboveIn(r, from) <=> /\ \A t \in from..(n - 1) : q[t] # -1 => q[t] >= Floor
                                    /\ v >= Floor
    <3>1. from..n = from..(n - 1) \cup {n} BY <1>1
    <3>2. \A t \in from..(n - 1) : r[t] = q[t] BY <1>1, <1>3
    <3> HIDE DEF n
    <3>3. QED BY <1>2, <1>3, <3>1, <3>2 DEF AboveIn
  <2>2. QED BY <2>1
<1>5. \A from : AboveIn(q, from) <=> \A t \in from..(n - 1) : q[t] # -1 => q[t] >= Floor
  BY <1>1 DEF AboveIn
<1>6. CASE v < Floor
  <2>1. sustained' = [since |-> 0, reported |-> 0]
    BY <1>6 DEF Anomaly!Sustained, Anomaly!NotSustained, Anomaly!ZeroTime
  <2>2. ~(v >= Floor)
    <3>1. Floor \in Nat BY AnomalyAssumption
    <3>2. QED BY <1>2, <1>6, <3>1
  <2>3. \A from \in Anomaly!Sampled' : ~AboveIn(r, from)
    <3>1. Anomaly!Sampled' \subseteq 1..n
      <4>1. 1..(n - 1) \subseteq 1..n /\ n \in 1..n BY <1>1
      <4> HIDE DEF n
      <4>2. QED BY <1>3, <4>1
    <3>2. QED BY <1>4, <2>2, <3>1
  <2>4. SinceIsFirst' BY <1>1, <1>3, <2>1, <2>3 DEF SinceIsFirst
  <2>5. ~anomalyTold'.sustained /\ sustained'.since = 0 BY <1>1, <2>1
  <2>6. ReportIsTimely' BY <2>5 DEF ReportIsTimely
  <2>7. QED BY <2>4, <2>6
<1>7. CASE ~(v < Floor)
  <2> DEFINE s == sustained'.since
             p == sustained'.reported
  <2>1. /\ s = IF since = 0 THEN n ELSE since
        /\ p = IF Anomaly!Due(s) THEN n ELSE reported
    BY <1>7 DEF Anomaly!Sustained, Anomaly!StillSustained, Anomaly!ZeroTime
  <2>2. v >= Floor
    <3>1. Floor \in Nat BY AnomalyAssumption
    <3>2. QED BY <1>2, <1>7, <3>1
  <2> HIDE DEF q, r
  <2>3. /\ since # 0 => since \in Anomaly!Sampled /\ AboveIn(q, since)
        /\ \A from \in Anomaly!Sampled :
             AboveIn(q, from) => since # 0 /\ since <= from
        /\ reported < n
    BY <1>1 DEF SinceIsFirst, q
  <2>4. \A from \in Anomaly!Sampled : AboveIn(r, from) <=> AboveIn(q, from)
    <3>1. 1..(n - 1) \subseteq 1..n BY <1>1
    <3> HIDE DEF n
    <3>2. QED BY <1>3, <1>4, <1>5, <2>2, <3>1
  <2>5. AboveIn(r, n)
    <3>1. n \in 1..n /\ n..(n - 1) = {} BY <1>1
    <3> HIDE DEF n
    <3>2. QED BY <1>4, <2>2, <3>1
  <2>6. s # 0 /\ s \in Anomaly!Sampled' /\ AboveIn(r, s)
    BY <1>1, <1>3, <2>1, <2>3, <2>4, <2>5
  <2>7. ASSUME NEW from \in Anomaly!Sampled', AboveIn(r, from)
        PROVE  s <= from
    <3>1. CASE from = n
      <4>1. since # 0 => since \in 1..(n - 1) BY <1>3, <2>3
      <4>2. QED BY <1>1, <2>1, <3>1, <4>1
    <3>2. CASE from \in Anomaly!Sampled
      <4>1. since # 0 /\ since <= from BY <2>3, <2>4, <2>7, <3>2
      <4>2. QED BY <2>1, <4>1
    <3>3. QED BY <1>3, <3>1, <3>2
  <2>8. p < n + 1 /\ s \in Nat /\ p \in Nat BY <1>1, <2>1, <2>3
  <2>9. SinceIsFirst'
    BY <1>3, <2>6, <2>7, <2>8 DEF SinceIsFirst, r
  <2>10. p = n => n - s >= MinDuration
    <3>1. reported # n BY <1>1, <2>3
    <3>2. QED BY <2>1, <3>1 DEF Anomaly!Due
  <2>11. n - s >= MinDuration => p # 0 /\ (Repeat > 0 => n - p < Repeat)
    <3>1. Anomaly!Due(s) <=>
            /\ n - s >= MinDuration
            /\ reported # 0 => Repeat > 0 /\ n - reported >= Repeat
      BY DEF Anomaly!Due, Anomaly!ZeroTime
    <3>2. Repeat \in Nat BY AnomalyAssumption
    <3>3. QED BY <1>1, <2>1, <3>1, <3>2
  <2>12. ReportIsTimely'
    BY <1>3, <2>6, <2>10, <2>11 DEF ReportIsTimely, r
  <2>13. QED BY <2>9, <2>12
<1>8. QED BY <1>6, <1>7

\* A sample is folded, compared with a reference, and judged by both rules.
LEMMA MeasuredKeeps ==
  ASSUME AnomalyInv, NEW v \in Values, Anomaly!Sample(v)
  PROVE  AnomalyInv'
<1> DEFINE base == Anomaly!Prior(v)
           k == IF Anomaly!Comparable(base) THEN Len(base) ELSE 0
<1>1. /\ Anomaly!Tick(v, k) /\ sustained' = Anomaly!Sustained(v)
      /\ anomalyTold'.sustained = (sustained'.reported = anomalyNow)
  BY DEF Anomaly!Sample
<1>2. k \in Nat
  <2>1. anomalyNow \in Nat BY DEF AnomalyInv, AnomalyType
  <2>2. windows \in [0..Buckets-1 -> Seq(Heard \cup {v})]
    <3>1. windows \in [0..Buckets-1 -> Seq(Heard)] BY DEF AnomalyInv, WindowsAreSeen
    <3> DEFINE H == Heard \cup {v}
    <3>2. Heard \subseteq H OBVIOUS
    <3> HIDE DEF H
    <3>3. \A b \in 0..Buckets-1 : windows[b] \in Seq(H) BY <3>1, <3>2, SeqMonotonic
    <3>4. QED BY <3>1, <3>3 DEF H
  <2>3. base \in Seq(Heard \cup {v}) BY <2>1, <2>2, PriorIsHeard
  <2> HIDE DEF base
  <2>4. Len(base) \in Nat BY <2>3, LenProperties
  <2>5. QED BY <2>4
<1> HIDE DEF k
<1>3. anomalyTold'.sustained => sustained'.reported = anomalyNow
  <2> DEFINE told_ == anomalyTold'.sustained
             same == sustained'.reported = anomalyNow
  <2>1. told_ = same BY <1>1
  <2> HIDE DEF told_, same
  <2>2. told_ => same BY <2>1
  <2>3. QED BY <2>2 DEF told_, same
<1>4. SinceIsFirst' /\ ReportIsTimely' BY <1>1, <1>2, <1>3, SampleSustains
<1>5. QED BY <1>4, SampleJudges DEF AnomalyInv

\* A cycle without a sample.
LEMMA NoSampleKeeps ==
  ASSUME AnomalyInv, Anomaly!NoSample
  PROVE  AnomalyInv'
<1> DEFINE n == anomalyNow
           q == anomalySeen
           r == anomalySeen'
<1>1. /\ AnomalyType /\ WindowsAreSeen /\ BreachesAreReal /\ SinceIsFirst
      /\ n \in Nat /\ n # 0 /\ Len(q) = n - 1
      /\ sustained \in [since : Nat, reported : Nat]
  BY DEF AnomalyInv, AnomalyType
<1>2. /\ Anomaly!Tick(-1, 0)
      /\ anomalyTold'.rule # "deviates" /\ ~anomalyTold'.sustained
      /\ UNCHANGED <<windows, anomalyGate, sustained>>
  BY DEF Anomaly!NoSample, Anomaly!None, Anomaly!Nothing
<1>3. /\ anomalyNow' = n + 1
      /\ r \in Seq(Values \cup {-1}) /\ Len(r) = n
      /\ compared' \in Seq(Nat) /\ Len(compared') = n
      /\ \A t \in 1..(n - 1) : r[t] = q[t]
      /\ r[n] = -1
      /\ Anomaly!Sampled \in SUBSET (1..(n - 1)) /\ Anomaly!Sampled' = Anomaly!Sampled
      /\ Anomaly!Judged \in SUBSET (1..(n - 1)) /\ Anomaly!Judged' = Anomaly!Judged
  <2>1. -1 \in Values \cup {-1} /\ 0 \in Nat OBVIOUS
  <2>2. /\ Anomaly!Sampled' = Anomaly!Sampled \cup (IF -1 # -1 THEN {n} ELSE {})
        /\ Anomaly!Judged' = Anomaly!Judged \cup (IF 0 > 0 THEN {n} ELSE {})
    BY <1>1, <1>2, <2>1, Cycle
  <2>3. Anomaly!Sampled' = Anomaly!Sampled /\ Anomaly!Judged' = Anomaly!Judged BY <2>2
  <2>4. QED BY <1>1, <1>2, <2>1, <2>3, Cycle
<1>4. AnomalyType'
  <2>1. n + 1 \in Nat /\ n + 1 # 0 /\ (n + 1) - 1 = n BY <1>1
  <2>2. QED BY <1>1, <1>2, <1>3, <2>1 DEF AnomalyType
<1>5. WindowsAreSeen'
  <2>1. \A t \in Anomaly!Sampled : r[t] = q[t] BY <1>3
  <2>2. Heard' = Heard BY <1>3, <2>1 DEF Heard
  <2>3. QED BY <1>1, <1>2, <2>2 DEF WindowsAreSeen
<1>6. BreachesAreReal'
  <2>1. SUFFICES ASSUME Rule = "deviation"
                 PROVE  Streak(r, Anomaly!Judged, anomalyGate.breaches)
    BY <1>2, <1>3 DEF BreachesAreReal
  <2>2. Streak(q, Anomaly!Judged, anomalyGate.breaches) BY <1>1, <2>1 DEF BreachesAreReal
  <2> HIDE DEF n, q, r
  <2>3. QED BY <1>1, <1>3, <2>2, BreachesStay
<1>7. SinceIsFirst'
  <2>1. \A from \in 1..(n - 1) : AboveIn(r, from) <=> AboveIn(q, from)
    <3> HIDE DEF q, r
    <3>1. ASSUME NEW from \in 1..(n - 1) PROVE AboveIn(r, from) <=> AboveIn(q, from)
      <4>1. from..n = from..(n - 1) \cup {n} BY <1>1
      <4>2. \A t \in from..(n - 1) : r[t] = q[t] BY <1>1, <1>3
      <4> HIDE DEF n
      <4>3. QED BY <1>1, <1>3, <4>1, <4>2 DEF AboveIn
    <3>2. QED BY <3>1
  <2>2. sustained.reported < n => sustained.reported < n + 1 BY <1>1
  <2>3. QED BY <1>1, <1>2, <1>3, <2>1, <2>2 DEF SinceIsFirst
<1>8. ReportIsTimely'
  <2>1. n \notin Anomaly!Sampled'
    <3>1. n \notin 1..(n - 1) BY <1>1
    <3> HIDE DEF n
    <3>2. QED BY <1>3, <3>1
  <2>2. QED BY <1>2, <1>3, <2>1 DEF ReportIsTimely
<1>9. QED BY <1>4, <1>5, <1>6, <1>7, <1>8 DEF AnomalyInv

\* Nothing has been sampled.
LEMMA AnomalyStarts == SuiteInit => AnomalyInv
<1> SUFFICES ASSUME Anomaly!Init PROVE AnomalyInv BY DEF SuiteInit
<1>1. /\ windows = [b \in 0..Buckets-1 |-> <<>>] /\ anomalyGate = NewState
      /\ sustained = [since |-> 0, reported |-> 0]
      /\ anomalyNow = 1 /\ anomalySeen = <<>> /\ compared = <<>>
      /\ anomalyTold.rule # "deviates" /\ ~anomalyTold.sustained
  BY AnomalyKeys DEF Anomaly!Init, Anomaly!NotSustained, Anomaly!ZeroTime, Anomaly!Nothing
<1>2. /\ anomalySeen \in Seq(Values \cup {-1}) /\ Len(anomalySeen) = 0
      /\ compared \in Seq(Nat) /\ Len(compared) = 0
  BY <1>1, EmptySeq
<1>3. AnomalyType BY <1>1, <1>2, NewStateType DEF AnomalyType
<1>4. WindowsAreSeen
  <2>1. <<>> \in Seq(Heard) BY EmptySeq
  <2>2. QED BY <1>1, <2>1 DEF WindowsAreSeen
<1>5. Anomaly!Sampled = {} /\ Anomaly!Judged = {}
  BY <1>2, LenProperties DEF Anomaly!Sampled, Anomaly!Judged
<1>6. BreachesAreReal
  <2>1. anomalyGate.breaches = 0 BY <1>1 DEF NewState
  <2>2. Cardinality({}) = 0 BY FS_EmptySet
  <2>3. QED BY <1>1, <1>5, <2>1, <2>2 DEF BreachesAreReal, Streak
<1>7. SinceIsFirst BY <1>1, <1>5 DEF SinceIsFirst
<1>8. ReportIsTimely BY <1>1, <1>5 DEF ReportIsTimely
<1>9. QED BY <1>3, <1>4, <1>6, <1>7, <1>8 DEF AnomalyInv

\* Every step keeps what is known of the gate, the windows and the reports.
LEMMA AnomalyStep == AnomalyInv /\ [SuiteNext]_allVars => AnomalyInv'
<1> SUFFICES ASSUME AnomalyInv, [SuiteNext]_allVars PROVE AnomalyInv' OBVIOUS
<1>1. CASE UNCHANGED anomalyVars
  BY <1>1 DEF AnomalyInv, AnomalyType, WindowsAreSeen, BreachesAreReal, SinceIsFirst,
    ReportIsTimely, Heard, Anomaly!Sampled, Anomaly!Judged, anomalyVars
<1>2. CASE Anomaly!Next BY <1>2, MeasuredKeeps, NoSampleKeeps DEF Anomaly!Next
<1>3. QED BY <1>1, <1>2 DEF SuiteNext, allVars

\* The property follows from the invariant.
LEMMA AnomalySound == AnomalyInv => AnomaliesAreReal
<1> SUFFICES ASSUME AnomalyInv PROVE AnomaliesAreReal OBVIOUS
<1> DEFINE n == Len(anomalySeen)
<1>1. /\ n \in Nat /\ DOMAIN anomalySeen = 1..n /\ anomalyNow \in Nat /\ n = anomalyNow - 1
      /\ DOMAIN compared = 1..n
      /\ sustained.since \in Nat /\ sustained.reported \in Nat
  BY LenProperties DEF AnomalyInv, AnomalyType
<1>2. Anomaly!DeviationsAreReal
  <2>1. SUFFICES ASSUME anomalyTold.rule = "deviates", Rule = "deviation"
                 PROVE  /\ Anomaly!Cardinality(Anomaly!Judged) >= Persistence
                        /\ \A t \in Anomaly!Judged :
                             Anomaly!Cardinality({u \in Anomaly!Judged : u > t}) < Persistence
                               => Anomaly!Deviates(t)
    BY DEF Anomaly!DeviationsAreReal
  <2>2. \A S : Anomaly!Cardinality(S) = Cardinality(S)
    BY DEF Anomaly!Cardinality, Cardinality
  <2>3. /\ Streak(anomalySeen, Anomaly!Judged, anomalyGate.breaches)
        /\ anomalyGate.breaches >= Persistence
    BY <2>1 DEF AnomalyInv, BreachesAreReal
  <2>4. anomalyGate.breaches \in Nat /\ Persistence \in Nat
    BY PersistenceAssumption DEF AnomalyInv, AnomalyType, GateStates, BreachCap
  <2>5. IsFiniteSet(Anomaly!Judged) /\ Anomaly!Judged \subseteq 1..n
    <3>1. Anomaly!Judged \subseteq 1..n BY <1>1 DEF Anomaly!Judged
    <3>2. IsFiniteSet(1..n) BY <1>1, FS_Interval
    <3>3. QED BY <3>1, <3>2, FS_Subset
  <2>6. Cardinality(Anomaly!Judged) >= Persistence
    <3>1. Cardinality(Anomaly!Judged) \in Nat BY <2>5, FS_CardinalityType
    <3>2. QED BY <2>3, <2>4, <3>1 DEF Streak
  <2>7. ASSUME NEW t \in Anomaly!Judged,
               Cardinality({u \in Anomaly!Judged : u > t}) < Persistence
        PROVE  Anomaly!Deviates(t)
    <3> DEFINE later == {u \in Anomaly!Judged : u > t}
    <3>1. later \in SUBSET Anomaly!Judged OBVIOUS
    <3> HIDE DEF later
    <3>2. Cardinality(later) \in Nat BY <2>5, <3>1, FS_Subset, FS_CardinalityType
    <3>3. Cardinality(later) < Persistence BY <2>7 DEF later
    <3>4. Cardinality(later) < anomalyGate.breaches BY <2>3, <2>4, <3>2, <3>3
    <3>5. Beyond(anomalySeen, t) BY <2>3, <3>4 DEF Streak, later
    <3>6. \A u \in 1..t : u \in 1..n /\ u <= t BY <1>1, <2>5
    <3>7. QED
      BY <1>1, <3>5, <3>6 DEF Beyond, Anomaly!Deviates, Anomaly!Sampled, Anomaly!None
  <2>8. QED BY <2>2, <2>6, <2>7
<1>3. Anomaly!SustainedUseIsReported
  <2>1. \A from : Anomaly!Above(from) <=> AboveIn(anomalySeen, from)
    BY DEF Anomaly!Above, AboveIn, Anomaly!None
  <2>2. MinDuration \in Nat /\ Repeat \in Nat BY AnomalyAssumption
  <2>3. /\ sustained.since # 0 =>
             sustained.since \in Anomaly!Sampled /\ AboveIn(anomalySeen, sustained.since)
        /\ \A from \in Anomaly!Sampled :
             AboveIn(anomalySeen, from) => sustained.since # 0 /\ sustained.since <= from
    BY DEF AnomalyInv, SinceIsFirst
  <2>4. Anomaly!Sampled = {t \in 1..n : anomalySeen[t] # -1}
    BY <1>1 DEF Anomaly!Sampled, Anomaly!None
  <2>5. ASSUME anomalyTold.sustained
        PROVE  n > MinDuration /\ Anomaly!Above(n - MinDuration)
    <3>1. sustained.since # 0 /\ n - sustained.since >= MinDuration
      BY <2>5 DEF AnomalyInv, ReportIsTimely
    <3>2. n > MinDuration /\ sustained.since <= n - MinDuration /\ n - MinDuration \in Nat
      BY <1>1, <2>2, <3>1
    <3>3. AboveIn(anomalySeen, sustained.since) BY <2>3, <3>1
    <3>4. \A t \in (n - MinDuration)..n : t \in sustained.since..n BY <1>1, <3>2
    <3>5. AboveIn(anomalySeen, n - MinDuration) BY <3>3, <3>4 DEF AboveIn
    <3>6. QED BY <2>1, <3>2, <3>5
  <2>6. ASSUME NEW from \in 1..n, Anomaly!Above(from), anomalySeen[from] # -1,
               anomalySeen[n] # -1, n - from >= MinDuration
        PROVE  /\ sustained.reported # 0
               /\ Repeat > 0 => n - sustained.reported < Repeat
    <3>1. n \in 1..n BY <1>1
    <3>2. from \in Anomaly!Sampled /\ n \in Anomaly!Sampled BY <2>4, <2>6, <3>1
    <3>3. sustained.since # 0 /\ sustained.since <= from BY <2>1, <2>3, <2>6, <3>2
    <3>4. n - sustained.since >= MinDuration BY <1>1, <2>2, <2>6, <3>3
    <3>5. QED BY <3>2, <3>3, <3>4 DEF AnomalyInv, ReportIsTimely
  <2>7. QED
    BY <2>5, <2>6 DEF Anomaly!SustainedUseIsReported, Anomaly!None, Anomaly!ZeroTime
<1>4. QED BY <1>2, <1>3 DEF AnomaliesAreReal, Anomaly!AnomaliesAreReal

\* Whatever the thresholds, the number of buckets and of samples, zeroes and gaps among them:
\* a deviation is reported only of samples that deviate, as many in a row as configured, and
\* sustained use is reported when it is, and is not passed over.  (anomalyMonitor.Samples)
THEOREM SpecAnomaliesAreReal == SuiteSpec => []AnomaliesAreReal
<1>1. SuiteInit => AnomalyInv BY AnomalyStarts
<1>2. AnomalyInv /\ [SuiteNext]_allVars => AnomalyInv' BY AnomalyStep
<1>3. AnomalyInv => AnomaliesAreReal BY AnomalySound
<1>4. QED BY <1>1, <1>2, <1>3, PTL DEF SuiteSpec

-----------------------------------------------------------------------------
(***************************************************************************)
(* The correlation window.  It holds every signal that the engine was      *)
(* given and that is not older than the window, and its signals are in the *)
(* order in which they came.                                               *)
(***************************************************************************)
IDs == [rule : Correlation!RuleNames \cup {"none"}, at : Nat]
Row == [code : Correlation!Codes, by : IDs]
Conclusion == [code : Correlation!Codes, at : Nat]
Event == [code : Correlation!Codes, at : Nat, row : Nat]
Signal == [code : Correlation!Codes, at : Nat, row : Nat, got : Nat]

\* The signals of w are no conclusions, and came in order by the instant t.
Ordered(w, t) ==
  \A i \in 1..Len(w) :
    /\ w[i].code \notin Correlation!Conclusions /\ w[i].at <= w[i].got /\ w[i].got <= t
    /\ \A j \in 1..Len(w) : i <= j => w[i].got <= w[j].got

\* At instant t the signal s need not be in the window, or it is.
Kept(w, s, t) ==
  \/ s.code \in Correlation!Conclusions
  \/ \E i \in 1..Len(w) : w[i] = s
  \/ s.at + Window < t

\* Trimming drops a prefix of the signals, all of them too old; the next one is not.
LEMMA Trimmed ==
  ASSUME NEW w \in Seq(Signal), NEW t \in Nat
  PROVE  /\ Correlation!Trim(w, t) \in Seq(Signal)
         /\ \E k \in Nat :
              /\ Len(Correlation!Trim(w, t)) = Len(w) - k
              /\ \A i \in 1..(Len(w) - k) : Correlation!Trim(w, t)[i] = w[i + k]
              /\ \A i \in 1..Len(w) : i <= k => w[i].at + Window < t
              /\ Len(w) - k >= 1 => w[k + 1].at + Window >= t
<1> DEFINE kept == {i \in DOMAIN w : w[i].at + Window >= t}
           v == Correlation!Trim(w, t)
<1>1. /\ DOMAIN w = 1..Len(w) /\ Len(w) \in Nat
      /\ \A i \in 1..Len(w) : w[i] \in Signal
  BY LenProperties, ElementOfSeq
<1>2. \A i \in 1..Len(w) : w[i].at + Window \in Nat
  BY <1>1, CorrelationAssumption DEF Signal
<1>3. CASE kept = {}
  <2>1. v = <<>> BY <1>3 DEF Correlation!Trim
  <2>2. v \in Seq(Signal) /\ Len(v) = 0 BY <2>1, EmptySeq
  <2>3. \A i \in 1..Len(w) : w[i].at + Window < t BY <1>1, <1>2, <1>3
  <2>4. Len(w) - Len(w) = 0 BY <1>1
  <2> HIDE DEF v, kept
  <2>5. /\ Len(v) = Len(w) - Len(w)
        /\ \A i \in 1..(Len(w) - Len(w)) : v[i] = w[i + Len(w)]
        /\ \A i \in 1..Len(w) : i <= Len(w) => w[i].at + Window < t
        /\ Len(w) - Len(w) >= 1 => w[Len(w) + 1].at + Window >= t
    BY <2>2, <2>3, <2>4
  <2>6. QED BY <1>1, <2>2, <2>5 DEF v
<1>4. CASE kept # {}
  <2> DEFINE m == Correlation!Min(kept)
  <2>1. kept \in SUBSET Nat /\ kept # {} BY <1>1, <1>4
  <2>2. m \in kept /\ \A i \in kept : m <= i
    <3> HIDE DEF kept
    <3>1. \E x \in kept : \A y \in kept : x <= y BY <2>1, Least
    <3>2. QED BY <3>1 DEF Correlation!Min
  <2>3. v = SubSeq(w, m, Len(w)) BY <1>4 DEF Correlation!Trim
  <2> HIDE DEF v, m
  <2>4. m \in 1..Len(w) /\ w[m].at + Window >= t BY <1>1, <2>2
  <2>5. \A i \in m..Len(w) : w[i] \in Signal BY <1>1, <2>4
  <2>6. /\ v \in Seq(Signal)
        /\ Len(v) = IF m <= Len(w) THEN Len(w) - m + 1 ELSE 0
        /\ \A i \in 1..(Len(w) - m + 1) : v[i] = w[m + i - 1]
    BY <1>1, <2>3, <2>4, <2>5, SubSeqProperties
  <2> DEFINE k == m - 1
  <2>7. k \in Nat /\ m = k + 1 /\ Len(w) - m + 1 = Len(w) - k BY <1>1, <2>4
  <2>8. Len(v) = Len(w) - k BY <1>1, <2>4, <2>6, <2>7
  <2>9. \A i \in 1..(Len(w) - k) : v[i] = w[i + k]
    <3>1. ASSUME NEW i \in 1..(Len(w) - k) PROVE v[i] = w[i + k]
      <4>1. m + i - 1 = i + k BY <1>1, <2>4
      <4>2. QED BY <2>6, <2>7, <4>1
    <3>2. QED BY <3>1
  <2>10. ASSUME NEW i \in 1..Len(w), i <= k PROVE w[i].at + Window < t
    <3>1. ~(m <= i) BY <1>1, <2>4, <2>10
    <3>2. i \notin kept BY <2>2, <3>1
    <3>3. QED BY <1>1, <1>2, <3>2
  <2>11. w[k + 1].at + Window >= t BY <2>4, <2>7
  <2> HIDE DEF k
  <2>12. QED BY <2>6, <2>7, <2>8, <2>9, <2>10, <2>11 DEF v
<1>5. QED BY <1>3, <1>4

\* Trimming takes only signals that are too old.
LEMMA TrimKeeps ==
  ASSUME NEW w \in Seq(Signal), NEW n \in Nat, NEW t \in Nat, t <= n, Ordered(w, n)
  PROVE  /\ Correlation!Trim(w, t) \in Seq(Signal)
         /\ Ordered(Correlation!Trim(w, t), n)
         /\ \A s \in Signal : Kept(w, s, n) => Kept(Correlation!Trim(w, t), s, n)
         /\ \A i \in 1..Len(Correlation!Trim(w, t)) : Correlation!Trim(w, t)[i].got + Window >= t
<1> DEFINE v == Correlation!Trim(w, t)
<1>1. v \in Seq(Signal) BY Trimmed
<1>2. PICK k \in Nat :
        /\ Len(v) = Len(w) - k
        /\ \A i \in 1..(Len(w) - k) : v[i] = w[i + k]
        /\ \A i \in 1..Len(w) : i <= k => w[i].at + Window < t
        /\ Len(w) - k >= 1 => w[k + 1].at + Window >= t
  BY Trimmed
<1> HIDE DEF v
<1>3. /\ Len(w) \in Nat /\ Len(v) \in Nat
      /\ \A i \in 1..Len(w) : w[i].at \in Nat /\ w[i].got \in Nat
  <2>1. Len(w) \in Nat /\ Len(v) \in Nat BY <1>1, LenProperties
  <2>2. \A i \in 1..Len(w) : w[i] \in Signal BY ElementOfSeq
  <2>3. QED BY <2>1, <2>2 DEF Signal
<1>4. ASSUME NEW i \in 1..Len(v)
      PROVE  i + k \in 1..Len(w) /\ v[i] = w[i + k] /\ k + 1 \in 1..Len(w)
  BY <1>2, <1>3
<1>5. Ordered(v, n)
  <2>1. ASSUME NEW i \in 1..Len(v)
        PROVE  /\ v[i].code \notin Correlation!Conclusions
               /\ v[i].at <= v[i].got /\ v[i].got <= n
    BY <1>4 DEF Ordered
  <2>2. ASSUME NEW i \in 1..Len(v), NEW j \in 1..Len(v), i <= j PROVE v[i].got <= v[j].got
    <3>1. /\ i + k \in 1..Len(w) /\ j + k \in 1..Len(w)
          /\ v[i] = w[i + k] /\ v[j] = w[j + k]
      BY <1>4
    <3>2. i + k <= j + k BY <1>2, <1>3, <2>2
    <3>3. QED BY <3>1, <3>2 DEF Ordered
  <2>3. QED BY <2>1, <2>2 DEF Ordered
<1>6. ASSUME NEW s \in Signal, Kept(w, s, n) PROVE Kept(v, s, n)
  <2>1. CASE \E i \in 1..Len(w) : w[i] = s
    <3>1. PICK i \in 1..Len(w) : w[i] = s BY <2>1
    <3>2. CASE i <= k
      <4>1. s.at + Window < t BY <1>2, <3>1, <3>2
      <4>2. s.at \in Nat /\ Window \in Nat
        <5>1. Window \in Nat BY CorrelationAssumption
        <5>2. s.at \in Nat BY DEF Signal
        <5>3. QED BY <5>1, <5>2
      <4>3. s.at + Window < n BY <4>1, <4>2
      <4>4. QED BY <4>3 DEF Kept
    <3>3. CASE ~(i <= k)
      <4>1. i - k \in 1..(Len(w) - k) /\ (i - k) + k = i BY <1>2, <1>3, <3>3
      <4>2. v[i - k] = s BY <1>2, <3>1, <4>1
      <4>3. i - k \in 1..Len(v) BY <1>2, <4>1
      <4>4. QED BY <4>2, <4>3 DEF Kept
    <3>4. QED BY <3>2, <3>3
  <2>2. CASE ~\E i \in 1..Len(w) : w[i] = s BY <1>6, <2>2 DEF Kept
  <2>3. QED BY <2>1, <2>2
<1>7. ASSUME NEW i \in 1..Len(v) PROVE v[i].got + Window >= t
  <2>1. i + k \in 1..Len(w) /\ v[i] = w[i + k] /\ k + 1 \in 1..Len(w) BY <1>4
  <2>2. Len(w) - k >= 1 /\ k + 1 <= i + k BY <1>2, <1>3, <2>1
  <2>3. w[k + 1].at + Window >= t /\ w[k + 1].at <= w[k + 1].got /\ w[k + 1].got <= w[i + k].got
    BY <1>2, <2>1, <2>2 DEF Ordered
  <2>4. Window \in Nat BY CorrelationAssumption
  <2>5. QED BY <1>3, <2>1, <2>3, <2>4
<1>8. QED BY <1>1, <1>5, <1>6, <1>7 DEF v

\* The window takes a signal that came now.
LEMMA ObserveKeeps ==
  ASSUME NEW w \in Seq(Signal), NEW n \in Nat, Ordered(w, n), NEW s \in Signal,
         s.got = n, s.at <= n
  PROVE  /\ Correlation!Observe(w, s) \in Seq(Signal)
         /\ Ordered(Correlation!Observe(w, s), n)
         /\ \A x \in Signal : Kept(w, x, n) \/ x = s => Kept(Correlation!Observe(w, s), x, n)
<1>1. CASE s.code \in Correlation!Conclusions
  <2>1. Correlation!Observe(w, s) = w BY <1>1 DEF Correlation!Observe
  <2>2. Kept(w, s, n) BY <1>1 DEF Kept
  <2>3. QED BY <2>1, <2>2
<1>2. CASE s.code \notin Correlation!Conclusions
  <2> DEFINE v == Append(w, s)
  <2>1. /\ v \in Seq(Signal) /\ Len(v) = Len(w) + 1 /\ Len(w) \in Nat
        /\ \A i \in 1..Len(w) : v[i] = w[i]
        /\ v[Len(w) + 1] = s
    BY AppendProperties, LenProperties
  <2>2. Correlation!Observe(w, s) = Correlation!Trim(v, s.at)
    BY <1>2 DEF Correlation!Observe
  <2> HIDE DEF v
  <2>3. 1..Len(v) = 1..Len(w) \cup {Len(w) + 1} BY <2>1
  <2>4. \A i \in 1..Len(w) : w[i] \in Signal BY ElementOfSeq
  <2>5. Ordered(v, n)
    <3>1. ASSUME NEW i \in 1..Len(v)
          PROVE  /\ v[i].code \notin Correlation!Conclusions
                 /\ v[i].at <= v[i].got /\ v[i].got <= n
      BY <1>2, <2>1, <2>3 DEF Ordered
    <3>2. ASSUME NEW i \in 1..Len(v), NEW j \in 1..Len(v), i <= j
          PROVE  v[i].got <= v[j].got
      <4>1. CASE j \in 1..Len(w)
        <5>1. i \in 1..Len(w) BY <2>1, <3>2, <4>1
        <5>2. QED BY <2>1, <3>2, <4>1, <5>1 DEF Ordered
      <4>2. CASE j = Len(w) + 1 BY <2>1, <3>1, <4>2
      <4>3. QED BY <2>3, <4>1, <4>2
    <3>3. QED BY <3>1, <3>2 DEF Ordered
  <2>6. \A x \in Signal : Kept(w, x, n) \/ x = s => Kept(v, x, n)
    BY <2>1, <2>3 DEF Kept
  <2>7. s.at \in Nat BY DEF Signal
  <2>8. QED BY <2>1, <2>2, <2>5, <2>6, <2>7, TrimKeeps
<1>3. QED BY <1>1, <1>2
-----------------------------------------------------------------------------
(***************************************************************************)
(* What holds of the engine at every step.  Events and rows are from       *)
(* before: nothing is stamped later than now, or has a row that is not     *)
(* there yet.                                                              *)
(***************************************************************************)
Past(t) == {c \in Conclusion : c.at <= t}
Stored(t, n) == {e \in Event : e.at <= t /\ e.row <= n}
Arrivals(n) == {s \in Signal : s.row <= n}
Matches == [rule : Correlation!RuleNames \cup {"none"}, at : Nat, rows : SUBSET Nat]

CorrelationType ==
  /\ correlationNow \in Nat
  /\ log \in Seq(Past(correlationNow))
  /\ rows \in Seq(Row)
  /\ channel \in Seq(Stored(correlationNow, Len(rows)))
  /\ received \subseteq Arrivals(Len(rows))
  /\ match \in Matches

\* The window is in order and holds everything received that is young enough.
WindowIsWhole ==
  /\ window \in Seq(Signal)
  /\ Ordered(window, correlationNow)
  /\ \A s \in received : Kept(window, s, correlationNow)

\* While the symptoms are being marked, the match names the rows of all of them.
MatchIsWhole ==
  pc = "marking" =>
    \A s \in received :
      s.row # 0 /\ s.code \in Correlation!Suppresses(match.rule) /\ s.at + Window >= match.at
        => s.row \in match.rows

CorrelationInv == CorrelationType /\ WindowIsWhole /\ MatchIsWhole

\* Nothing has happened.
LEMMA CorrelationStarts == SuiteInit => CorrelationInv
<1> SUFFICES ASSUME Correlation!Init PROVE CorrelationInv BY DEF SuiteInit
<1>1. /\ log = <<>> /\ rows = <<>> /\ channel = <<>> /\ window = <<>> /\ received = {}
      /\ pc = "idle" /\ match = [rule |-> "none", at |-> 0, rows |-> {}]
      /\ correlationNow = 1
  BY DEF Correlation!Init, Correlation!NoMatch, Correlation!Never
<1>2. log \in Seq(Past(correlationNow)) BY <1>1, EmptySeq
<1>3. rows \in Seq(Row) BY <1>1, EmptySeq
<1>4. channel \in Seq(Stored(correlationNow, Len(rows))) BY <1>1, EmptySeq
<1>5. window \in Seq(Signal) /\ Len(window) = 0 BY <1>1, EmptySeq
<1>6. match \in Matches BY <1>1 DEF Matches
<1>7. WindowIsWhole BY <1>1, <1>5 DEF WindowIsWhole, Ordered
<1>8. MatchIsWhole BY <1>1 DEF MatchIsWhole
<1>9. CorrelationType BY <1>1, <1>2, <1>3, <1>4, <1>6 DEF CorrelationType
<1>10. QED BY <1>7, <1>8, <1>9 DEF CorrelationInv

\* The logger's goroutine hands on an event from before.
LEMMA ProcessKeeps ==
  ASSUME NEW e, e.code \in Correlation!Codes, e.at \in Nat, e.at <= correlationNow,
         CorrelationInv, Correlation!Process(e),
         UNCHANGED <<window, pc, match, correlationNow, received>>,
         log' \in Seq(Past(correlationNow))
  PROVE  CorrelationInv'
<1> DEFINE n == Len(rows)
<1>1. n \in Nat BY LenProperties DEF CorrelationInv, CorrelationType
<1>2. channel \in Seq(Stored(correlationNow, n)) BY DEF CorrelationInv, CorrelationType
<1>3. /\ rows' \in Seq(Row) /\ Len(rows') \in Nat /\ n <= Len(rows')
      /\ channel' \in Seq(Stored(correlationNow, Len(rows')))
  <2>1. CASE /\ rows' = Append(rows, [code |-> e.code, by |-> Correlation!Unabsorbed])
             /\ channel' = Append(channel, [code |-> e.code, at |-> e.at, row |-> Len(rows) + 1])
    <3>1. [code |-> e.code, by |-> Correlation!Unabsorbed] \in Row
      BY DEF Row, IDs, Correlation!Unabsorbed, Correlation!Never
    <3>2. rows' \in Seq(Row) /\ Len(rows') = n + 1
      BY <2>1, <3>1, AppendProperties DEF CorrelationInv, CorrelationType
    <3>3. [code |-> e.code, at |-> e.at, row |-> n + 1] \in Stored(correlationNow, n + 1)
      BY <1>1 DEF Stored, Event
    <3>4. Stored(correlationNow, n) \subseteq Stored(correlationNow, n + 1)
      BY <1>1 DEF Stored, Event
    <3> HIDE DEF n
    <3>5. channel \in Seq(Stored(correlationNow, n + 1)) BY <1>2, <3>4, SeqMonotonic
    <3>6. channel' \in Seq(Stored(correlationNow, n + 1))
      BY <2>1, <3>3, <3>5, AppendProperties DEF n
    <3>7. QED BY <1>1, <3>2, <3>6
  <2>2. CASE /\ rows' = rows
             /\ channel' = Append(channel, [code |-> e.code, at |-> e.at, row |-> 0])
    <3>1. [code |-> e.code, at |-> e.at, row |-> 0] \in Stored(correlationNow, n)
      BY <1>1 DEF Stored, Event
    <3>2. channel' \in Seq(Stored(correlationNow, n)) BY <1>2, <2>2, <3>1, AppendProperties
    <3>3. QED BY <1>1, <2>2, <3>2 DEF CorrelationInv, CorrelationType
  <2>3. QED BY <2>1, <2>2 DEF Correlation!Process, Correlation!NoRow
<1>4. Arrivals(n) \subseteq Arrivals(Len(rows')) BY <1>1, <1>3 DEF Arrivals, Signal
<1>5. CorrelationType' BY <1>3, <1>4 DEF CorrelationInv, CorrelationType
<1>6. WindowIsWhole' BY DEF CorrelationInv, WindowIsWhole
<1>7. MatchIsWhole' BY DEF CorrelationInv, MatchIsWhole
<1>8. QED BY <1>5, <1>6, <1>7 DEF CorrelationInv

\* A collector's event goes through the logger.
LEMMA PublishKeeps ==
  ASSUME CorrelationInv, \E code \in Symptoms : Correlation!Publish(code)
  PROVE  CorrelationInv'
<1>1. PICK code \in Symptoms, at \in 1..correlationNow :
        /\ Correlation!Process([code |-> code, at |-> at])
        /\ UNCHANGED <<log, window, pc, match, correlationNow, received>>
  BY DEF Correlation!Publish
<1> DEFINE e == [code |-> code, at |-> at]
<1>2. e.code \in Correlation!Codes BY DEF Correlation!Codes
<1>3. e.at \in Nat /\ e.at <= correlationNow BY DEF CorrelationInv, CorrelationType
<1>4. log' \in Seq(Past(correlationNow)) BY <1>1 DEF CorrelationInv, CorrelationType
<1> HIDE DEF e
<1>5. QED BY <1>1, <1>2, <1>3, <1>4, ProcessKeeps DEF e

\* So does a conclusion of the engine.
LEMMA ConclusionKeeps ==
  ASSUME CorrelationInv, Correlation!PublishConclusion
  PROVE  CorrelationInv'
<1>1. log # <<>> /\ Correlation!Process(Head(log)) /\ log' = Tail(log)
      /\ UNCHANGED <<window, pc, match, correlationNow, received>>
  BY DEF Correlation!PublishConclusion
<1>2. log \in Seq(Past(correlationNow)) BY DEF CorrelationInv, CorrelationType
<1>3. Head(log) \in Past(correlationNow) /\ Tail(log) \in Seq(Past(correlationNow))
  BY <1>1, <1>2, HeadTailProperties
<1> DEFINE e == Head(log)
<1>4. e.code \in Correlation!Codes /\ e.at \in Nat /\ e.at <= correlationNow
  BY <1>3 DEF Past, Conclusion
<1> HIDE DEF e
<1>5. QED BY <1>1, <1>3, <1>4, ProcessKeeps DEF e

\* The engine is given a signal, while it is not marking or with no row to mark.
LEMMA ArrivalKeeps ==
  ASSUME NEW s \in Arrivals(Len(rows)), s.got = correlationNow, s.at <= correlationNow,
         CorrelationInv,
         window' = Correlation!Observe(window, s), received' = received \cup {s},
         UNCHANGED <<log, rows, pc, match, correlationNow>>,
         channel' \in Seq(Stored(correlationNow, Len(rows))),
         pc = "marking" => s.row = 0
  PROVE  CorrelationInv'
<1>1. s \in Signal /\ correlationNow \in Nat
  BY DEF Arrivals, CorrelationInv, CorrelationType
<1>2. window \in Seq(Signal) /\ Ordered(window, correlationNow)
  BY DEF CorrelationInv, WindowIsWhole
<1>3. /\ Correlation!Observe(window, s) \in Seq(Signal)
      /\ Ordered(Correlation!Observe(window, s), correlationNow)
      /\ \A x \in Signal : Kept(window, x, correlationNow) \/ x = s
           => Kept(Correlation!Observe(window, s), x, correlationNow)
  BY <1>1, <1>2, ObserveKeeps
<1>4. received \subseteq Signal BY DEF CorrelationInv, CorrelationType, Arrivals
<1>5. \A x \in received : Kept(window, x, correlationNow)
  BY DEF CorrelationInv, WindowIsWhole
<1>6. WindowIsWhole' BY <1>1, <1>3, <1>4, <1>5 DEF WindowIsWhole
<1>7. CorrelationType' BY DEF CorrelationInv, CorrelationType
<1>8. MatchIsWhole' BY DEF CorrelationInv, MatchIsWhole
<1>9. QED BY <1>6, <1>7, <1>8 DEF CorrelationInv

\* A sample enters the window at once.
LEMMA SampleKeeps ==
  ASSUME CorrelationInv, \E code \in Samples : Correlation!Sample(code)
  PROVE  CorrelationInv'
<1>1. PICK code \in Samples : Correlation!Sample(code) OBVIOUS
<1> DEFINE s == [code |-> code, at |-> correlationNow, row |-> 0, got |-> correlationNow]
<1>2. correlationNow \in Nat /\ Len(rows) \in Nat
  BY LenProperties DEF CorrelationInv, CorrelationType
<1>3. s \in Arrivals(Len(rows)) BY <1>2 DEF Arrivals, Signal, Correlation!Codes
<1>4. s.got = correlationNow /\ s.at <= correlationNow /\ s.row = 0 BY <1>2
<1>5. /\ window' = Correlation!Observe(window, s) /\ received' = received \cup {s}
      /\ UNCHANGED <<log, rows, channel, pc, match, correlationNow>>
  BY <1>1 DEF Correlation!Sample, Correlation!Arrived, Correlation!NoRow
<1>6. channel' \in Seq(Stored(correlationNow, Len(rows)))
  BY <1>5 DEF CorrelationInv, CorrelationType
<1> HIDE DEF s
<1>7. QED BY <1>3, <1>4, <1>5, <1>6, ArrivalKeeps

\* The next event is moved from the channel into the window.
LEMMA DrainKeeps ==
  ASSUME CorrelationInv, Correlation!Drain
  PROVE  CorrelationInv'
<1> DEFINE e == Head(channel)
           s == [code |-> e.code, at |-> e.at, row |-> e.row, got |-> correlationNow]
<1>1. channel \in Seq(Stored(correlationNow, Len(rows))) /\ correlationNow \in Nat
  BY DEF CorrelationInv, CorrelationType
<1>2. e \in Stored(correlationNow, Len(rows))
      /\ Tail(channel) \in Seq(Stored(correlationNow, Len(rows)))
  BY <1>1, HeadTailProperties DEF Correlation!Drain
<1>3. /\ window' = Correlation!Observe(window, s) /\ received' = received \cup {s}
      /\ pc = "idle" /\ channel' = Tail(channel)
      /\ UNCHANGED <<log, rows, pc, match, correlationNow>>
  BY DEF Correlation!Drain, Correlation!Arrived
<1> HIDE DEF e
<1>4. s \in Arrivals(Len(rows)) /\ s.got = correlationNow /\ s.at <= correlationNow
  BY <1>1, <1>2 DEF Arrivals, Signal, Stored, Event
<1> HIDE DEF s
<1>5. pc # "marking" BY <1>3
<1>6. QED BY <1>2, <1>3, <1>4, <1>5, ArrivalKeeps

-----------------------------------------------------------------------------
\* No conclusion is absorbed by another.
LEMMA ConclusionsStay ==
  \A r \in Correlation!RuleNames : Correlation!Suppresses(r) \cap Correlation!Conclusions = {}
<1> DEFINE names == {Correlation!Saturation, Correlation!WiFi, Correlation!DNSSlow,
                     Correlation!VPN, Correlation!ISP}
<1>1. Correlation!RuleNames = names
  BY DEF Correlation!RuleNames, Correlation!RuleOrder
<1> HIDE DEF names
<1>2. \A r \in names :
        Correlation!Conclusion(r) \in {"LOCAL_BANDWIDTH_SATURATION", "WIFI_DEGRADATION",
          "DNS_RESPONSE_DEGRADATION", "VPN_ROUTING_CHANGE", "UPSTREAM_PERFORMANCE_DEGRADATION"}
  BY DEF names, Correlation!Conclusion, Correlation!Saturation, Correlation!WiFi,
    Correlation!DNSSlow, Correlation!VPN, Correlation!ISP
<1>3. Correlation!Conclusions \subseteq
        {"LOCAL_BANDWIDTH_SATURATION", "WIFI_DEGRADATION",
          "DNS_RESPONSE_DEGRADATION", "VPN_ROUTING_CHANGE", "UPSTREAM_PERFORMANCE_DEGRADATION"}
  BY <1>1, <1>2 DEF Correlation!Conclusions
<1>4. \A r \in names :
        Correlation!Suppresses(r) \cap {"LOCAL_BANDWIDTH_SATURATION", "WIFI_DEGRADATION",
          "DNS_RESPONSE_DEGRADATION", "VPN_ROUTING_CHANGE", "UPSTREAM_PERFORMANCE_DEGRADATION"}
        = {}
  BY DEF names, Correlation!Suppresses, Correlation!Saturation, Correlation!WiFi,
    Correlation!DNSSlow, Correlation!VPN, Correlation!ISP, Correlation!Bursts,
    Correlation!HighLatency, Correlation!RadioTrouble, Correlation!PathMoved,
    Correlation!AddressMoved, Correlation!SlowTransfer
<1>5. QED BY <1>1, <1>3, <1>4

\* The rule that a run draws its conclusion from, if there is one: the first that fires.
LEMMA RunDraws ==
  ASSUME Correlation!Run
  PROVE  \/ UNCHANGED <<log, pc>> /\ match' = Correlation!NoMatch
         \/ \E r \in Correlation!RuleNames :
              /\ Correlation!Satisfied(r, window')
              /\ match' = [rule |-> r, at |-> correlationNow,
                           rows |-> Correlation!Explained(r, window')]
              /\ log' = Append(log, [code |-> Correlation!Conclusion(r),
                                     at |-> correlationNow])
<1> DEFINE firing == {i \in DOMAIN Correlation!RuleOrder :
                        Correlation!CooldownElapsed(Correlation!RuleOrder[i])
                          /\ Correlation!Satisfied(Correlation!RuleOrder[i], window')}
           m == Correlation!Min(firing)
           r == Correlation!RuleOrder[m]
<1>1. CASE firing = {} BY <1>1 DEF Correlation!Run
<1>2. CASE firing # {}
  <2>1. DOMAIN Correlation!RuleOrder = 1..5 BY DEF Correlation!RuleOrder
  <2>2. firing \in SUBSET Nat BY <2>1
  <2>3. m \in firing
    <3> HIDE DEF firing
    <3>1. \E x \in firing : \A y \in firing : x <= y BY <1>2, <2>2, Least
    <3>2. QED BY <3>1 DEF Correlation!Min
  <2>4. r \in Correlation!RuleNames /\ Correlation!Satisfied(r, window')
    <3> HIDE DEF m
    <3>1. QED BY <2>3 DEF Correlation!RuleNames
  <2>5. /\ match' = [rule |-> r, at |-> correlationNow,
                     rows |-> Correlation!Explained(r, window')]
        /\ log' = Append(log, [code |-> Correlation!Conclusion(r), at |-> correlationNow])
    BY <1>2 DEF Correlation!Run
  <2> HIDE DEF r
  <2>6. QED BY <2>4, <2>5
<1>3. QED BY <1>1, <1>2

\* What a run leaves in the window is whole, in order, and no older than the window.
LEMMA RunWindow ==
  ASSUME CorrelationInv, Correlation!Run
  PROVE  /\ WindowIsWhole'
         /\ received' = received /\ correlationNow' = correlationNow
         /\ \A i \in 1..Len(window') : /\ window'[i].got + Window >= correlationNow
                                       /\ window'[i].code \notin Correlation!Conclusions
<1> DEFINE v == Correlation!Trim(window, correlationNow)
<1>1. /\ correlationNow \in Nat /\ received \subseteq Signal
      /\ window \in Seq(Signal) /\ Ordered(window, correlationNow)
      /\ \A s \in received : Kept(window, s, correlationNow)
  BY DEF CorrelationInv, CorrelationType, WindowIsWhole, Arrivals
<1>2. correlationNow <= correlationNow BY <1>1
<1>3. /\ v \in Seq(Signal) /\ Ordered(v, correlationNow)
      /\ \A s \in Signal : Kept(window, s, correlationNow) => Kept(v, s, correlationNow)
      /\ \A i \in 1..Len(v) : v[i].got + Window >= correlationNow
  BY <1>1, <1>2, TrimKeeps
<1>4. window' = v /\ received' = received /\ correlationNow' = correlationNow
  BY DEF Correlation!Run
<1> HIDE DEF v
<1>5. WindowIsWhole' BY <1>1, <1>3, <1>4 DEF WindowIsWhole
<1>6. \A i \in 1..Len(v) : v[i].code \notin Correlation!Conclusions BY <1>3 DEF Ordered
<1>7. QED BY <1>3, <1>4, <1>5, <1>6

\* The rows that a conclusion explains are those of all its symptoms in the window.
LEMMA ExplainedIsWhole ==
  ASSUME NEW w \in Seq(Signal), NEW n \in Nat, NEW r \in Correlation!RuleNames
  PROVE  /\ Correlation!Explained(r, w) \in SUBSET Nat
         /\ \A s \in Signal :
              Kept(w, s, n) /\ s.row # 0 /\ s.code \in Correlation!Suppresses(r)
                /\ s.at + Window >= n
              => s.row \in Correlation!Explained(r, w)
<1>1. DOMAIN w = 1..Len(w) /\ \A i \in 1..Len(w) : w[i] \in Signal
  BY LenProperties, ElementOfSeq
<1>2. \A i \in 1..Len(w) : w[i].row \in Nat BY <1>1 DEF Signal
<1>3. Correlation!Explained(r, w) \in SUBSET Nat
  BY <1>1, <1>2 DEF Correlation!Explained
<1>4. ASSUME NEW s \in Signal, Kept(w, s, n), s.row # 0,
             s.code \in Correlation!Suppresses(r), s.at + Window >= n
      PROVE  s.row \in Correlation!Explained(r, w)
  <2>1. s.code \notin Correlation!Conclusions BY <1>4, ConclusionsStay
  <2>2. ~(s.at + Window < n)
    <3>1. Window \in Nat BY CorrelationAssumption
    <3>2. s.at \in Nat BY DEF Signal
    <3>3. QED BY <1>4, <3>1, <3>2
  <2>3. PICK i \in 1..Len(w) : w[i] = s BY <1>4, <2>1, <2>2 DEF Kept
  <2>4. QED BY <1>1, <1>4, <2>3 DEF Correlation!Explained, Correlation!NoRow
<1>5. QED BY <1>3, <1>4

\* A run draws a conclusion, or none; the match names the rows of its symptoms.
LEMMA RunKeeps ==
  ASSUME CorrelationInv, Correlation!Run
  PROVE  CorrelationInv'
<1>1. /\ WindowIsWhole'
      /\ received' = received /\ correlationNow' = correlationNow
  BY RunWindow
<1>2. rows' = rows /\ channel' = channel /\ pc = "idle" BY DEF Correlation!Run
<1>3. correlationNow \in Nat /\ received \subseteq Signal
  BY DEF CorrelationInv, CorrelationType, Arrivals
<1>4. CASE UNCHANGED <<log, pc>> /\ match' = Correlation!NoMatch
  <2>1. match' \in Matches BY <1>4 DEF Matches, Correlation!NoMatch, Correlation!Never
  <2>2. CorrelationType' BY <1>1, <1>2, <1>4, <2>1 DEF CorrelationInv, CorrelationType
  <2>3. MatchIsWhole' BY <1>2, <1>4 DEF MatchIsWhole
  <2>4. QED BY <1>1, <2>2, <2>3 DEF CorrelationInv
<1>5. ASSUME NEW r \in Correlation!RuleNames,
             match' = [rule |-> r, at |-> correlationNow,
                       rows |-> Correlation!Explained(r, window')],
             log' = Append(log, [code |-> Correlation!Conclusion(r), at |-> correlationNow])
      PROVE  CorrelationInv'
  <2>1. window' \in Seq(Signal) /\ \A s \in received : Kept(window', s, correlationNow)
    BY <1>1 DEF WindowIsWhole
  <2> DEFINE v == window'
  <2>2. v \in Seq(Signal) BY <2>1
  <2> HIDE DEF v
  <2>3. /\ Correlation!Explained(r, v) \in SUBSET Nat
        /\ \A s \in Signal :
             Kept(v, s, correlationNow) /\ s.row # 0 /\ s.code \in Correlation!Suppresses(r)
               /\ s.at + Window >= correlationNow
             => s.row \in Correlation!Explained(r, v)
    BY <1>3, <2>2, ExplainedIsWhole
  <2>4. match' \in Matches BY <1>3, <1>5, <2>3 DEF Matches, v
  <2>5. [code |-> Correlation!Conclusion(r), at |-> correlationNow] \in Past(correlationNow)
    BY <1>3 DEF Past, Conclusion, Correlation!Codes, Correlation!Conclusions
  <2>6. log' \in Seq(Past(correlationNow))
    BY <1>5, <2>5, AppendProperties DEF CorrelationInv, CorrelationType
  <2>7. CorrelationType' BY <1>1, <1>2, <2>4, <2>6 DEF CorrelationInv, CorrelationType
  <2>8. match'.rule = r /\ match'.at = correlationNow
        /\ match'.rows = Correlation!Explained(r, v)
    BY <1>5 DEF v
  <2>9. MatchIsWhole'
    BY <1>1, <1>3, <2>1, <2>3, <2>8 DEF MatchIsWhole, v
  <2>10. QED BY <1>1, <2>7, <2>9 DEF CorrelationInv
<1>6. QED BY <1>4, <1>5, RunDraws

\* The statement that marks the symptoms changes what it is about, and nothing else.
LEMMA Marked ==
  ASSUME CorrelationInv, pc = "marking",
         rows' = [i \in DOMAIN rows |->
                    IF i \in match.rows THEN [rows[i] EXCEPT !.by = Correlation!IDOf(match)]
                                        ELSE rows[i]]
  PROVE  /\ rows' \in Seq(Row) /\ Len(rows') = Len(rows)
         /\ \A i \in 1..Len(rows) : i \in match.rows => rows'[i].by = Correlation!IDOf(match)
<1>1. rows \in Seq(Row) /\ match \in Matches BY DEF CorrelationInv, CorrelationType
<1>2. DOMAIN rows = 1..Len(rows) /\ Len(rows) \in Nat /\ \A i \in 1..Len(rows) : rows[i] \in Row
  BY <1>1, LenProperties, ElementOfSeq
<1>3. Correlation!IDOf(match) \in IDs BY <1>1 DEF IDs, Matches, Correlation!IDOf
<1>4. \A i \in 1..Len(rows) :
        /\ [rows[i] EXCEPT !.by = Correlation!IDOf(match)] \in Row
        /\ [rows[i] EXCEPT !.by = Correlation!IDOf(match)].by = Correlation!IDOf(match)
  BY <1>2, <1>3 DEF Row
<1>5. rows' \in [1..Len(rows) -> Row] BY <1>2, <1>4
<1>6. rows' \in Seq(Row) /\ Len(rows') = Len(rows) BY <1>2, <1>5, SeqDef
<1>7. QED BY <1>2, <1>4, <1>6

\* The symptoms are marked, and none remain to mark.
LEMMA MarkKeeps ==
  ASSUME CorrelationInv, Correlation!Mark
  PROVE  CorrelationInv'
<1>1. /\ pc = "marking" /\ pc' = "idle" /\ match' = Correlation!NoMatch
      /\ UNCHANGED <<log, channel, window, correlationNow, received>>
  BY DEF Correlation!Mark
<1>2. rows' \in Seq(Row) /\ Len(rows') = Len(rows)
  BY <1>1, Marked DEF Correlation!Mark, CorrelationInv, CorrelationType
<1>3. match' \in Matches BY <1>1 DEF Matches, Correlation!NoMatch, Correlation!Never
<1>4. CorrelationType' BY <1>1, <1>2, <1>3 DEF CorrelationInv, CorrelationType
<1>5. WindowIsWhole' BY <1>1 DEF CorrelationInv, WindowIsWhole
<1>6. MatchIsWhole' BY <1>1 DEF MatchIsWhole
<1>7. QED BY <1>4, <1>5, <1>6 DEF CorrelationInv

\* Time passes: what is in the window stays, and nothing comes from the future.
LEMMA TickKeeps ==
  ASSUME CorrelationInv, Correlation!Tick
  PROVE  CorrelationInv'
<1>1. /\ correlationNow' = correlationNow + 1
      /\ UNCHANGED <<log, rows, channel, window, pc, match, received>>
  BY DEF Correlation!Tick
<1> DEFINE n == correlationNow
<1>2. /\ n \in Nat /\ log \in Seq(Past(n)) /\ channel \in Seq(Stored(n, Len(rows)))
      /\ received \subseteq Arrivals(Len(rows)) /\ rows \in Seq(Row) /\ match \in Matches
  BY DEF CorrelationInv, CorrelationType
<1>3. Past(n) \subseteq Past(n + 1) BY <1>2 DEF Past, Conclusion
<1>4. Stored(n, Len(rows)) \subseteq Stored(n + 1, Len(rows)) BY <1>2 DEF Stored, Event
<1> HIDE DEF n
<1>5. log \in Seq(Past(n + 1)) BY <1>2, <1>3, SeqMonotonic
<1>6. channel \in Seq(Stored(n + 1, Len(rows))) BY <1>2, <1>4, SeqMonotonic
<1>7. CorrelationType' BY <1>1, <1>2, <1>5, <1>6 DEF CorrelationType, n
<1>8. window \in Seq(Signal) /\ Ordered(window, n) /\ \A s \in received : Kept(window, s, n)
  BY DEF CorrelationInv, WindowIsWhole, n
<1>9. Ordered(window, n + 1)
  <2>1. \A i \in 1..Len(window) : window[i] \in Signal BY <1>8, ElementOfSeq
  <2>2. \A i \in 1..Len(window) : window[i].got \in Nat BY <2>1 DEF Signal
  <2>3. QED BY <1>2, <1>8, <2>2 DEF Ordered
<1>10. ASSUME NEW s \in received PROVE Kept(window, s, n + 1)
  <2>1. Window \in Nat BY CorrelationAssumption
  <2>2. s.at \in Nat BY <1>2 DEF Arrivals, Signal
  <2>3. s.at + Window < n => s.at + Window < n + 1 BY <1>2, <2>1, <2>2
  <2>4. QED BY <1>8, <2>3 DEF Kept
<1>11. WindowIsWhole' BY <1>1, <1>8, <1>9, <1>10 DEF WindowIsWhole, n
<1>12. MatchIsWhole' BY <1>1 DEF CorrelationInv, MatchIsWhole
<1>13. QED BY <1>7, <1>11, <1>12 DEF CorrelationInv

\* Every step keeps the invariant.
LEMMA CorrelationStep == CorrelationInv /\ [SuiteNext]_allVars => CorrelationInv'
<1> SUFFICES ASSUME CorrelationInv, [SuiteNext]_allVars PROVE CorrelationInv' OBVIOUS
<1>1. CASE UNCHANGED correlationVars
  BY <1>1 DEF CorrelationInv, CorrelationType, WindowIsWhole, MatchIsWhole, correlationVars
<1>2. CASE Correlation!Next
  BY <1>2, PublishKeeps, SampleKeeps, ConclusionKeeps, DrainKeeps, RunKeeps, MarkKeeps,
    TickKeeps DEF Correlation!Next
<1>3. QED BY <1>1, <1>2 DEF SuiteNext, allVars

\* It holds in every reachable state.
LEMMA CorrelationHolds == SuiteSpec => []CorrelationInv
<1>1. SuiteInit => CorrelationInv BY CorrelationStarts
<1>2. CorrelationInv /\ [SuiteNext]_allVars => CorrelationInv' BY CorrelationStep
<1>3. QED BY <1>1, <1>2, PTL DEF SuiteSpec

-----------------------------------------------------------------------------
\* A step that draws a conclusion of rule r is a run, and the rule is satisfied.
LEMMA DrawnByRun ==
  ASSUME [SuiteNext]_allVars, NEW r \in Correlation!RuleNames, Correlation!Draws(r)
  PROVE  Correlation!Run /\ Correlation!Satisfied(r, window')
<1>1. match' # match /\ match'.rule = r BY DEF Correlation!Draws
<1>2. r # "none"
  BY DEF Correlation!RuleNames, Correlation!RuleOrder, Correlation!Saturation,
    Correlation!WiFi, Correlation!DNSSlow, Correlation!VPN, Correlation!ISP
<1>3. match' # Correlation!NoMatch BY <1>1, <1>2 DEF Correlation!NoMatch
<1>4. Correlation!Next BY <1>1 DEF SuiteNext, allVars, correlationVars
<1>5. Correlation!Run
  BY <1>1, <1>3, <1>4 DEF Correlation!Next, Correlation!Publish, Correlation!Sample,
    Correlation!PublishConclusion, Correlation!Drain, Correlation!Mark, Correlation!Tick
<1>6. PICK q \in Correlation!RuleNames :
        /\ Correlation!Satisfied(q, window')
        /\ match' = [rule |-> q, at |-> correlationNow,
                     rows |-> Correlation!Explained(q, window')]
  BY <1>3, <1>5, RunDraws
<1>7. q = r BY <1>1, <1>6
<1>8. QED BY <1>5, <1>6, <1>7

\* What a conclusion requires not to have been seen was not received within the window.
LEMMA AbsentIsReal ==
  ASSUME CorrelationInv, [SuiteNext]_allVars,
         NEW r \in Correlation!RuleNames, Correlation!Draws(r),
         NEW s \in received,
         s.code \in Correlation!Excludes(r) /\ s.code \notin Correlation!Conclusions
  PROVE  s.at + Window < correlationNow
<1>1. Correlation!Run /\ Correlation!Satisfied(r, window') BY DrawnByRun
<1>2. WindowIsWhole' /\ received' = received /\ correlationNow' = correlationNow
  BY <1>1, RunWindow
<1>3. Kept(window', s, correlationNow) /\ window' \in Seq(Signal)
  BY <1>2 DEF WindowIsWhole
<1>4. DOMAIN window' = 1..Len(window') BY <1>3, LenProperties
<1>5. ~\E i \in 1..Len(window') : window'[i].code \in Correlation!Excludes(r)
  BY <1>1, <1>4 DEF Correlation!Satisfied, Correlation!Saw
<1>6. QED BY <1>3, <1>5 DEF Kept

\* A conclusion is drawn from the window, which has all that could speak against it.
LEMMA ConclusionStep ==
  CorrelationInv /\ [SuiteNext]_allVars =>
    \A r \in Correlation!RuleNames : Correlation!Draws(r) =>
      /\ \A s \in received :
           s.code \in Correlation!Excludes(r) /\ s.code \notin Correlation!Conclusions
             => s.at + Window < correlationNow
      /\ \A i \in DOMAIN window' :
           window'[i].got + Window >= correlationNow
             /\ window'[i].code \notin Correlation!Conclusions
<1> SUFFICES ASSUME CorrelationInv, [SuiteNext]_allVars,
                    NEW r \in Correlation!RuleNames, Correlation!Draws(r)
             PROVE  /\ \A s \in received :
                         s.code \in Correlation!Excludes(r)
                           /\ s.code \notin Correlation!Conclusions
                         => s.at + Window < correlationNow
                    /\ \A i \in DOMAIN window' :
                         window'[i].got + Window >= correlationNow
                           /\ window'[i].code \notin Correlation!Conclusions
  OBVIOUS
<1>1. Correlation!Run BY DrawnByRun
<1>2. WindowIsWhole' BY <1>1, RunWindow
<1>3. DOMAIN window' = 1..Len(window') BY <1>2, LenProperties DEF WindowIsWhole
<1>4. QED BY <1>1, <1>3, AbsentIsReal, RunWindow

\* For every window, cooldown and set of events, however late, reordered or unstored they
\* reach the engine: a conclusion is drawn on recent and first-hand evidence, and when it
\* rests on something not having happened, nothing of the kind had reached the engine within
\* the window.  (Engine.Evaluate, Window.trimLocked)
THEOREM SpecConclusionsAreFounded == SuiteSpec => ConclusionsAreFounded
<1>1. CorrelationInv /\ [SuiteNext]_allVars =>
        [\A r \in Correlation!RuleNames : Correlation!Draws(r) =>
           \A s \in received :
             s.code \in Correlation!Excludes(r) /\ s.code \notin Correlation!Conclusions
               => s.at + Window < correlationNow]_(Correlation!vars)
  BY ConclusionStep
<1>2. CorrelationInv /\ [SuiteNext]_allVars =>
        [\A r \in Correlation!RuleNames : Correlation!Draws(r) =>
           \A i \in DOMAIN window' :
             window'[i].got + Window >= correlationNow
               /\ window'[i].code \notin Correlation!Conclusions]_(Correlation!vars)
  BY ConclusionStep
<1>3. SuiteSpec => Correlation!AbsenceIsReal
  BY <1>1, CorrelationHolds, PTL DEF SuiteSpec, Correlation!AbsenceIsReal
<1>4. SuiteSpec => Correlation!EvidenceIsFresh
  BY <1>2, CorrelationHolds, PTL DEF SuiteSpec, Correlation!EvidenceIsFresh
<1>5. QED BY <1>3, <1>4 DEF ConclusionsAreFounded, Correlation!ConclusionsAreFounded

\* The failures are counted.
Counted == faults \in Nat

\* The number of faults is a number, so that equal ones tell that nothing failed.
LEMMA FaultsCounted == SuiteSpec => []Counted
<1>1. SuiteInit => Counted BY DEF SuiteInit, Correlation!Init, Counted
<1>2. Counted /\ [SuiteNext]_allVars => Counted'
  <2> SUFFICES ASSUME faults \in Nat, [SuiteNext]_allVars PROVE faults' \in Nat
    BY DEF Counted
  <2>1. faults' = faults \/ faults' = faults + 1
    BY DEF SuiteNext, allVars, correlationVars, Correlation!Next, Correlation!Publish,
      Correlation!Sample, Correlation!PublishConclusion, Correlation!Drain, Correlation!Run,
      Correlation!Mark, Correlation!Tick, Correlation!Process, Correlation!counters
  <2>2. QED BY <2>1
<1>3. QED BY <1>1, <1>2, PTL DEF SuiteSpec

\* Marking without a fault marks every row that the match names.
LEMMA AbsorbStep ==
  CorrelationInv /\ Counted /\ [SuiteNext]_allVars =>
    (pc = "marking" /\ pc' = "idle" /\ faults' = faults =>
       \A s \in received :
         s.row # Correlation!NoRow
           /\ s.code \in Correlation!Suppresses(match.rule)
           /\ s.at + Window >= match.at
         => rows'[s.row].by = Correlation!IDOf(match))
<1> SUFFICES ASSUME CorrelationInv, faults \in Nat, [SuiteNext]_allVars,
                    pc = "marking", pc' = "idle", faults' = faults,
                    NEW s \in received, s.row # 0,
                    s.code \in Correlation!Suppresses(match.rule),
                    s.at + Window >= match.at
             PROVE  rows'[s.row].by = Correlation!IDOf(match)
  BY DEF Correlation!NoRow, Counted
<1>1. Correlation!Next BY DEF SuiteNext, allVars, correlationVars
<1>2. Correlation!Mark
  BY <1>1 DEF Correlation!Next, Correlation!Publish, Correlation!Sample, Correlation!Run,
    Correlation!PublishConclusion, Correlation!Drain, Correlation!Tick
<1>3. rows' = [i \in DOMAIN rows |->
                 IF i \in match.rows THEN [rows[i] EXCEPT !.by = Correlation!IDOf(match)]
                                     ELSE rows[i]]
  BY <1>2 DEF Correlation!Mark
<1>4. s.row \in match.rows BY DEF CorrelationInv, MatchIsWhole
<1>5. s.row \in 1..Len(rows)
  <2>1. s \in Arrivals(Len(rows)) /\ rows \in Seq(Row)
    BY DEF CorrelationInv, CorrelationType
  <2>2. Len(rows) \in Nat BY <2>1, LenProperties
  <2>3. QED BY <2>1, <2>2 DEF Arrivals, Signal
<1>6. QED BY <1>3, <1>4, <1>5, Marked

\* For every window and set of events, whatever is published, sampled or fails between the
\* conclusion and the statement that marks its symptoms: every symptom that had reached the
\* engine and was young enough is absorbed.  (Engine.Evaluate, DB.MarkSuppressed)
THEOREM SpecSymptomsAreAbsorbed == SuiteSpec => SymptomsAreAbsorbed
<1>1. CorrelationInv /\ Counted /\ [SuiteNext]_allVars =>
        [pc = "marking" /\ pc' = "idle" /\ faults' = faults =>
           \A s \in received :
             /\ s.row # Correlation!NoRow
             /\ s.code \in Correlation!Suppresses(match.rule)
             /\ s.at + Window >= match.at
             => rows'[s.row].by = Correlation!IDOf(match)]_(Correlation!vars)
  BY AbsorbStep
<1>2. QED
  BY <1>1, CorrelationHolds, FaultsCounted, PTL DEF SuiteSpec, SymptomsAreAbsorbed,
    Correlation!SymptomsAreAbsorbed
=============================================================================
