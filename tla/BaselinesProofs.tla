-------------------------- MODULE BaselinesProofs --------------------------
(***************************************************************************)
(* Proofs about the baselines of one metric, for every set of buckets, age *)
(* limit and bound on samples, time, faults and restarts.                  *)
(*                                                                         *)
(* Marked says which baselines are owed to the table; it needs to know of  *)
(* the rows that a flush holds (RowsInHand) that they are the live         *)
(* baselines or earlier states of them, marked again since.  Generations   *)
(* tells a baseline from those that the engine forgot before it.           *)
(***************************************************************************)
EXTENDS Baselines, TLAPS

\* The rows that a flush holds belong to live baselines, and are older only when the
\* bucket has been marked again.
RowsInHand ==
    /\ flushing.flush # "saving" => DOMAIN flushing.rows = {}
    /\ \A b \in DOMAIN flushing.rows :
         /\ b \in DOMAIN baselines
         /\ flushing.rows[b].gen = baselines[b].gen
         /\ flushing.rows[b].samples <= baselines[b].samples
         /\ flushing.rows[b] = baselines[b] \/ b \in dirty

\* A row of a bucket that the engine has forgotten is of an earlier baseline than the
\* one the engine would start now.
Generations ==
    /\ \A b \in DOMAIN baselines : baselines[b].gen <= gen[b]
    /\ \A b \in DOMAIN stored :
         /\ stored[b].gen <= gen[b]
         /\ b \notin DOMAIN baselines => stored[b].gen < gen[b]

\* The engine forgets a bucket at most once in a tick of the clock or a restart.
GenerationsBounded ==
    \A b \in Buckets :
      /\ gen[b] <= now + restarts
      /\ b \in Stale(baselines) => gen[b] < now + restarts

IInv ==
    /\ TypeOK
    /\ RowsInHand /\ Generations /\ GenerationsBounded
    /\ UnsavedIsMarked /\ RowsAreEarlierStates

USE BaselinesAssumption

-----------------------------------------------------------------------------
\* A table is a function from some of the buckets to baselines.
LEMMA TableDef ==
  ASSUME NEW t
  PROVE  t \in Tables <=> /\ t = [b \in DOMAIN t |-> t[b]]
                          /\ DOMAIN t \subseteq Buckets
                          /\ \A b \in DOMAIN t : t[b] \in Baseline
  <1>1. ASSUME t \in Tables
        PROVE  /\ t = [b \in DOMAIN t |-> t[b]]
               /\ DOMAIN t \subseteq Buckets
               /\ \A b \in DOMAIN t : t[b] \in Baseline
    <2>1. PICK D \in SUBSET Buckets : t \in [D -> Baseline]
      BY <1>1 DEF Tables
    <2> QED
      BY <2>1
  <1>2. ASSUME t = [b \in DOMAIN t |-> t[b]], DOMAIN t \subseteq Buckets,
               \A b \in DOMAIN t : t[b] \in Baseline
        PROVE  t \in Tables
    <2>1. t \in [DOMAIN t -> Baseline]
      BY <1>2
    <2> QED
      BY <1>2, <2>1 DEF Tables
  <1> QED
    BY <1>1, <1>2

\* The empty table.
LEMMA EmptyTableFacts == EmptyTable \in Tables /\ DOMAIN EmptyTable = {}
  <1>1. DOMAIN EmptyTable = {}
    BY DEF EmptyTable
  <1>2. EmptyTable = [b \in DOMAIN EmptyTable |-> EmptyTable[b]]
    BY DEF EmptyTable
  <1> QED
    BY <1>1, <1>2, TableDef

\* Merging rows into a table.
LEMMA MergeFacts ==
  ASSUME NEW t \in Tables, NEW r \in Tables
  PROVE  /\ Merge(t, r) \in Tables
         /\ DOMAIN Merge(t, r) = DOMAIN t \cup DOMAIN r
         /\ \A b \in DOMAIN r : Merge(t, r)[b] = r[b]
         /\ \A b \in DOMAIN t \ DOMAIN r : Merge(t, r)[b] = t[b]
  <1> DEFINE m == Merge(t, r)
  <1>1. /\ DOMAIN t \subseteq Buckets /\ \A b \in DOMAIN t : t[b] \in Baseline
        /\ DOMAIN r \subseteq Buckets /\ \A b \in DOMAIN r : r[b] \in Baseline
    BY TableDef
  <1>2. /\ DOMAIN m = DOMAIN t \cup DOMAIN r
        /\ \A b \in DOMAIN t \cup DOMAIN r : m[b] = IF b \in DOMAIN r THEN r[b] ELSE t[b]
        /\ m = [b \in DOMAIN m |-> m[b]]
    BY DEF Merge
  <1> HIDE DEF m
  <1>3. \A b \in DOMAIN m : m[b] \in Baseline
    BY <1>1, <1>2
  <1>4. m \in Tables
    BY <1>1, <1>2, <1>3, TableDef
  <1> QED
    BY <1>2, <1>4 DEF m

\* Removing buckets from a table.
LEMMA WithoutFacts ==
  ASSUME NEW t \in Tables, NEW B
  PROVE  /\ Without(t, B) \in Tables
         /\ DOMAIN Without(t, B) = DOMAIN t \ B
         /\ \A b \in DOMAIN t \ B : Without(t, B)[b] = t[b]
  <1> DEFINE w == Without(t, B)
  <1>1. DOMAIN t \subseteq Buckets /\ \A b \in DOMAIN t : t[b] \in Baseline
    BY TableDef
  <1>2. /\ DOMAIN w = DOMAIN t \ B /\ \A b \in DOMAIN t \ B : w[b] = t[b]
        /\ w = [b \in DOMAIN w |-> w[b]]
    BY DEF Without
  <1> HIDE DEF w
  <1>3. w \in Tables
    BY <1>1, <1>2, TableDef
  <1> QED
    BY <1>2, <1>3 DEF w

\* The fields of a baseline.
LEMMA BaselineFields ==
  ASSUME NEW t \in Tables, NEW b \in DOMAIN t
  PROVE  /\ t[b] \in Baseline /\ b \in Buckets
         /\ t[b].samples \in Nat /\ t[b].gen \in Nat /\ t[b].updated \in Nat
         /\ t[b].samples \in 1..MaxSamples
  <1>1. t[b] \in Baseline /\ b \in Buckets
    BY TableDef
  <1>2. /\ t[b].samples \in 1..MaxSamples /\ t[b].gen \in 0..GenBound
        /\ t[b].updated \in 0..MaxTime
    BY <1>1 DEF Baseline
  <1>3. GenBound \in Nat
    BY DEF GenBound
  <1> QED
    BY <1>1, <1>2, <1>3

-----------------------------------------------------------------------------
\* The initial state: nothing seen, nothing stored.
LEMMA InitIInv == Init => IInv
  <1> SUFFICES ASSUME Init PROVE IInv
    OBVIOUS
  <1>0. /\ DOMAIN baselines = {} /\ DOMAIN stored = {} /\ DOMAIN flushing.rows = {}
        /\ flushing.rows = EmptyTable /\ flushing.flush = "none"
    BY EmptyTableFacts DEF Init, NotFlushing
  <1>1. TypeOK
    <2>1. gen \in [Buckets -> 0..GenBound] /\ now \in 0..MaxTime
          /\ faults \in 0..MaxFaults /\ restarts \in 0..MaxRestarts
      BY DEF Init, GenBound
    <2> QED
      BY <1>0, <2>1, EmptyTableFacts DEF Init, TypeOK
  <1>2. RowsInHand /\ Generations /\ UnsavedIsMarked /\ RowsAreEarlierStates
    BY <1>0 DEF RowsInHand, Generations, UnsavedIsMarked, RowsAreEarlierStates
  <1>3. GenerationsBounded
    BY <1>0 DEF Init, GenerationsBounded, Stale
  <1> QED
    BY <1>1, <1>2, <1>3 DEF IInv

-----------------------------------------------------------------------------
\* Numbers that the type invariant gives.
LEMMA Numbers ==
  ASSUME TypeOK
  PROVE  /\ now \in Nat /\ restarts \in Nat /\ faults \in Nat /\ now <= MaxTime
         /\ restarts <= MaxRestarts
         /\ \A b \in Buckets : gen[b] \in Nat
         /\ \A b \in DOMAIN baselines : b \in Buckets
  <1>1. now \in 0..MaxTime /\ restarts \in 0..MaxRestarts /\ faults \in 0..MaxFaults
        /\ gen \in [Buckets -> 0..GenBound] /\ baselines \in Tables
    BY DEF TypeOK
  <1>2. GenBound \in Nat
    BY DEF GenBound
  <1>3. \A b \in DOMAIN baselines : b \in Buckets
    BY <1>1, TableDef
  <1> QED
    BY <1>1, <1>2, <1>3

\* Engine.Observe's new table: the bucket has one sample more, or starts with the
\* generation that is current; the others are untouched.
LEMMA AddFacts ==
  ASSUME TypeOK, NEW b \in Buckets, Samples(baselines, b) < MaxSamples
  PROVE  /\ Add(b) \in Tables
         /\ DOMAIN Add(b) = DOMAIN baselines \cup {b}
         /\ \A k \in DOMAIN baselines \ {b} : Add(b)[k] = baselines[k]
         /\ Add(b)[b].updated = now
         /\ b \in DOMAIN baselines => /\ Add(b)[b].gen = baselines[b].gen
                                      /\ Add(b)[b].samples = baselines[b].samples + 1
         /\ b \notin DOMAIN baselines => Add(b)[b].gen = gen[b]
  <1> DEFINE n == Samples(baselines, b) + 1
             g == IF b \in DOMAIN baselines THEN baselines[b].gen ELSE gen[b]
             new == [samples |-> n, updated |-> now, gen |-> g]
             row == [k \in {b} |-> new]
  <1>1. baselines \in Tables /\ now \in 0..MaxTime /\ gen \in [Buckets -> 0..GenBound]
    BY DEF TypeOK
  <1>2. n \in 1..MaxSamples
    <2>1. CASE b \in DOMAIN baselines
      BY <1>1, <2>1, BaselineFields DEF Samples
    <2>2. CASE b \notin DOMAIN baselines
      BY <2>2 DEF Samples
    <2> QED
      BY <2>1, <2>2
  <1>3. g \in 0..GenBound
    <2>1. CASE b \in DOMAIN baselines
      <3>1. baselines[b] \in Baseline
        BY <1>1, <2>1, BaselineFields
      <3> QED
        BY <2>1, <3>1 DEF Baseline
    <2>2. CASE b \notin DOMAIN baselines
      BY <1>1, <2>2
    <2> QED
      BY <2>1, <2>2
  <1>4. b \in DOMAIN baselines => n = baselines[b].samples + 1 /\ g = baselines[b].gen
    BY DEF Samples
  <1>5. b \notin DOMAIN baselines => g = gen[b]
    OBVIOUS
  <1>6. Add(b) = Merge(baselines, row)
    BY DEF Add
  <1> HIDE DEF n, g
  <1>7. new \in Baseline /\ new.samples = n /\ new.updated = now /\ new.gen = g
    BY <1>1, <1>2, <1>3 DEF Baseline
  <1> HIDE DEF new
  <1>8. DOMAIN row = {b} /\ row[b] = new /\ row \in Tables
    <2>1. DOMAIN row = {b} /\ row[b] = new /\ row = [k \in DOMAIN row |-> row[k]]
      OBVIOUS
    <2> HIDE DEF row
    <2>2. DOMAIN row \subseteq Buckets /\ \A k \in DOMAIN row : row[k] \in Baseline
      BY <1>7, <2>1
    <2> QED
      BY <2>1, <2>2, TableDef
  <1> HIDE DEF row
  <1>9. /\ Merge(baselines, row) \in Tables
        /\ DOMAIN Merge(baselines, row) = DOMAIN baselines \cup {b}
        /\ Merge(baselines, row)[b] = new
        /\ \A k \in DOMAIN baselines \ {b} : Merge(baselines, row)[k] = baselines[k]
    <2> DEFINE m == Merge(baselines, row)
    <2>1. /\ m \in Tables
          /\ DOMAIN m = DOMAIN baselines \cup DOMAIN row
          /\ \A k \in DOMAIN row : m[k] = row[k]
          /\ \A k \in DOMAIN baselines \ DOMAIN row : m[k] = baselines[k]
      BY <1>1, <1>8, MergeFacts
    <2> HIDE DEF m
    <2>2. m[b] = new
      BY <1>8, <2>1
    <2> QED
      BY <1>8, <2>1, <2>2 DEF m
  <1> QED
    BY <1>4, <1>5, <1>6, <1>7, <1>9

\* Engine.Observe marks the bucket.
LEMMA ObserveIInv ==
  ASSUME IInv, NEW b \in Buckets, Observe(b)
  PROVE  IInv'
  <1>0. TypeOK
    BY DEF IInv
  <1>1. /\ baselines' = Add(b) /\ dirty' = dirty \cup {b}
        /\ UNCHANGED <<flushing, stored, now, gen, faults, restarts>>
    BY DEF Observe
  <1>2. /\ baselines' \in Tables
        /\ DOMAIN baselines' = DOMAIN baselines \cup {b}
        /\ \A k \in DOMAIN baselines \ {b} : baselines'[k] = baselines[k]
        /\ baselines'[b].updated = now
        /\ b \in DOMAIN baselines => /\ baselines'[b].gen = baselines[b].gen
                                     /\ baselines'[b].samples = baselines[b].samples + 1
        /\ b \notin DOMAIN baselines => baselines'[b].gen = gen[b]
    BY <1>0, <1>1, AddFacts DEF Observe
  <1>3. TypeOK'
    BY <1>0, <1>1, <1>2 DEF TypeOK
  <1>4. RowsInHand'
    <2>1. \A k \in DOMAIN flushing.rows :
            /\ flushing.rows[k].samples \in Nat
            /\ baselines[k].samples \in Nat
      BY <1>0, BaselineFields DEF IInv, RowsInHand, TypeOK
    <2> QED
      BY <1>1, <1>2, <2>1 DEF IInv, RowsInHand
  <1>5. Generations'
    <2>1. \A k \in Buckets : gen[k] \in Nat
      BY <1>0, Numbers
    <2>2. \A k \in DOMAIN baselines' : baselines'[k].gen <= gen[k]
      BY <1>0, <1>2, <2>1 DEF IInv, Generations
    <2> QED
      BY <1>1, <1>2, <2>2 DEF IInv, Generations
  <1>6. GenerationsBounded'
    <2>1. Stale(baselines)' \subseteq Stale(baselines)
      <3>1. now - now <= MaxAge
        BY <1>0, Numbers
      <3>2. ASSUME NEW k \in Stale(baselines)' PROVE k \in Stale(baselines)
        <4>1. k \in DOMAIN baselines' /\ now - baselines'[k].updated > MaxAge
          BY <1>1, <3>2 DEF Stale
        <4>2. k # b
          BY <1>0, <1>2, <3>1, <4>1, Numbers
        <4> QED
          BY <1>2, <4>1, <4>2 DEF Stale
      <3> QED
        BY <3>2
    <2> QED
      BY <1>1, <2>1 DEF IInv, GenerationsBounded
  <1>7. UnsavedIsMarked'
    <2> SUFFICES ASSUME faults = 0, NEW k \in DOMAIN baselines'
                 PROVE  \/ (k \in DOMAIN stored /\ stored[k] = baselines'[k])
                        \/ k \in Stale(baselines)'
                        \/ k \in dirty'
                        \/ k \in DOMAIN flushing.rows /\ flushing.rows[k] = baselines'[k]
      BY <1>1 DEF UnsavedIsMarked, Saved
    <2>1. CASE k = b
      BY <1>1, <2>1
    <2>2. CASE k # b
      <3>1. k \in DOMAIN baselines /\ baselines'[k] = baselines[k]
        BY <1>2, <2>2
      <3>2. k \in Stale(baselines) => k \in Stale(baselines)'
        BY <1>1, <1>2, <3>1 DEF Stale
      <3> QED
        BY <1>1, <3>1, <3>2 DEF IInv, UnsavedIsMarked, Saved
    <2> QED
      BY <2>1, <2>2
  <1>8. RowsAreEarlierStates'
    <2> SUFFICES ASSUME NEW k \in DOMAIN baselines' \cap DOMAIN stored,
                        stored[k].gen = baselines'[k].gen
                 PROVE  stored[k].samples <= baselines'[k].samples
      BY <1>1 DEF IInv, RowsAreEarlierStates
    <2>1. CASE k # b
      BY <1>2, <2>1 DEF IInv, RowsAreEarlierStates
    <2>2. CASE k = b /\ b \in DOMAIN baselines
      <3>1. stored[b].samples \in Nat /\ baselines[b].samples \in Nat
        BY <1>0, <2>2, BaselineFields DEF TypeOK
      <3>2. stored[b].samples <= baselines[b].samples
        BY <1>2, <2>2 DEF IInv, RowsAreEarlierStates
      <3> QED
        BY <1>2, <2>2, <3>1, <3>2
    <2>3. CASE k = b /\ b \notin DOMAIN baselines
      <3>1. stored[b].gen < gen[b] /\ stored[b].gen = gen[b]
        BY <1>2, <2>3 DEF IInv, Generations
      <3>2. gen[b] \in Nat
        BY <1>0, Numbers
      <3> QED
        BY <3>1, <3>2
    <2> QED
      BY <2>1, <2>2, <2>3
  <1> QED
    BY <1>3, <1>4, <1>5, <1>6, <1>7, <1>8 DEF IInv

-----------------------------------------------------------------------------
\* Engine.TakeDirty: the marks pass to the rows in hand.
LEMMA TakeDirtyIInv ==
  ASSUME IInv, TakeDirty
  PROVE  IInv'
  <1>0. TypeOK /\ baselines \in Tables /\ dirty \subseteq DOMAIN baselines
    BY DEF IInv, TypeOK
  <1> DEFINE r == [b \in dirty |-> baselines[b]]
  <1>1. /\ DOMAIN r = dirty /\ \A b \in dirty : r[b] = baselines[b]
        /\ r = [b \in DOMAIN r |-> r[b]]
    OBVIOUS
  <1>2. /\ flushing.flush = "none" /\ flushing' = Flush("saving", r) /\ dirty' = {}
        /\ UNCHANGED <<baselines, stored, now, gen, faults, restarts>>
    BY DEF TakeDirty
  <1> HIDE DEF r
  <1>3. r \in Tables
    BY <1>0, <1>1, TableDef
  <1>4. flushing'.flush = "saving" /\ flushing'.rows = r
    BY <1>2 DEF Flush
  <1>5. TypeOK'
    BY <1>0, <1>2, <1>3, <1>4 DEF TypeOK
  <1>6. RowsInHand'
    <2>1. \A b \in DOMAIN r : r[b].samples <= baselines[b].samples
      BY <1>0, <1>1, BaselineFields
    <2> QED
      BY <1>0, <1>1, <1>2, <1>4, <2>1 DEF RowsInHand
  <1>7. Generations'
    BY <1>2 DEF IInv, Generations
  <1>8. GenerationsBounded'
    BY <1>2 DEF IInv, GenerationsBounded, Stale
  <1>9. UnsavedIsMarked'
    <2>1. \A b : b \notin DOMAIN flushing.rows
      BY <1>2 DEF IInv, RowsInHand
    <2> QED
      BY <1>1, <1>2, <1>4, <2>1 DEF IInv, UnsavedIsMarked, Saved, Stale
  <1>10. RowsAreEarlierStates'
    BY <1>0, <1>1, <1>2, <1>4 DEF IInv, RowsAreEarlierStates
  <1> QED
    BY <1>5, <1>6, <1>7, <1>8, <1>9, <1>10 DEF IInv

\* SaveBaselines commits the rows in hand.
LEMMA SaveIInv ==
  ASSUME IInv, Save
  PROVE  IInv'
  <1>0. /\ TypeOK /\ baselines \in Tables /\ stored \in Tables
        /\ flushing.rows \in Tables /\ flushing.flush = "saving"
    BY DEF IInv, TypeOK, Save
  <1> DEFINE r == flushing.rows
  <1>1. /\ stored' = Merge(stored, r) /\ flushing' = Flush("pruning", EmptyTable)
        /\ UNCHANGED <<baselines, dirty, now, gen, faults, restarts>>
    BY DEF Save
  <1>2. /\ stored' \in Tables
        /\ DOMAIN stored' = DOMAIN stored \cup DOMAIN r
        /\ \A b \in DOMAIN r : stored'[b] = r[b]
        /\ \A b \in DOMAIN stored \ DOMAIN r : stored'[b] = stored[b]
    BY <1>0, <1>1, MergeFacts
  <1>3. flushing'.flush = "pruning" /\ flushing'.rows = EmptyTable /\ DOMAIN flushing'.rows = {}
    BY <1>1, EmptyTableFacts DEF Flush
  <1>4. TypeOK'
    BY <1>0, <1>1, <1>2, <1>3, EmptyTableFacts DEF TypeOK
  <1>5. RowsInHand'
    BY <1>3 DEF RowsInHand
  <1>6. \A b \in DOMAIN r : /\ b \in DOMAIN baselines
                            /\ r[b].gen = baselines[b].gen
                            /\ r[b].samples <= baselines[b].samples
                            /\ r[b] = baselines[b] \/ b \in dirty
    BY DEF IInv, RowsInHand
  <1>7. Generations'
    BY <1>1, <1>2, <1>6 DEF IInv, Generations
  <1>8. GenerationsBounded'
    BY <1>1 DEF IInv, GenerationsBounded, Stale
  <1>9. UnsavedIsMarked'
    <2> SUFFICES ASSUME faults = 0, NEW b \in DOMAIN baselines
                 PROVE  \/ (b \in DOMAIN stored' /\ stored'[b] = baselines[b])
                        \/ b \in Stale(baselines)
                        \/ b \in dirty
      BY <1>1 DEF UnsavedIsMarked, Saved, Stale
    <2>1. CASE b \in DOMAIN r
      BY <1>2, <1>6, <2>1
    <2>2. CASE b \notin DOMAIN r
      BY <1>2, <2>2 DEF IInv, UnsavedIsMarked, Saved
    <2> QED
      BY <2>1, <2>2
  <1>10. RowsAreEarlierStates'
    BY <1>1, <1>2, <1>3, <1>6 DEF IInv, RowsAreEarlierStates
  <1> QED
    BY <1>4, <1>5, <1>7, <1>8, <1>9, <1>10 DEF IInv

\* The transaction fails: from here on a statement has failed.
LEMMA SaveFailsIInv ==
  ASSUME IInv, SaveFails
  PROVE  IInv'
  <1>1. /\ faults < MaxFaults /\ faults' = faults + 1 /\ flushing' = NotFlushing
        /\ UNCHANGED <<baselines, dirty, stored, now, gen, restarts>>
    BY DEF SaveFails
  <1>2. flushing'.flush = "none" /\ flushing'.rows = EmptyTable /\ DOMAIN flushing'.rows = {}
    BY <1>1, EmptyTableFacts DEF NotFlushing
  <1>3. faults' \in 0..MaxFaults /\ faults' # 0
    <2>1. faults \in 0..MaxFaults
      BY DEF IInv, TypeOK
    <2> QED
      BY <1>1, <2>1
  <1>4. TypeOK'
    BY <1>1, <1>2, <1>3, EmptyTableFacts DEF IInv, TypeOK
  <1>5. RowsInHand' /\ RowsAreEarlierStates' /\ UnsavedIsMarked'
    BY <1>1, <1>2, <1>3 DEF IInv, RowsInHand, RowsAreEarlierStates, UnsavedIsMarked
  <1>6. Generations'
    BY <1>1 DEF IInv, Generations
  <1>7. GenerationsBounded'
    BY <1>1 DEF IInv, GenerationsBounded, Stale
  <1> QED
    BY <1>4, <1>5, <1>6, <1>7 DEF IInv

\* Engine.Prune forgets the stale baselines; a row of one is now of an earlier
\* generation.
LEMMA PruneIInv ==
  ASSUME IInv, Prune
  PROVE  IInv'
  <1>0. TypeOK /\ baselines \in Tables /\ stored \in Tables
    BY DEF IInv, TypeOK
  <1>1. /\ flushing.flush = "pruning" /\ flushing' = NotFlushing
        /\ baselines' = Without(baselines, Stale(baselines))
        /\ dirty' = dirty \ Stale(baselines)
        /\ gen' = [b \in Buckets |-> IF b \in Stale(baselines) THEN gen[b] + 1 ELSE gen[b]]
        /\ UNCHANGED <<stored, now, faults, restarts>>
    BY DEF Prune
  <1> DEFINE St == Stale(baselines)
  <1>2. /\ baselines' \in Tables /\ DOMAIN baselines' = DOMAIN baselines \ St
        /\ \A b \in DOMAIN baselines \ St : baselines'[b] = baselines[b]
    BY <1>0, <1>1, WithoutFacts
  <1>3. flushing'.flush = "none" /\ flushing'.rows = EmptyTable /\ DOMAIN flushing'.rows = {}
    BY <1>1, EmptyTableFacts DEF NotFlushing
  <1>4. \A b \in DOMAIN baselines' : b \notin St /\ b \notin Stale(baselines)'
    <2>1. \A b \in DOMAIN baselines' : b \in DOMAIN baselines /\ b \notin St /\ baselines'[b] = baselines[b]
      BY <1>2
    <2> QED
      BY <1>1, <2>1 DEF Stale
  <1>5. /\ \A b \in Buckets : gen[b] \in Nat
        /\ \A b \in Buckets : gen'[b] = IF b \in St THEN gen[b] + 1 ELSE gen[b]
        /\ now \in Nat /\ restarts \in Nat /\ now <= MaxTime /\ restarts <= MaxRestarts
    BY <1>0, <1>1, Numbers
  <1>6. \A b \in Buckets : gen[b] <= now + restarts /\ (b \in St => gen[b] < now + restarts)
    BY DEF IInv, GenerationsBounded
  <1> HIDE DEF St
  <1>7. \A b \in Buckets : gen'[b] \in Nat /\ gen'[b] <= now + restarts
    BY <1>5, <1>6
  <1>8. gen' \in [Buckets -> 0..GenBound]
    <2>1. \A b \in Buckets : gen'[b] \in 0..GenBound
      BY <1>5, <1>7 DEF GenBound
    <2>2. gen' = [b \in Buckets |-> gen'[b]]
      BY <1>1
    <2> QED
      BY <2>1, <2>2
  <1>9. TypeOK'
    <2>1. dirty' \subseteq DOMAIN baselines'
      BY <1>0, <1>1, <1>2 DEF TypeOK, St
    <2> QED
      BY <1>0, <1>1, <1>2, <1>3, <1>8, <2>1, EmptyTableFacts DEF TypeOK
  <1>10. RowsInHand'
    BY <1>3 DEF RowsInHand
  <1>11. GenerationsBounded'
    <2>1. \A b \in Stale(baselines)' : b \in DOMAIN baselines'
      BY DEF Stale
    <2> QED
      BY <1>1, <1>4, <1>7, <2>1 DEF GenerationsBounded
  <1>12. Generations'
    <2>1. \A b \in DOMAIN baselines' : baselines'[b].gen <= gen'[b]
      <3>1. \A b \in DOMAIN baselines : b \in Buckets /\ baselines[b].gen <= gen[b]
        BY <1>0, Numbers DEF IInv, Generations
      <3> QED
        BY <1>2, <1>4, <1>5, <3>1
    <2>2. ASSUME NEW b \in DOMAIN stored
          PROVE  /\ stored[b].gen <= gen'[b]
                 /\ b \notin DOMAIN baselines' => stored[b].gen < gen'[b]
      <3>1. /\ b \in Buckets /\ stored[b].gen \in Nat /\ stored[b].gen <= gen[b]
            /\ b \notin DOMAIN baselines => stored[b].gen < gen[b]
        BY <1>0, BaselineFields DEF IInv, Generations
      <3> QED
        BY <1>2, <1>5, <3>1
    <2> QED
      BY <1>1, <2>1, <2>2 DEF Generations
  <1>13. UnsavedIsMarked'
    <2> SUFFICES ASSUME faults = 0, NEW b \in DOMAIN baselines'
                 PROVE  (b \in DOMAIN stored /\ stored[b] = baselines'[b]) \/ b \in dirty'
      BY <1>1 DEF UnsavedIsMarked, Saved
    <2>1. b \in DOMAIN baselines /\ baselines'[b] = baselines[b] /\ b \notin Stale(baselines)
      BY <1>2, <1>4 DEF St
    <2>2. b \notin DOMAIN flushing.rows
      BY <1>1 DEF IInv, RowsInHand
    <2> QED
      BY <1>1, <2>1, <2>2 DEF IInv, UnsavedIsMarked, Saved
  <1>14. RowsAreEarlierStates'
    BY <1>1, <1>2, <1>3, <1>4 DEF IInv, RowsAreEarlierStates
  <1> QED
    BY <1>9, <1>10, <1>11, <1>12, <1>13, <1>14 DEF IInv

-----------------------------------------------------------------------------
\* DB.PruneBaselines deletes only rows whose baseline, if it is theirs, is stale too.
LEMMA PruneRowsIInv ==
  ASSUME IInv, PruneRows
  PROVE  IInv'
  <1>0. TypeOK /\ stored \in Tables
    BY DEF IInv, TypeOK
  <1>1. /\ stored' = Without(stored, Stale(stored))
        /\ UNCHANGED <<baselines, dirty, flushing, now, gen, faults, restarts>>
    BY DEF PruneRows
  <1>2. /\ stored' \in Tables /\ DOMAIN stored' = DOMAIN stored \ Stale(stored)
        /\ \A b \in DOMAIN stored \ Stale(stored) : stored'[b] = stored[b]
    BY <1>0, <1>1, WithoutFacts
  <1>3. TypeOK'
    BY <1>0, <1>1, <1>2 DEF TypeOK
  <1>4. RowsInHand' /\ Generations' /\ RowsAreEarlierStates'
    BY <1>1, <1>2 DEF IInv, RowsInHand, Generations, RowsAreEarlierStates
  <1>5. GenerationsBounded'
    BY <1>1 DEF IInv, GenerationsBounded, Stale
  <1>6. UnsavedIsMarked'
    <2> SUFFICES ASSUME faults = 0, NEW b \in DOMAIN baselines
                 PROVE  \/ (b \in DOMAIN stored' /\ stored'[b] = baselines[b])
                        \/ b \in Stale(baselines)
                        \/ b \in dirty
                        \/ b \in DOMAIN flushing.rows /\ flushing.rows[b] = baselines[b]
      BY <1>1 DEF UnsavedIsMarked, Saved, Stale
    <2>1. CASE b \in DOMAIN stored /\ stored[b] = baselines[b] /\ b \in Stale(stored)
      BY <2>1 DEF Stale
    <2>2. CASE b \in DOMAIN stored /\ stored[b] = baselines[b] /\ b \notin Stale(stored)
      BY <1>2, <2>2
    <2> QED
      BY <2>1, <2>2 DEF IInv, UnsavedIsMarked, Saved
  <1> QED
    BY <1>3, <1>4, <1>5, <1>6 DEF IInv

\* A restart loads the table, or starts afresh: no bucket is live and unsaved.
LEMMA RestartIInv ==
  ASSUME IInv, Restart
  PROVE  IInv'
  <1>0. /\ TypeOK /\ stored \in Tables /\ now \in Nat /\ restarts \in Nat
        /\ now <= MaxTime /\ restarts <= MaxRestarts
        /\ \A b \in Buckets : gen[b] \in Nat
    BY Numbers DEF IInv, TypeOK
  <1>1. /\ restarts < MaxRestarts /\ restarts' = restarts + 1
        /\ dirty' = {} /\ flushing' = NotFlushing
        /\ UNCHANGED <<stored, now>>
    BY DEF Restart
  <1>2. flushing'.flush = "none" /\ flushing'.rows = EmptyTable /\ DOMAIN flushing'.rows = {}
    BY <1>1, EmptyTableFacts DEF NotFlushing
  <1>3. restarts' \in 0..MaxRestarts
    BY <1>0, <1>1
  <1>4. RowsInHand'
    BY <1>2 DEF RowsInHand
  <1>5. \A b \in Buckets : gen[b] <= now + restarts
    BY DEF IInv, GenerationsBounded
  <1>6. \A b \in DOMAIN stored : b \in Buckets /\ stored[b].gen \in Nat /\ stored[b].gen <= gen[b]
                                 /\ stored[b].samples \in Nat
    BY <1>0, BaselineFields DEF IInv, Generations
  <1>7. CASE baselines' = stored /\ UNCHANGED <<gen, faults>>
    <2>1. TypeOK'
      BY <1>0, <1>1, <1>2, <1>3, <1>7, EmptyTableFacts DEF TypeOK
    <2>2. Generations'
      BY <1>1, <1>6, <1>7 DEF Generations
    <2>3. \A b \in Buckets : gen'[b] < now' + restarts'
      BY <1>0, <1>1, <1>5, <1>7
    <2>4. GenerationsBounded'
      BY <1>0, <1>1, <1>7, <2>3 DEF GenerationsBounded
    <2>5. UnsavedIsMarked'
      BY <1>1, <1>7 DEF UnsavedIsMarked, Saved
    <2>6. RowsAreEarlierStates'
      BY <1>1, <1>2, <1>6, <1>7 DEF RowsAreEarlierStates
    <2> QED
      BY <1>4, <2>1, <2>2, <2>4, <2>5, <2>6 DEF IInv
  <1>8. CASE /\ faults < MaxFaults /\ faults' = faults + 1 /\ baselines' = EmptyTable
             /\ gen' = [b \in Buckets |-> IF b \in DOMAIN stored THEN gen[b] + 1 ELSE gen[b]]
    <2>0. DOMAIN baselines' = {}
      BY <1>8, EmptyTableFacts
    <2>1. \A b \in Buckets : /\ gen'[b] = (IF b \in DOMAIN stored THEN gen[b] + 1 ELSE gen[b])
                             /\ gen'[b] \in Nat /\ gen'[b] <= now + restarts'
      BY <1>0, <1>1, <1>5, <1>8
    <2>2. gen' \in [Buckets -> 0..GenBound]
      <3>1. \A b \in Buckets : gen'[b] \in 0..GenBound
        BY <1>0, <1>1, <2>1 DEF GenBound
      <3>2. gen' = [b \in Buckets |-> gen'[b]]
        BY <1>8
      <3> QED
        BY <3>1, <3>2
    <2>3. faults' \in 0..MaxFaults /\ faults' # 0
      <3>1. faults \in 0..MaxFaults
        BY <1>0 DEF TypeOK
      <3> QED
        BY <1>8, <3>1
    <2>4. TypeOK'
      BY <1>0, <1>1, <1>2, <1>3, <1>8, <2>0, <2>2, <2>3, EmptyTableFacts DEF TypeOK
    <2>5. Generations'
      BY <1>0, <1>1, <1>6, <2>0, <2>1 DEF Generations
    <2>6. GenerationsBounded'
      BY <1>1, <2>0, <2>1 DEF GenerationsBounded, Stale
    <2>7. UnsavedIsMarked' /\ RowsAreEarlierStates'
      BY <1>2, <2>0, <2>3 DEF UnsavedIsMarked, RowsAreEarlierStates
    <2> QED
      BY <1>4, <2>4, <2>5, <2>6, <2>7 DEF IInv
  <1> QED
    BY <1>7, <1>8 DEF Restart

\* The clock makes baselines stale, and leaves room for one more generation.
LEMMA ClockIInv ==
  ASSUME IInv, Clock
  PROVE  IInv'
  <1>0. /\ TypeOK /\ baselines \in Tables /\ now \in Nat /\ restarts \in Nat /\ now <= MaxTime
        /\ \A b \in Buckets : gen[b] \in Nat
    BY Numbers DEF IInv, TypeOK
  <1>1. /\ now < MaxTime /\ now' = now + 1
        /\ UNCHANGED <<baselines, dirty, flushing, stored, gen, faults, restarts>>
    BY DEF Clock
  <1>2. TypeOK'
    <2>1. now' \in 0..MaxTime
      BY <1>0, <1>1
    <2> QED
      BY <1>0, <1>1, <2>1 DEF TypeOK
  <1>3. RowsInHand' /\ Generations' /\ RowsAreEarlierStates'
    BY <1>1 DEF IInv, RowsInHand, Generations, RowsAreEarlierStates
  <1>4. GenerationsBounded'
    <2>1. \A b \in Buckets : gen[b] <= now + restarts
      BY DEF IInv, GenerationsBounded
    <2> QED
      BY <1>0, <1>1, <2>1 DEF GenerationsBounded
  <1>5. Stale(baselines) \subseteq Stale(baselines)'
    <2>1. \A b \in DOMAIN baselines : baselines[b].updated \in Nat
      BY <1>0, BaselineFields
    <2> QED
      BY <1>0, <1>1, <2>1 DEF Stale
  <1>6. UnsavedIsMarked'
    BY <1>1, <1>5 DEF IInv, UnsavedIsMarked, Saved
  <1> QED
    BY <1>2, <1>3, <1>4, <1>6 DEF IInv

-----------------------------------------------------------------------------
\* Every step of the collectors, the tasks and the clock preserves the invariant.
LEMMA NextIInv == IInv /\ [Next]_vars => IInv'
  <1> SUFFICES ASSUME IInv, [Next]_vars PROVE IInv'
    OBVIOUS
  <1>1. ASSUME NEW b \in Buckets, Observe(b) PROVE IInv'
    BY <1>1, ObserveIInv
  <1>2. CASE FlushTask
    BY <1>2, TakeDirtyIInv, SaveIInv, PruneIInv DEF FlushTask
  <1>3. CASE SaveFails
    BY <1>3, SaveFailsIInv
  <1>4. CASE PruneRows
    BY <1>4, PruneRowsIInv
  <1>5. CASE Restart
    BY <1>5, RestartIInv
  <1>6. CASE Clock
    BY <1>6, ClockIInv
  <1>7. CASE UNCHANGED vars
    BY <1>7 DEF IInv, TypeOK, RowsInHand, Generations, GenerationsBounded, UnsavedIsMarked,
                Saved, Stale, RowsAreEarlierStates, vars
  <1> QED
    BY <1>1, <1>2, <1>3, <1>4, <1>5, <1>6, <1>7 DEF Next

\* The inductive invariant holds throughout.
LEMMA SpecIInv == Spec => []IInv
  BY InitIInv, NextIInv, PTL DEF Spec

\* Every variable keeps its type; in particular the bound on generations is never met,
\* so that it excludes no behaviour of the engine.
THEOREM SpecTypeOK == Spec => []TypeOK
  BY SpecIInv, PTL DEF IInv

\* However samples, flushes, retention and restarts interleave, an unsaved baseline is
\* marked or in the hands of a flush, and the table never runs ahead of the engine.
\* (Engine.Observe, TakeDirty, Prune; SaveBaselines, PruneBaselines)
THEOREM SpecRowsFollowEngine == Spec => []RowsFollowEngine
  <1>1. IInv => RowsFollowEngine
    BY DEF IInv, RowsFollowEngine
  <1> QED
    BY <1>1, SpecIInv, PTL

\* A flush never saves a row of a baseline that the engine has forgotten meanwhile, nor
\* an older state of one that is not marked again.  (Engine.TakeDirty, Prune)
THEOREM SpecRowsInHand == Spec => []RowsInHand
  BY SpecIInv, PTL DEF IInv
=============================================================================
