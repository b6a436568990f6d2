----------------------------- MODULE HostProofs ------------------------------
(***************************************************************************)
(* Proofs about the components of Host, for every value of their           *)
(* constants.  Each has an inductive invariant of its own; a step of Host  *)
(* is a step of one component, and the others stutter, so that each        *)
(* invariant is one of Host.                                               *)
(***************************************************************************)
EXTENDS Host, FiniteSetTheorems, WellFoundedInduction, TLAPS

-----------------------------------------------------------------------------
(***************************************************************************)
(* The service.  While the supervisor calls the service active there may   *)
(* be an agent, and otherwise there is none: a systemd command therefore   *)
(* waits for the agent when it waits for the unit.  From then on nothing   *)
(* starts the agent again before the directories are gone.                 *)
(***************************************************************************)
StopHolds ==
  /\ command.op = "directories" => ~command.waits
  /\ platform = "systemd" /\ command.heard /\ command.op \in Service!Removing \cup {"directories"} =>
    /\ ~wanted
    /\ ~command.waits => state \notin Service!Active

ServiceInv == Service!TypeOK /\ Service!ServiceIsHonest /\ StopHolds

\* The actions of the handler and of the supervisor keep the invariant.
LEMMA AgentSteps ==
  ASSUME ServiceInv,
         \/ Service!Ready \/ Service!AgentReturns \/ Service!Crash \/ Service!GiveUp
         \/ Service!Recover \/ Service!Tick
  PROVE  ServiceInv'
<1> USE DEF ServiceInv, StopHolds, Service!TypeOK, Service!ServiceIsHonest, Service!Active,
            Service!Removing, Service!Enter, Service!Launch, Service!Returned, Service!Ended,
            Service!host, Service!shell
<1>1. CASE Service!Ready BY <1>1 DEF Service!Ready
<1>. DEFINE Ends(how) == Service!Returned(how)
<1>2. ASSUME NEW how \in {"ok", "error", "killed"}, Ends(how) PROVE ServiceInv' BY <1>2
<1>. HIDE DEF Ends
<1>3. CASE Service!AgentReturns \/ Service!Crash \/ Service!GiveUp
  <2>1. Ends("ok") \/ Ends("error") \/ Ends("killed")
    BY <1>3 DEF Ends, Service!AgentReturns, Service!Crash, Service!GiveUp
  <2>2. QED BY <2>1, <1>2
<1>5. CASE Service!Recover
  BY <1>5 DEF Service!Recover, Service!SCMRestarts, Service!SystemdRestarts
<1>6. CASE Service!Tick BY <1>6 DEF Service!Tick
<1>7. QED BY <1>1, <1>3, <1>5, <1>6

\* The commands keep it.
LEMMA CommandSteps ==
  ASSUME ServiceInv, Service!Commands
  PROVE  ServiceInv'
<1> USE DEF ServiceInv, StopHolds, Service!TypeOK, Service!ServiceIsHonest, Service!Active,
            Service!Removing, Service!Enter, Service!Launch, Service!host, Service!shell,
            Service!Done, Service!Begin, Service!NoCommand
<1>1. ASSUME NEW go \in BOOLEAN, Service!Install(go) PROVE ServiceInv'
  BY <1>1 DEF Service!Install
<1>2. CASE Service!Start BY <1>2 DEF Service!Start
<1>3. ASSUME NEW op \in {"stop", "restart"} \cup Service!Removing, NEW heard \in BOOLEAN,
             Service!AskToStop(op, heard)
      PROVE  ServiceInv'
  BY <1>3 DEF Service!AskToStop, Service!RequestStop, Service!Stoppable
<1>4. CASE Service!WaitFails BY <1>4 DEF Service!WaitFails
<1>5. CASE Service!StopEnds BY <1>5 DEF Service!StopEnds
<1>6. CASE Service!RestartEnds BY <1>6 DEF Service!RestartEnds
<1>7. CASE Service!UninstallGoesOn
  <2>1. platform = "windows" \/ state \notin Service!Active
    BY <1>7 DEF Service!UninstallGoesOn, Service!WaitIsOver
  <2>2. QED BY <1>7, <2>1 DEF Service!UninstallGoesOn
<1>8. ASSUME NEW fails \in BOOLEAN, Service!Delete(fails) PROVE ServiceInv'
  BY <1>8 DEF Service!Delete
<1>9. CASE Service!RemoveDirectories BY <1>9 DEF Service!RemoveDirectories
<1>10. QED BY <1>1, <1>2, <1>3, <1>4, <1>5, <1>6, <1>7, <1>8, <1>9 DEF Service!Commands

\* It holds at first, and in every step.
LEMMA ServiceInduction ==
  /\ Service!Init => ServiceInv
  /\ ServiceInv /\ [Service!Next]_(Service!vars) => ServiceInv'
<1>1. Service!Init => ServiceInv
  BY DEF Service!Init, ServiceInv, StopHolds, Service!TypeOK, Service!ServiceIsHonest,
         Service!Active, Service!NoCommand
<1>2. ASSUME ServiceInv, UNCHANGED Service!vars PROVE ServiceInv'
  BY <1>2 DEF Service!vars, Service!host, Service!shell, ServiceInv, StopHolds,
              Service!TypeOK, Service!ServiceIsHonest, Service!Active
<1>3. QED BY <1>1, <1>2, AgentSteps, CommandSteps DEF Service!Next

-----------------------------------------------------------------------------
(***************************************************************************)
(* The database.  The versions are 1 to the newest; a process that is past *)
(* reading the version has not read or reached more than there is, so that *)
(* the version it adds is the next one or is there already.                *)
(***************************************************************************)


VersionsAreWhole ==
  /\ \E n \in Nat : versions = 1..n
  /\ \A v \in versions : Database!Statements(v) \subseteq content
  /\ \A c \in content : c[1] \in versions \/ \E b \in 1..batches : c[1] = -b

BatchesAreWhole ==
  /\ batches \in Nat
  /\ \A b \in Nat \ {0} : <<-b, 1>> \in content <=> <<-b, 2>> \in content

\* What each process has read, and what its transaction holds.
ProcessIsRight(p) ==
  /\ cur[p] \in Nat
  /\ at[p] \in {"migrate", "migrating"} => 1..cur[p] \subseteq versions /\ p \notin ReadOnly
  /\ at[p] \in {"open", "writing"} /\ p \notin ReadOnly => 1..Latest[p] \subseteq versions
  /\ at[p] = "writing" => \A c \in pending[p] : \E b \in 1..batches : c = <<-b, 1>>

Places == {"closed", "connected", "migrate", "migrating", "open", "writing"}

DatabaseInv ==
  /\ at \in [Processes -> Places]
  /\ cur \in [Processes -> Nat]
  /\ DOMAIN pending = Processes
  /\ VersionsAreWhole
  /\ BatchesAreWhole
  /\ \A p \in Processes : ProcessIsRight(p)

\* A step of one process.
Moves(p) ==
  /\ at' \in [Processes -> Places] /\ cur' \in [Processes -> Nat]
  /\ DOMAIN pending' = Processes
  /\ \A q \in Processes \ {p} : at'[q] = at[q] /\ cur'[q] = cur[q] /\ pending'[q] = pending[q]

\* It leaves the others as they should be, as nothing is taken from the versions or the
\* batches; so only its own part and the file are left to prove.
LEMMA OneProcessSteps ==
  ASSUME DatabaseInv, NEW p \in Processes, Moves(p),
         versions \subseteq versions', batches' \in {batches, batches + 1},
         VersionsAreWhole', BatchesAreWhole', ProcessIsRight(p)'
  PROVE  DatabaseInv'
<1>1. ASSUME NEW q \in Processes PROVE ProcessIsRight(q)'
  <2>1. CASE q = p BY <2>1
  <2>2. CASE q # p
    <3>1. at'[q] = at[q] /\ cur'[q] = cur[q] /\ pending'[q] = pending[q] BY <2>2 DEF Moves
    <3>2. 1..batches \subseteq 1..batches' BY DEF DatabaseInv, BatchesAreWhole
    <3>3. QED BY <3>1, <3>2 DEF DatabaseInv, ProcessIsRight
  <2>3. QED BY <2>1, <2>2
<1>2. QED BY <1>1 DEF DatabaseInv, Moves

\* The version a process reads is the newest, as the versions are 1 to it.
LEMMA NewestVersion ==
  ASSUME NEW n \in Nat, versions = 1..n, versions # {}
  PROVE  (CHOOSE v \in versions : \A w \in versions : w <= v) = n
<1>1. n \in versions /\ \A w \in versions : w <= n OBVIOUS
<1>2. \A v \in versions : (\A w \in versions : w <= v) => v = n BY <1>1
<1>3. QED BY <1>1, <1>2

\* A process that has the file open reads no version above the newest.
LEMMA ReadVersionStep ==
  ASSUME DatabaseInv, NEW p \in Processes, Database!ReadVersion(p)
  PROVE  DatabaseInv'
<1> DEFINE c == IF versions = {} THEN 0
                ELSE CHOOSE v \in versions : \A w \in versions : w <= v
           where == IF p \in ReadOnly THEN "open" ELSE "migrate"
<1>1. UNCHANGED <<versions, content, batches>> BY DEF Database!ReadVersion
<1>2. PICK n \in Nat : versions = 1..n BY DEF DatabaseInv, VersionsAreWhole
<1>3. c \in Nat /\ 1..c \subseteq versions
  <2>1. CASE versions = {} BY <2>1
  <2>2. CASE versions # {}
    <3>1. c = n BY <1>2, <2>2, NewestVersion
    <3>2. QED BY <1>2, <3>1
  <2>3. QED BY <2>1, <2>2
<1>4. cur' = [cur EXCEPT ![p] = c] /\ Database!Goes(p, where, lock, {})
  BY DEF Database!ReadVersion
<1> HIDE DEF c
<1>5. ProcessIsRight(p)'
  BY <1>1, <1>3, <1>4 DEF DatabaseInv, Database!Goes, ProcessIsRight
<1>6. VersionsAreWhole' /\ BatchesAreWhole'
  BY <1>1 DEF DatabaseInv, VersionsAreWhole, BatchesAreWhole, Database!Statements
<1>7. Moves(p) BY <1>3, <1>4 DEF DatabaseInv, Database!Goes, Moves, Places
<1>8. QED BY <1>1, <1>5, <1>6, <1>7, OneProcessSteps

\* The commit of a migration: the next version with all of its statements, or nothing.
LEMMA CommitMigrationStep ==
  ASSUME DatabaseInv, NEW p \in Processes, Database!CommitMigration(p)
  PROVE  DatabaseInv'
<1> DEFINE v == cur[p] + 1
<1>1. at[p] = "migrating" /\ pending[p] = Database!Statements(v) /\ batches' = batches
  BY DEF Database!CommitMigration
<1>2. cur[p] \in Nat /\ 1..cur[p] \subseteq versions /\ p \notin ReadOnly
  BY <1>1 DEF DatabaseInv, ProcessIsRight
<1>3. PICK n \in Nat : versions = 1..n BY DEF DatabaseInv, VersionsAreWhole
<1>4. CASE v \in versions
  <2>1. UNCHANGED <<versions, content, cur>> /\ Database!Goes(p, "closed", Database!Nobody, {})
    BY <1>4 DEF Database!CommitMigration
  <2>3. ProcessIsRight(p)'
    BY <1>2, <2>1 DEF DatabaseInv, Database!Goes, ProcessIsRight
  <2>4. VersionsAreWhole' /\ BatchesAreWhole'
    BY <1>1, <2>1 DEF DatabaseInv, VersionsAreWhole, BatchesAreWhole, Database!Statements
  <2>5. Moves(p) BY <2>1 DEF DatabaseInv, Database!Goes, Moves, Places
  <2>6. QED BY <1>1, <2>1, <2>3, <2>4, <2>5, OneProcessSteps
<1>5. CASE v \notin versions
  <2>1. /\ Database!Goes(p, "migrate", Database!Nobody, {})
        /\ versions' = versions \cup {v} /\ content' = content \cup Database!Statements(v)
        /\ cur' = [cur EXCEPT ![p] = v]
    BY <1>1, <1>5 DEF Database!CommitMigration
  <2>2. versions' = 1..v
    <3>1. v = n + 1 BY <1>2, <1>3, <1>5
    <3>2. QED BY <1>3, <2>1, <3>1
  <2>3. VersionsAreWhole'
    <3>1. \A c \in Database!Statements(v) : c[1] = v BY DEF Database!Statements
    <3>2. \A u \in versions' : Database!Statements(u) \subseteq content'
      BY <2>1 DEF DatabaseInv, VersionsAreWhole, Database!Statements
    <3>3. \A c \in content' : c[1] \in versions' \/ \E b \in 1..batches : c[1] = -b
      BY <2>1, <3>1 DEF DatabaseInv, VersionsAreWhole
    <3>4. QED BY <1>1, <1>2, <2>2, <3>2, <3>3 DEF VersionsAreWhole, Database!Statements
  <2>4. BatchesAreWhole'
    <3>1. \A b \in Nat \ {0} : \A s : <<-b, s>> \notin Database!Statements(v)
      BY <1>2 DEF Database!Statements
    <3>2. QED BY <1>1, <2>1, <3>1 DEF DatabaseInv, BatchesAreWhole
  <2>5. ProcessIsRight(p)'
    BY <1>2, <2>1, <2>2 DEF DatabaseInv, Database!Goes, ProcessIsRight
  <2>6. Moves(p) BY <1>2, <2>1 DEF DatabaseInv, Database!Goes, Moves, Places
  <2>7. QED BY <1>1, <2>1, <2>3, <2>4, <2>5, <2>6, OneProcessSteps
<1>6. QED BY <1>4, <1>5

\* The commit of a batch: both of its rows.
LEMMA CommitTxStep ==
  ASSUME DatabaseInv, NEW p \in Processes, Database!CommitTx(p)
  PROVE  DatabaseInv'
<1>1. /\ at[p] = "writing" /\ UNCHANGED <<versions, cur, batches>>
      /\ content' = content \cup pending[p] \cup {<<b[1], 2>> : b \in pending[p]}
      /\ Database!Goes(p, "open", Database!Nobody, {})
  BY DEF Database!CommitTx
<1>2. \A c \in pending[p] : \E b \in 1..batches : c = <<-b, 1>>
  BY <1>1 DEF DatabaseInv, ProcessIsRight
<1>3. Moves(p) BY <1>1 DEF DatabaseInv, Database!Goes, Moves, Places
<1>4. \A c \in content' : c \in content \/ \E b \in 1..batches : c[1] = -b
  BY <1>1, <1>2
<1>5. VersionsAreWhole'
  BY <1>1, <1>4 DEF DatabaseInv, VersionsAreWhole, Database!Statements
<1>6. BatchesAreWhole'
  <2>1. batches \in Nat /\ batches' = batches BY <1>1 DEF DatabaseInv, BatchesAreWhole
  <2>2. ASSUME NEW b \in Nat \ {0} PROVE <<-b, 1>> \in content' <=> <<-b, 2>> \in content'
    <3>1. <<-b, 1>> \in content <=> <<-b, 2>> \in content BY DEF DatabaseInv, BatchesAreWhole
    <3>2. <<-b, 1>> \in content' <=> <<-b, 1>> \in content \/ <<-b, 1>> \in pending[p]
      BY <1>1
    <3>3. <<-b, 2>> \in content' <=> <<-b, 2>> \in content \/ <<-b, 1>> \in pending[p]
      BY <1>1, <1>2
    <3>4. QED BY <3>1, <3>2, <3>3
  <2>3. QED BY <2>1, <2>2 DEF BatchesAreWhole
<1>7. ProcessIsRight(p)' BY <1>1 DEF DatabaseInv, Database!Goes, ProcessIsRight
<1>8. QED BY <1>1, <1>3, <1>5, <1>6, <1>7, OneProcessSteps

\* What only moves a process, leaving the file as it is and one batch more at most.
LEMMA MoveSteps ==
  ASSUME DatabaseInv, NEW p \in Processes,
         \/ Database!Open(p) \/ Database!BeginMigration(p) \/ Database!Migrate(p)
         \/ Database!Migrated(p) \/ Database!BeginTx(p) \/ Database!RollbackTx(p)
         \/ Database!Fails(p) \/ Database!Close(p)
  PROVE  DatabaseInv'
<1>1. UNCHANGED <<versions, content, cur>> /\ batches' \in {batches, batches + 1}
  BY DEF Database!Open, Database!BeginMigration, Database!Migrate, Database!Migrated,
         Database!BeginTx, Database!RollbackTx, Database!Fails, Database!Close,
         Database!Leave, Database!file
<1>2. batches \in Nat /\ batches' \in Nat BY <1>1 DEF DatabaseInv, BatchesAreWhole
<1>3. VersionsAreWhole' /\ BatchesAreWhole'
  <2>1. 1..batches \subseteq 1..batches' BY <1>1, <1>2
  <2>2. QED
    BY <1>1, <1>2, <2>1 DEF DatabaseInv, VersionsAreWhole, BatchesAreWhole, Database!Statements
<1>4. Moves(p)
  BY <1>1 DEF DatabaseInv, Moves, Places, Database!Goes, Database!Open, Database!BeginMigration,
              Database!Migrate, Database!Migrated, Database!BeginTx, Database!RollbackTx,
              Database!Fails, Database!Close, Database!Leave
<1>5. ProcessIsRight(p)'
  <2> USE <1>1, <1>2 DEF DatabaseInv, ProcessIsRight, Database!Goes
  <2>1. CASE Database!Open(p) BY <2>1 DEF Database!Open
  <2>2. CASE Database!BeginMigration(p) BY <2>2 DEF Database!BeginMigration
  <2>3. CASE Database!Migrate(p) BY <2>3 DEF Database!Migrate
  <2>4. CASE Database!Migrated(p)
    <3>1. cur[p] \in Nat /\ Latest[p] \in Nat /\ Latest[p] <= cur[p]
      BY <2>4, DatabaseAssumption DEF Database!Migrated
    <3>2. 1..Latest[p] \subseteq 1..cur[p] BY <3>1
    <3>3. QED BY <2>4, <3>2 DEF Database!Migrated
  <2>5. CASE Database!BeginTx(p) BY <2>5 DEF Database!BeginTx
  <2>6. CASE Database!RollbackTx(p) BY <2>6 DEF Database!RollbackTx
  <2>7. CASE Database!Leave(p) BY <2>7 DEF Database!Leave
  <2>8. QED
    BY <2>1, <2>2, <2>3, <2>4, <2>5, <2>6, <2>7 DEF Database!Fails, Database!Close
<1>6. QED BY <1>1, <1>3, <1>4, <1>5, OneProcessSteps

\* The invariant holds at first, and in every step.
LEMMA DatabaseInduction ==
  /\ Database!Init => DatabaseInv
  /\ DatabaseInv /\ [Database!Next]_(Database!vars) => DatabaseInv'
<1>1. ASSUME Database!Init PROVE DatabaseInv
  <2>1. versions = 1..0 /\ 0 \in Nat BY <1>1 DEF Database!Init
  <2>2. VersionsAreWhole /\ BatchesAreWhole
    BY <1>1, <2>1 DEF Database!Init, VersionsAreWhole, BatchesAreWhole
  <2>3. QED BY <1>1, <2>2 DEF Database!Init, DatabaseInv, Places, ProcessIsRight
<1>2. ASSUME DatabaseInv, UNCHANGED Database!vars PROVE DatabaseInv'
  BY <1>2 DEF Database!vars, Database!file, DatabaseInv, VersionsAreWhole, BatchesAreWhole,
              ProcessIsRight, Database!Statements
<1>3. ASSUME DatabaseInv, NEW p \in Processes, Database!Step(p) PROVE DatabaseInv'
  BY <1>3, ReadVersionStep, CommitMigrationStep, CommitTxStep, MoveSteps DEF Database!Step
<1>4. QED BY <1>1, <1>2, <1>3 DEF Database!Next

\* The invariant says what the run checks, the number of versions being the newest.
LEMMA DatabaseInvIsEnough == DatabaseInv => DatabaseIsWhole
<1> SUFFICES ASSUME DatabaseInv PROVE DatabaseIsWhole OBVIOUS
<1>1. PICK n \in Nat : versions = 1..n BY DEF DatabaseInv, VersionsAreWhole
<1>2. Database!Cardinality(versions) = n
  <2>1. Cardinality(1..n) = IF 1 > n THEN 0 ELSE n - 1 + 1 BY FS_Interval
  <2>2. Database!Cardinality(versions) = Cardinality(versions)
    BY DEF Database!Cardinality, Cardinality
  <2>3. QED BY <1>1, <2>1, <2>2
<1>3. ASSUME NEW v \in 1..(n + 1)
      PROVE  IF v <= n THEN v \in versions /\ Database!Statements(v) \subseteq content
             ELSE v \notin versions /\ Database!Statements(v) \cap content = {}
  <2>1. CASE v <= n BY <1>1, <2>1 DEF DatabaseInv, VersionsAreWhole
  <2>2. CASE ~(v <= n)
    <3>1. v \notin versions BY <1>1, <2>2
    <3>2. \A c \in Database!Statements(v) : c[1] = v BY DEF Database!Statements
    <3>3. \A b \in 1..batches : v # -b BY DEF DatabaseInv, BatchesAreWhole
    <3>4. QED BY <2>2, <3>1, <3>2, <3>3 DEF DatabaseInv, VersionsAreWhole
  <2>3. QED BY <2>1, <2>2
<1>4. \A p \in Processes \ ReadOnly : at[p] \in {"open", "writing"} => 1..Latest[p] \subseteq versions
  BY DEF DatabaseInv, ProcessIsRight
<1>5. \A b \in 1..batches : <<-b, 1>> \in content <=> <<-b, 2>> \in content
  <2>1. \A b \in 1..batches : b \in Nat \ {0} BY DEF DatabaseInv, BatchesAreWhole
  <2>2. QED BY <2>1 DEF DatabaseInv, BatchesAreWhole
<1>6. QED BY <1>2, <1>3, <1>4, <1>5 DEF DatabaseIsWhole, Database!DatabaseIsWhole

-----------------------------------------------------------------------------
(***************************************************************************)
(* The look-ups of threat intelligence.  What the cache holds was so when  *)
(* it was stored, or has changed since; and what a look-up found was so,   *)
(* or has changed in this very moment, as the clock does not pass between  *)
(* the query and the cache.                                                *)
(***************************************************************************)
Lifetime(match) == IF match THEN CacheTTL ELSE NegativeTTL

IsIndicator(a) == a \in DOMAIN indicators

ClockType ==
  /\ intelNow \in Nat
  /\ changed \in [Addresses -> Nat]
  /\ \A a \in Addresses : changed[a] <= intelNow

CacheIsRight ==
  /\ DOMAIN cache \subseteq Addresses
  /\ \A a \in DOMAIN cache :
        LET stored == cache[a].expires - Lifetime(cache[a].match)
        IN /\ cache[a].match \in BOOLEAN /\ cache[a].expires \in Int
           /\ stored <= intelNow
           /\ (cache[a].match <=> IsIndicator(a)) \/ stored <= changed[a]

LookUpIsRight ==
  looking # ThreatIntel!NotLooking =>
     /\ looking.addr \in Addresses /\ looking.match \in BOOLEAN
     /\ (looking.match <=> IsIndicator(looking.addr)) \/ changed[looking.addr] = intelNow

AnswerIsRight ==
  intelAnswer.addr # ThreatIntel!NoAddress =>
     /\ intelAnswer.addr \in Addresses /\ intelAnswer.match \in BOOLEAN
     /\ \/ intelAnswer.match <=> IsIndicator(intelAnswer.addr)
        \/ intelNow - changed[intelAnswer.addr] <= Lifetime(intelAnswer.match)

IntelInv == ClockType /\ CacheIsRight /\ LookUpIsRight /\ AnswerIsRight

\* No answer is right.
LEMMA NoAnswerIsRight ==
  intelAnswer' = ThreatIntel!NoAnswer => AnswerIsRight'
BY DEF AnswerIsRight, ThreatIntel!NoAnswer, ThreatIntel!NotLooking, ThreatIntel!NoAddress

\* The steps of the import and the feed that change no indicator.
LEMMA QuietSteps ==
  ASSUME IntelInv, UNCHANGED <<indicators, changed, looking, intelNow>>,
         cache' \in {cache, <<>>}, intelAnswer' = ThreatIntel!NoAnswer
  PROVE  IntelInv'
<1>1. AnswerIsRight' BY NoAnswerIsRight
<1>2. DOMAIN <<>> = {} OBVIOUS
<1>3. CacheIsRight' BY <1>2 DEF IntelInv, CacheIsRight, IsIndicator, Lifetime
<1>4. QED BY <1>1, <1>3 DEF IntelInv, ClockType, LookUpIsRight, IsIndicator

\* An import or the expiry: what becomes or ceases to be an indicator is marked with the
\* time.
LEMMA IndicatorSteps ==
  ASSUME IntelInv, NEW ind, indicators' = ind,
         changed' = [a \in Addresses |->
            IF (a \in DOMAIN ind) # (a \in DOMAIN indicators) THEN intelNow ELSE changed[a]],
         UNCHANGED <<cache, looking, intelNow>>, intelAnswer' = ThreatIntel!NoAnswer
  PROVE  IntelInv'
<1>1. AnswerIsRight' BY NoAnswerIsRight
<1>2. ClockType' BY DEF IntelInv, ClockType
<1>3. \A a \in Addresses : \/ changed'[a] = intelNow
                           \/ changed'[a] = changed[a] /\ (IsIndicator(a)' <=> IsIndicator(a))
  BY DEF IsIndicator
<1>4. CacheIsRight' BY <1>3, IntelAssumption DEF IntelInv, CacheIsRight, Lifetime
<1>5. LookUpIsRight' BY <1>3 DEF IntelInv, LookUpIsRight
<1>6. QED BY <1>1, <1>2, <1>4, <1>5 DEF IntelInv

\* The cache with another answer that is right now.
LEMMA StoredIsRight ==
  ASSUME IntelInv, NEW a \in Addresses, NEW match \in BOOLEAN,
         (match <=> IsIndicator(a)) \/ changed[a] = intelNow,
         cache' = ThreatIntel!Store(a, match), UNCHANGED <<indicators, changed, intelNow>>
  PROVE  CacheIsRight'
<1> DEFINE entry == [match |-> match, expires |-> intelNow + Lifetime(match)]
<1>1. DOMAIN cache' = DOMAIN cache \cup {a} BY DEF ThreatIntel!Store
<1>2. cache'[a] = entry BY DEF ThreatIntel!Store, Lifetime
<1>3. \A b \in DOMAIN cache \ {a} : cache'[b] = cache[b] BY DEF ThreatIntel!Store
<1>4. Lifetime(match) \in Nat BY IntelAssumption DEF Lifetime
<1>5. entry.expires \in Int /\ entry.expires - Lifetime(match) = intelNow
  BY <1>4 DEF IntelInv, ClockType
<1>6. ASSUME NEW b \in DOMAIN cache'
      PROVE  LET stored == cache'[b].expires - Lifetime(cache'[b].match)
             IN /\ cache'[b].match \in BOOLEAN /\ cache'[b].expires \in Int
                /\ stored <= intelNow
                /\ (cache'[b].match <=> IsIndicator(b)) \/ stored <= changed[b]
  <2>1. CASE b = a
    <3>1. cache'[b].match = match /\ cache'[b].expires = entry.expires BY <1>2, <2>1
    <3>2. QED BY <1>5, <2>1, <3>1 DEF IntelInv, ClockType
  <2>2. CASE b # a BY <1>1, <1>3, <2>2 DEF IntelInv, CacheIsRight
  <2>3. QED BY <2>1, <2>2
<1>7. QED BY <1>1, <1>6 DEF CacheIsRight, IntelInv, IsIndicator, Lifetime

\* A look-up is answered from a cached answer within its lifetime, or asks the database.
LEMMA LookUpStep ==
  ASSUME IntelInv, NEW a \in Addresses, ThreatIntel!LookUp(a)
  PROVE  IntelInv'
<1>1. UNCHANGED <<indicators, changed, intelNow>> BY DEF ThreatIntel!LookUp
<1>2. CASE ThreatIntel!Fresh(a)
  <2>1. /\ intelAnswer' = [addr |-> a, match |-> cache[a].match]
        /\ UNCHANGED <<cache, looking>>
    BY <1>2 DEF ThreatIntel!LookUp, ThreatIntel!Answer, ThreatIntel!AfterHit
  <2>2. a \in DOMAIN cache /\ intelNow <= cache[a].expires BY <1>2 DEF ThreatIntel!Fresh
  <2>3. Lifetime(cache[a].match) \in Nat BY IntelAssumption DEF Lifetime
  <2>4. AnswerIsRight'
    BY <1>1, <2>1, <2>2, <2>3
    DEF IntelInv, AnswerIsRight, CacheIsRight, ClockType, IsIndicator, Lifetime
  <2>5. QED
    BY <1>1, <2>1, <2>4
    DEF IntelInv, ClockType, CacheIsRight, LookUpIsRight, IsIndicator, Lifetime
<1>3. CASE ~ThreatIntel!Fresh(a)
  <2>1. /\ looking' = [addr |-> a, match |-> a \in DOMAIN indicators]
        /\ intelAnswer' = ThreatIntel!NoAnswer /\ UNCHANGED cache
    BY <1>3 DEF ThreatIntel!LookUp
  <2>2. AnswerIsRight' BY <2>1, NoAnswerIsRight
  <2>3. looking'.addr = a /\ (looking'.match <=> a \in DOMAIN indicators) BY <2>1
  <2>4. looking'.match \in BOOLEAN BY <2>1
  <2>5. LookUpIsRight' BY <1>1, <2>3, <2>4 DEF LookUpIsRight, IsIndicator
  <2>6. QED
    BY <1>1, <2>1, <2>2, <2>5 DEF IntelInv, ClockType, CacheIsRight, IsIndicator, Lifetime
<1>4. QED BY <1>2, <1>3

\* The database has answered: the answer is given and stored.
LEMMA FoundStep == IntelInv /\ ThreatIntel!Found => IntelInv'
<1> SUFFICES ASSUME IntelInv, ThreatIntel!Found PROVE IntelInv' OBVIOUS
<1>1. /\ looking # ThreatIntel!NotLooking /\ looking' = ThreatIntel!NotLooking
      /\ cache' = ThreatIntel!Store(looking.addr, looking.match)
      /\ intelAnswer' = [addr |-> looking.addr, match |-> looking.match]
      /\ UNCHANGED <<indicators, changed, intelNow>>
  BY DEF ThreatIntel!Found, ThreatIntel!Answer
<1>2. PICK a \in Addresses, match \in BOOLEAN :
        /\ a = looking.addr /\ match = looking.match
        /\ (match <=> IsIndicator(a)) \/ changed[a] = intelNow
  BY <1>1 DEF IntelInv, LookUpIsRight
<1>3. cache' = ThreatIntel!Store(a, match) BY <1>1, <1>2
<1>4. CacheIsRight' BY <1>1, <1>2, <1>3, StoredIsRight
<1>5. intelAnswer'.addr = a /\ intelAnswer'.match = match BY <1>1, <1>2
<1>6. Lifetime(match) \in Nat BY IntelAssumption DEF Lifetime
<1>7. AnswerIsRight'
  BY <1>1, <1>2, <1>5, <1>6 DEF IntelInv, AnswerIsRight, ClockType, IsIndicator, Lifetime
<1>8. QED BY <1>1, <1>4, <1>7 DEF IntelInv, ClockType, LookUpIsRight

\* The invariant holds at first, and in every step.
LEMMA IntelInduction ==
  /\ ThreatIntel!Init => IntelInv
  /\ IntelInv /\ [ThreatIntel!Next]_(ThreatIntel!vars) => IntelInv'
<1>1. ASSUME ThreatIntel!Init PROVE IntelInv
  <2>1. DOMAIN cache = {} BY <1>1 DEF ThreatIntel!Init
  <2>2. QED
    BY <1>1, <2>1 DEF ThreatIntel!Init, IntelInv, ClockType, CacheIsRight, LookUpIsRight,
        AnswerIsRight, ThreatIntel!NoAnswer, ThreatIntel!NotLooking, ThreatIntel!NoAddress
<1>2. ASSUME IntelInv, UNCHANGED ThreatIntel!vars PROVE IntelInv'
  BY <1>2 DEF ThreatIntel!vars, IntelInv, ClockType, CacheIsRight, LookUpIsRight,
              AnswerIsRight, IsIndicator, Lifetime
<1>3. ASSUME NEW doc \in Documents, IntelInv, ThreatIntel!Publish(doc) PROVE IntelInv'
  BY <1>3, QuietSteps DEF ThreatIntel!Publish
<1>4. ASSUME IntelInv, ThreatIntel!Fetch PROVE IntelInv'
  BY <1>4, QuietSteps DEF ThreatIntel!Fetch
<1>5. ASSUME IntelInv, ThreatIntel!Upsert PROVE IntelInv'
  <2>1. intelAnswer' = ThreatIntel!NoAnswer /\ UNCHANGED <<cache, looking, intelNow>>
    BY <1>5 DEF ThreatIntel!Upsert
  <2>2. CASE UNCHANGED <<indicators, changed>> BY <1>5, <2>1, <2>2, QuietSteps
  <2>3. ASSUME NEW ind, ThreatIntel!SetIndicators(ind) PROVE IntelInv'
    BY <1>5, <2>1, <2>3, IndicatorSteps DEF ThreatIntel!SetIndicators
  <2>4. QED BY <1>5, <2>2, <2>3 DEF ThreatIntel!Upsert
<1>6. ASSUME IntelInv, ThreatIntel!Invalidate PROVE IntelInv'
  BY <1>6, QuietSteps DEF ThreatIntel!Invalidate
<1>7. ASSUME IntelInv, ThreatIntel!Expire PROVE IntelInv'
  BY <1>7, IndicatorSteps DEF ThreatIntel!Expire, ThreatIntel!SetIndicators
<1>8. ASSUME IntelInv, ThreatIntel!Clock PROVE IntelInv'
  <2>1. /\ looking' = ThreatIntel!NotLooking /\ intelNow' = intelNow + 1
        /\ intelAnswer' = ThreatIntel!NoAnswer /\ UNCHANGED <<indicators, changed, cache>>
    BY <1>8 DEF ThreatIntel!Clock
  <2>2. AnswerIsRight' BY <2>1, NoAnswerIsRight
  <2>3. CacheIsRight'
    BY <1>8, <2>1, IntelAssumption DEF IntelInv, ClockType, CacheIsRight, IsIndicator, Lifetime
  <2>4. QED BY <1>8, <2>1, <2>2, <2>3 DEF IntelInv, ClockType, LookUpIsRight
<1>9. QED
  BY <1>1, <1>2, <1>3, <1>4, <1>5, <1>6, <1>7, <1>8, LookUpStep, FoundStep
  DEF ThreatIntel!Next

-----------------------------------------------------------------------------
(***************************************************************************)
(* The log files.  What is in an archive is older than what is in the file *)
(* that was archived after it, unless it is the same: a compressed copy    *)
(* that was left beside its archive.  The time of the last change orders   *)
(* them in this way, and so the limits, which go by it, delete the oldest. *)
(* An older one that stays because its removal failed is beyond the limits *)
(* for as long as it stays: what is newer than it and within the limits is *)
(* never removed.                                                          *)
(***************************************************************************)
RecordsOf(arcs) == UNION {arcs[a].records : a \in DOMAIN arcs}

\* The file f at the time t, when n records were numbered.
FileFits(f, n, t) == f.records \subseteq 1..n /\ f.time \in Int /\ f.time <= t

\* The records of g are newer than those of f, unless they are also in f.
Precedes(f, g) == \A p \in f.records, k \in g.records : p < k \/ k \in f.records

\* An archive has the second of its rotation as its name, and whether it is compressed.
Named(a) == \E s : a \in {<<s, FALSE>>, <<s, TRUE>>}

ArchivesOk(arcs, n, t) ==
  /\ IsFiniteSet(DOMAIN arcs)
  /\ \A a \in DOMAIN arcs : FileFits(arcs[a], n, t) /\ Named(a)
  /\ \A a, b \in DOMAIN arcs : LogFile!Newer(arcs, b, a) => Precedes(arcs[a], arcs[b])

\* What is not compressed is not empty, and a record is in archives of one second only.
NamesOk(arcs) ==
  /\ \A a \in DOMAIN arcs : ~a[2] => arcs[a].records # {}
  /\ \A a, b \in DOMAIN arcs : a[1] # b[1] => arcs[a].records \cap arcs[b].records = {}

FileOk(f, arcs, n, t) ==
  /\ FileFits(f, n, t)
  /\ \A a \in DOMAIN arcs :
        /\ \A p \in arcs[a].records, k \in f.records : p < k
        /\ f.records # {} => arcs[a].time < f.time

\* The archive a is beyond the limits: too many are newer, or it is too old.
NewerThan(arcs, a) == {b \in DOMAIN arcs : LogFile!Newer(arcs, b, a)}
Beyond(arcs, a, t) ==
  \/ MaxArchives > 0 /\ Cardinality(NewerThan(arcs, a)) >= MaxArchives
  \/ MaxAge > 0 /\ arcs[a].time < t - MaxAge

\* Nothing that is kept is older than what was deleted, but for archives that are still to
\* be deleted.
PrunedOk(P, f, arcs, sw, n, t) ==
  /\ P \subseteq 1..n
  /\ \A p \in P, k \in f.records : p < k
  /\ \A p \in P, a \in DOMAIN arcs : \A k \in arcs[a].records :
        k \in P \/ p < k \/ (~sw /\ Beyond(arcs, a, t))

Kept(W, f, arcs, P, R) == W \subseteq f.records \cup RecordsOf(arcs) \cup P \cup R

\* The disk with the file f and the archives arcs, P pruned and R replaced, sw when the last
\* pruning was complete.
DiskOk(f, arcs, P, R, W, sw, n, t) ==
  /\ n \in Nat /\ t \in Nat
  /\ ArchivesOk(arcs, n, t) /\ NamesOk(arcs) /\ FileOk(f, arcs, n, t)
  /\ P \subseteq 1..n /\ (R = {} => PrunedOk(P, f, arcs, sw, n, t))
  /\ Kept(W, f, arcs, P, R)

LogInv ==
  DiskOk(logFileFile, archives, pruned, replaced, written, swept, last, logFileNow)

\* What RecordsOf and the operators of LogFile on archives mean, member by member.
LEMMA RecordsOfMember ==
  ASSUME NEW arcs, NEW k
  PROVE  k \in RecordsOf(arcs) <=> \E a \in DOMAIN arcs : k \in arcs[a].records
BY DEF RecordsOf

\* The names of one second.
LEMMA PairParts ==
  ASSUME NEW s, NEW c, c \in {<<s, FALSE>>, <<s, TRUE>>}
  PROVE  c[1] = s /\ (~c[2] => c = <<s, FALSE>>) /\ Named(c)
<1>1. CASE c = <<s, FALSE>>
  <2>1. Named(c) BY <1>1 DEF Named
  <2>2. QED BY <1>1, <2>1
<1>2. CASE c = <<s, TRUE>>
  <2>1. Named(c) BY <1>2 DEF Named
  <2>2. c[1] = s /\ c[2] = TRUE BY <1>2
  <2>3. QED BY <2>1, <2>2
<1>3. QED BY <1>1, <1>2

\* Archives that are the old ones but for copies of the file f and for empty files, named
\* for the second s.  One that is gone left a copy of f under its name.
Shape(kept, arcs, f, t, s) ==
  /\ \E new : IsFiniteSet(new) /\ DOMAIN kept \subseteq DOMAIN arcs \cup new
  /\ \A a \in DOMAIN kept :
        \/ a \in DOMAIN arcs /\ kept[a] = arcs[a]
        \/ /\ a \in {<<s, FALSE>>, <<s, TRUE>>}
           /\ \/ kept[a].records = f.records /\ kept[a].time \in {f.time, t}
              \/ kept[a].records = {} /\ kept[a].time = t /\ a = <<s, TRUE>>
  /\ \E a \in DOMAIN kept : kept[a].records = f.records
  /\ \A a \in DOMAIN arcs \ DOMAIN kept :
        /\ a = <<s, FALSE>>
        /\ \A b \in DOMAIN kept : b[1] = s => kept[b].records = f.records

\* They are ordered like the old ones, with f above all of those, and hold nothing else.
LEMMA ShapeIsOk ==
  ASSUME NEW f, NEW arcs, NEW n \in Nat, NEW t \in Nat, NEW s, ArchivesOk(arcs, n, t),
         FileOk(f, arcs, n, t), f.records # {}, NEW kept, Shape(kept, arcs, f, t, s)
  PROVE  /\ ArchivesOk(kept, n, t)
         /\ RecordsOf(kept) \subseteq RecordsOf(arcs) \cup f.records
         /\ f.records \subseteq RecordsOf(kept)
<1>1. IsFiniteSet(DOMAIN kept)
  <2>1. PICK new : IsFiniteSet(new) /\ DOMAIN kept \subseteq DOMAIN arcs \cup new BY DEF Shape
  <2>2. IsFiniteSet(DOMAIN arcs \cup new) BY <2>1, FS_Union DEF ArchivesOk
  <2>3. QED BY <2>1, <2>2, FS_Subset
<1>2. ASSUME NEW a \in DOMAIN kept PROVE FileFits(kept[a], n, t) /\ Named(a)
  <2>1. CASE a \in DOMAIN arcs /\ kept[a] = arcs[a] BY <2>1 DEF ArchivesOk
  <2>2. CASE kept[a].records = f.records /\ kept[a].time \in {f.time, t}
             /\ a \in {<<s, FALSE>>, <<s, TRUE>>}
    <3>1. Named(a) BY <2>2, PairParts
    <3>2. FileFits(kept[a], n, t) BY <2>2 DEF FileOk, FileFits
    <3>3. QED BY <3>1, <3>2
  <2>3. CASE kept[a].records = {} /\ kept[a].time = t /\ a \in {<<s, FALSE>>, <<s, TRUE>>}
    <3>1. Named(a) BY <2>3, PairParts
    <3>2. FileFits(kept[a], n, t) BY <2>3 DEF FileFits
    <3>3. QED BY <3>1, <3>2
  <2>4. QED BY <2>1, <2>2, <2>3 DEF Shape
<1>3. ASSUME NEW a \in DOMAIN kept, NEW b \in DOMAIN kept, LogFile!Newer(kept, b, a)
      PROVE  Precedes(kept[a], kept[b])
  <2>1. FileFits(kept[a], n, t) /\ FileFits(kept[b], n, t) /\ FileFits(f, n, t)
    BY <1>2 DEF FileOk
  <2>2. CASE a \in DOMAIN arcs /\ kept[a] = arcs[a]
    <3>1. CASE b \in DOMAIN arcs /\ kept[b] = arcs[b]
      <4>1. LogFile!Newer(arcs, b, a) BY <1>3, <2>2, <3>1 DEF LogFile!Newer
      <4>2. QED BY <2>2, <3>1, <4>1 DEF ArchivesOk
    <3>2. CASE kept[b].records \in {f.records, {}} BY <2>2, <3>2 DEF FileOk, Precedes
    <3>3. QED BY <3>1, <3>2 DEF Shape
  <2>3. CASE kept[a].records = f.records /\ kept[a].time \in {f.time, t}
    <3>1. CASE b \in DOMAIN arcs /\ kept[b] = arcs[b]
      <4>1. kept[b].time < f.time /\ f.time <= t BY <3>1 DEF FileOk, FileFits
      <4>2. kept[a].time \in Int /\ kept[b].time \in Int /\ f.time \in Int BY <2>1 DEF FileFits
      <4>3. kept[b].time < kept[a].time BY <2>3, <4>1, <4>2
      <4>4. ~(kept[b].time > kept[a].time) /\ kept[b].time # kept[a].time BY <4>2, <4>3
      <4>5. QED BY <1>3, <4>4 DEF LogFile!Newer
    <3>2. CASE kept[b].records \in {f.records, {}} BY <2>3, <3>2 DEF Precedes
    <3>3. QED BY <3>1, <3>2 DEF Shape
  <2>4. CASE kept[a].records = {} BY <2>4 DEF Precedes
  <2>5. QED BY <2>2, <2>3, <2>4 DEF Shape
<1>4. RecordsOf(kept) \subseteq RecordsOf(arcs) \cup f.records
  BY RecordsOfMember DEF Shape
<1>5. f.records \subseteq RecordsOf(kept) BY RecordsOfMember DEF Shape
<1>6. QED BY <1>1, <1>2, <1>3, <1>4, <1>5 DEF ArchivesOk

\* Their names fit what they hold.
LEMMA ShapeIsNamed ==
  ASSUME NEW f, NEW arcs, NEW n, NEW t, NEW s, ArchivesOk(arcs, n, t), NamesOk(arcs),
         FileOk(f, arcs, n, t), f.records # {}, NEW kept, Shape(kept, arcs, f, t, s)
  PROVE  NamesOk(kept)
<1>1. ASSUME NEW a \in DOMAIN kept, ~a[2] PROVE kept[a].records # {}
  <2>1. a # <<s, TRUE>>
    <3>1. <<s, TRUE>>[2] = TRUE OBVIOUS
    <3>2. QED BY <1>1, <3>1
  <2>2. QED BY <1>1, <2>1 DEF Shape, NamesOk
<1>2. ASSUME NEW a \in DOMAIN arcs PROVE f.records \cap arcs[a].records = {}
  <2>1. \A p \in arcs[a].records, k \in f.records : p < k BY DEF FileOk
  <2>2. arcs[a].records \subseteq Nat /\ f.records \subseteq Nat
    BY DEF ArchivesOk, FileOk, FileFits
  <2>3. QED BY <2>1, <2>2
<1>3. ASSUME NEW a \in DOMAIN kept, NEW b \in DOMAIN kept, a[1] # b[1]
      PROVE  kept[a].records \cap kept[b].records = {}
  <2>1. \A c \in DOMAIN kept : c \in {<<s, FALSE>>, <<s, TRUE>>} => c[1] = s
    BY PairParts
  <2>2. CASE a \in DOMAIN arcs /\ kept[a] = arcs[a]
    <3>1. CASE b \in DOMAIN arcs /\ kept[b] = arcs[b] BY <1>3, <2>2, <3>1 DEF NamesOk
    <3>2. CASE kept[b].records \in {f.records, {}} BY <1>2, <2>2, <3>2
    <3>3. QED BY <3>1, <3>2 DEF Shape
  <2>3. CASE kept[a].records \in {f.records, {}} /\ a \in {<<s, FALSE>>, <<s, TRUE>>}
    <3>1. b \notin {<<s, FALSE>>, <<s, TRUE>>} BY <1>3, <2>1, <2>3
    <3>2. b \in DOMAIN arcs /\ kept[b] = arcs[b] BY <3>1 DEF Shape
    <3>3. QED BY <1>2, <2>3, <3>2
  <2>4. QED BY <2>2, <2>3 DEF Shape
<1>4. QED BY <1>1, <1>3 DEF NamesOk

\* None is gone unless its records are.
LEMMA NoneDropped ==
  ASSUME NEW f, NEW arcs, NEW n, NEW t, NEW s, ArchivesOk(arcs, n, t), NamesOk(arcs),
         FileOk(f, arcs, n, t), NEW kept, Shape(kept, arcs, f, t, s),
         RecordsOf(arcs) \subseteq RecordsOf(kept)
  PROVE  DOMAIN arcs \subseteq DOMAIN kept
<1>1. SUFFICES ASSUME NEW a \in DOMAIN arcs \ DOMAIN kept PROVE FALSE OBVIOUS
<1>2. a = <<s, FALSE>> BY <1>1 DEF Shape
<1>3. ~a[2] /\ a[1] = s BY <1>2
<1>4. PICK k \in arcs[a].records : TRUE BY <1>3 DEF NamesOk
<1>5. PICK c \in DOMAIN kept : k \in kept[c].records BY <1>4, RecordsOfMember
<1>6. k \notin f.records
  <2>1. \A p \in arcs[a].records, l \in f.records : p < l BY DEF FileOk
  <2>2. arcs[a].records \subseteq Nat BY DEF ArchivesOk, FileFits
  <2>3. QED BY <1>4, <2>1, <2>2
<1>7. c[1] # s BY <1>1, <1>5, <1>6 DEF Shape
<1>8. c \notin {<<s, FALSE>>, <<s, TRUE>>} BY <1>7, PairParts
<1>9. c \in DOMAIN arcs /\ kept[c] = arcs[c] BY <1>8 DEF Shape
<1>10. QED BY <1>3, <1>4, <1>5, <1>7, <1>9 DEF NamesOk

\* What is newer than one of two archives is newer than the other, if that is no newer.
LEMMA NewerOrder ==
  ASSUME NEW arcs, NEW n, NEW t, ArchivesOk(arcs, n, t),
         NEW a \in DOMAIN arcs, NEW b \in DOMAIN arcs, NEW c \in DOMAIN arcs,
         ~LogFile!Newer(arcs, a, b), LogFile!Newer(arcs, c, b)
  PROVE  LogFile!Newer(arcs, c, a)
<1>1. arcs[a].time \in Int /\ arcs[b].time \in Int /\ arcs[c].time \in Int
  BY DEF ArchivesOk, FileFits
<1>2. arcs[c].time > arcs[b].time \/ (arcs[c].time = arcs[b].time /\ c[2] /\ ~b[2])
  BY DEF LogFile!Newer
<1>3. /\ arcs[a].time <= arcs[b].time
      /\ ~(arcs[a].time = arcs[b].time /\ a[2] /\ ~b[2])
  BY <1>1 DEF LogFile!Newer
<1>4. CASE arcs[c].time > arcs[a].time BY <1>4 DEF LogFile!Newer
<1>5. CASE ~(arcs[c].time > arcs[a].time)
  <2>1. arcs[c].time = arcs[b].time /\ arcs[a].time = arcs[b].time BY <1>1, <1>2, <1>3, <1>5
  <2>2. c[2] /\ ~b[2] BY <1>1, <1>2, <2>1
  <2>3. QED BY <1>3, <2>1, <2>2 DEF LogFile!Newer
<1>6. QED BY <1>4, <1>5

\* With more archives that are newer, an archive is beyond the limits as before.
LEMMA BeyondWithMore ==
  ASSUME NEW arcs, NEW other, NEW a, NEW t, IsFiniteSet(DOMAIN other),
         arcs[a] = other[a], NewerThan(arcs, a) \subseteq NewerThan(other, a), Beyond(arcs, a, t)
  PROVE  Beyond(other, a, t)
<1> DEFINE m == Cardinality(NewerThan(arcs, a))
           k == Cardinality(NewerThan(other, a))
<1>1. IsFiniteSet(NewerThan(other, a)) BY FS_Subset DEF NewerThan
<1>2. m \in Nat /\ k \in Nat /\ m <= k BY <1>1, FS_Subset, FS_CardinalityType
<1>3. (MaxArchives > 0 /\ m >= MaxArchives) \/ (MaxAge > 0 /\ arcs[a].time < t - MaxAge)
  BY DEF Beyond
<1> HIDE DEF m, k
<1>4. (MaxArchives > 0 /\ k >= MaxArchives) \/ (MaxAge > 0 /\ arcs[a].time < t - MaxAge)
  BY <1>2, <1>3, LogAssumption
<1>5. QED BY <1>4 DEF Beyond, k

\* A rotation does not bring an archive back within the limits.
LEMMA BeyondStays ==
  ASSUME NEW f, NEW arcs, NEW n, NEW t \in Nat, NEW s, ArchivesOk(arcs, n, t),
         FileOk(f, arcs, n, t), f.records # {}, NEW kept, Shape(kept, arcs, f, t, s), IsFiniteSet(DOMAIN kept),
         DOMAIN arcs \subseteq DOMAIN kept,
         NEW a \in DOMAIN arcs, kept[a] = arcs[a], Beyond(arcs, a, t)
  PROVE  Beyond(kept, a, t)
<1>1. ASSUME NEW b \in NewerThan(arcs, a) PROVE b \in NewerThan(kept, a)
  <2>1. b \in DOMAIN arcs /\ LogFile!Newer(arcs, b, a) /\ b \in DOMAIN kept
    BY <1>1 DEF NewerThan
  <2>2. CASE kept[b] = arcs[b] BY <2>1, <2>2 DEF NewerThan, LogFile!Newer
  <2>3. CASE kept[b].time \in {f.time, t}
    <3>1. /\ arcs[a].time \in Int /\ f.time \in Int /\ t \in Int
          /\ arcs[a].time < f.time /\ f.time <= t
      BY DEF ArchivesOk, FileOk, FileFits
    <3>2. kept[b].time > kept[a].time BY <2>3, <3>1
    <3>3. QED BY <2>1, <3>2 DEF NewerThan, LogFile!Newer
  <2>4. QED BY <2>1, <2>2, <2>3 DEF Shape
<1>2. QED BY <1>1, BeyondWithMore

\* The rename and the compression leave such archives, wherever they end.
LEMMA ArchivedShape ==
  ASSUME NEW f, NEW end
  PROVE  LogInv => Shape(LogFile!Archived(f, end), archives, f, logFileNow,
                         logFileNow \div LogSecond)
<1> DEFINE s == logFileNow \div LogSecond
<1> SUFFICES ASSUME LogInv PROVE Shape(LogFile!Archived(f, end), archives, f, logFileNow, s)
  OBVIOUS
<1> DEFINE r == LogFile!Raw
           z == LogFile!Zip
           copy == [records |-> IF end = "compress" THEN {} ELSE f.records,
                    time |-> logFileNow]
           renamed == LogFile!Assign(archives, r, f)
           copied == LogFile!Assign(renamed, z, copy)
<1>1. r = <<s, FALSE>> /\ z = <<s, TRUE>> BY DEF LogFile!Raw, LogFile!Zip
<1>2. LogFile!Archived(f, end) =
        IF end = "rename" \/ ~Compress THEN renamed
        ELSE IF end \in {"compress", "remove"} THEN copied
        ELSE LogFile!Without(copied, {r})
  BY DEF LogFile!Archived
<1>3. copy.time = logFileNow /\ copy.records \in {f.records, {}}
      /\ (end # "compress" => copy.records = f.records)
  OBVIOUS
<1> HIDE DEF s, r, z, copy
<1>4. r # z
  <2>1. r[2] = FALSE /\ z[2] = TRUE BY <1>1
  <2>2. QED BY <2>1
<1>5. IsFiniteSet({r, z})
  <2>1. IsFiniteSet({r}) BY FS_Singleton
  <2>2. {r, z} = {r} \cup {z} OBVIOUS
  <2>3. QED BY <2>1, <2>2, FS_AddElement
<1>6. CASE LogFile!Archived(f, end) = renamed
  <2>1. DOMAIN renamed = DOMAIN archives \cup {r} BY DEF LogFile!Assign
  <2>2. renamed[r] = f /\ \A a \in DOMAIN archives \ {r} : renamed[a] = archives[a]
    BY DEF LogFile!Assign
  <2> HIDE DEF renamed
  <2>3. QED BY <1>1, <1>5, <1>6, <2>1, <2>2 DEF Shape
<1>7. DOMAIN copied = DOMAIN archives \cup {r, z} BY DEF LogFile!Assign
<1>8. /\ copied[r] = f /\ copied[z] = copy
      /\ \A a \in DOMAIN archives \ {r, z} : copied[a] = archives[a]
  BY <1>4 DEF LogFile!Assign
<1>9. CASE LogFile!Archived(f, end) = copied
  <2> HIDE DEF copied
  <2>1. QED BY <1>1, <1>3, <1>5, <1>7, <1>8, <1>9 DEF Shape
<1>10. CASE LogFile!Archived(f, end) = LogFile!Without(copied, {r}) /\ end # "compress"
  <2> HIDE DEF copied
  <2> DEFINE left == LogFile!Without(copied, {r})
  <2>1. DOMAIN left = (DOMAIN archives \cup {z}) \ {r} BY <1>4, <1>7 DEF LogFile!Without
  <2>2. \A a \in DOMAIN left : left[a] = copied[a] BY <1>7, <2>1 DEF LogFile!Without
  <2> HIDE DEF left
  <2>3. z \in DOMAIN left /\ left[z] = copy /\ copy.records = f.records
    BY <1>3, <1>4, <1>8, <1>10, <2>1, <2>2
  <2>4. ASSUME NEW b \in DOMAIN left, b[1] = s PROVE b = z
    <3>1. CASE b = z BY <3>1
    <3>2. CASE b \in DOMAIN archives /\ b # r
      <4>1. PICK u : b \in {<<u, FALSE>>, <<u, TRUE>>}
        BY <3>2 DEF LogInv, DiskOk, ArchivesOk, Named
      <4>2. b[1] = u BY <4>1, PairParts
      <4>3. QED BY <1>1, <2>4, <3>2, <4>1, <4>2
    <3>3. QED BY <2>1, <3>1, <3>2
  <2>5. \A a \in DOMAIN archives \ DOMAIN left : a = r BY <2>1
  <2>6. \A a \in DOMAIN left : \/ left[a] = copy /\ a = z
                               \/ a \in DOMAIN archives /\ left[a] = archives[a]
    BY <1>8, <2>1, <2>2, <2>3
  <2>7. DOMAIN left \subseteq DOMAIN archives \cup {r, z} BY <2>1
  <2>8. Shape(left, archives, f, logFileNow, s)
    BY <1>1, <1>3, <1>5, <2>3, <2>4, <2>5, <2>6, <2>7 DEF Shape
  <2>9. QED BY <1>10, <2>8 DEF left
<1>11. QED BY <1>2, <1>6, <1>9, <1>10

\* ToPrune is what is beyond the limits.
LEMMA ToPruneIsBeyond ==
  ASSUME NEW arcs
  PROVE  LogFile!ToPrune(arcs) = {a \in DOMAIN arcs : Beyond(arcs, a, logFileNow)}
<1>1. \A S : LogFile!Cardinality(S) = Cardinality(S)
  BY DEF LogFile!Cardinality, Cardinality
<1>2. QED BY <1>1 DEF LogFile!ToPrune, Beyond, NewerThan

\* One that is no newer than an archive beyond the limits is beyond them, too.
LEMMA BeyondDownward ==
  ASSUME NEW arcs, NEW n, NEW t \in Nat, ArchivesOk(arcs, n, t), NEW g \in DOMAIN arcs,
         NEW a \in DOMAIN arcs, ~LogFile!Newer(arcs, a, g), Beyond(arcs, g, t)
  PROVE  Beyond(arcs, a, t)
<1> DEFINE m == Cardinality(NewerThan(arcs, g))
           k == Cardinality(NewerThan(arcs, a))
<1>1. NewerThan(arcs, g) \subseteq NewerThan(arcs, a) BY NewerOrder DEF NewerThan
<1>2. IsFiniteSet(NewerThan(arcs, a)) BY FS_Subset DEF NewerThan, ArchivesOk
<1>3. m \in Nat /\ k \in Nat /\ m <= k BY <1>1, <1>2, FS_Subset, FS_CardinalityType
<1>4. arcs[a].time \in Int /\ arcs[g].time \in Int /\ arcs[a].time <= arcs[g].time
  BY DEF ArchivesOk, FileFits, LogFile!Newer
<1>5. (MaxArchives > 0 /\ m >= MaxArchives) \/ (MaxAge > 0 /\ arcs[g].time < t - MaxAge)
  BY DEF Beyond
<1> HIDE DEF m, k
<1>6. (MaxArchives > 0 /\ k >= MaxArchives) \/ (MaxAge > 0 /\ arcs[a].time < t - MaxAge)
  BY <1>3, <1>4, <1>5, LogAssumption
<1>7. QED BY <1>6 DEF Beyond, k

\* Some numbers have a least one.
LEMMA LeastOf ==
  ASSUME NEW S \in SUBSET Nat, S # {}
  PROVE  \E m \in S : \A n \in S : m <= n
<1> DEFINE R == OpToRel(<, Nat)
<1>1. IsWellFoundedOn(R, Nat) BY NatLessThanWellFounded
<1>2. \E m \in S : \A n \in S : <<n, m>> \notin R
  <2> HIDE DEF R
  <2>1. QED BY <1>1, WFMin
<1>3. \A m, n \in Nat : <<n, m>> \notin R => m <= n BY DEF OpToRel
<1>4. QED BY <1>2, <1>3

\* Of some archives none of which is later than t, one is the newest.
LEMMA NewestArchive ==
  ASSUME NEW arcs, NEW n, NEW t \in Nat, ArchivesOk(arcs, n, t),
         NEW D, D \subseteq DOMAIN arcs, D # {}
  PROVE  \E g \in D : \A d \in D : ~LogFile!Newer(arcs, d, g)
<1> DEFINE ages == {t - arcs[d].time : d \in D}
<1>1. \A d \in D : arcs[d].time \in Int /\ t - arcs[d].time \in Nat
  BY DEF ArchivesOk, FileFits
<1>2. ages \subseteq Nat /\ ages # {} BY <1>1
<1>3. PICK y \in ages : \A x \in ages : y <= x BY <1>2, LeastOf
<1>4. PICK h \in D : y = t - arcs[h].time BY <1>3
<1>5. \A d \in D : arcs[d].time <= arcs[h].time
  <2>1. SUFFICES ASSUME NEW d \in D PROVE arcs[d].time <= arcs[h].time OBVIOUS
  <2>2. y <= t - arcs[d].time BY <1>3
  <2>3. QED BY <1>1, <1>4, <2>2
<1>6. CASE \E g \in D : arcs[g].time = arcs[h].time /\ g[2]
  <2>1. PICK g \in D : arcs[g].time = arcs[h].time /\ g[2] BY <1>6
  <2>2. \A d \in D : ~(arcs[d].time > arcs[g].time) BY <1>1, <1>5, <2>1
  <2>3. QED BY <2>1, <2>2 DEF LogFile!Newer
<1>7. CASE ~\E g \in D : arcs[g].time = arcs[h].time /\ g[2]
  <2>1. \A d \in D : ~(arcs[d].time > arcs[h].time) BY <1>1, <1>5
  <2>2. QED BY <1>7, <2>1 DEF LogFile!Newer
<1>8. QED BY <1>6, <1>7

\* What stays beyond the limits although others were removed is still beyond them: what is
\* newer and within the limits was not removed.
LEMMA BeyondAfterRemoval ==
  ASSUME NEW arcs, NEW n, NEW t \in Nat, ArchivesOk(arcs, n, t),
         NEW gone, \A g \in gone : g \in DOMAIN arcs /\ Beyond(arcs, g, t),
         NEW left, DOMAIN left = DOMAIN arcs \ gone, \A b \in DOMAIN left : left[b] = arcs[b],
         NEW a \in DOMAIN left, Beyond(arcs, a, t)
  PROVE  Beyond(left, a, t)
<1> DEFINE D == NewerThan(arcs, a) \cap gone
<1>1. IsFiniteSet(DOMAIN left) BY FS_Subset DEF ArchivesOk
<1>2. \A b \in DOMAIN left : LogFile!Newer(left, b, a) <=> LogFile!Newer(arcs, b, a)
  BY DEF LogFile!Newer
<1>3. CASE D = {}
  <2>1. NewerThan(arcs, a) \subseteq NewerThan(left, a) BY <1>2, <1>3 DEF NewerThan
  <2>2. QED BY <1>1, <2>1, BeyondWithMore
<1>4. CASE D # {}
  <2>1. D \subseteq DOMAIN arcs BY DEF NewerThan
  <2>2. PICK g \in D : \A d \in D : ~LogFile!Newer(arcs, d, g) BY <1>4, <2>1, NewestArchive
  <2>3. g \in DOMAIN arcs /\ Beyond(arcs, g, t) /\ LogFile!Newer(arcs, g, a)
    BY <2>2 DEF NewerThan
  <2>4. ~LogFile!Newer(arcs, a, g)
    <3>1. arcs[a].time \in Int /\ arcs[g].time \in Int BY <2>3 DEF ArchivesOk, FileFits
    <3>2. QED BY <2>3, <3>1 DEF LogFile!Newer
  <2>5. NewerThan(arcs, g) \subseteq NewerThan(left, a)
    <3>1. SUFFICES ASSUME NEW b \in NewerThan(arcs, g) PROVE b \in NewerThan(left, a) OBVIOUS
    <3>2. b \in DOMAIN arcs /\ LogFile!Newer(arcs, b, g) BY <3>1 DEF NewerThan
    <3>3. LogFile!Newer(arcs, b, a) BY <2>3, <2>4, <3>2, NewerOrder
    <3>4. b \notin D BY <2>2, <3>2
    <3>5. b \in DOMAIN left BY <3>2, <3>3, <3>4 DEF NewerThan
    <3>6. QED BY <1>2, <3>3, <3>5 DEF NewerThan
  <2> DEFINE m == Cardinality(NewerThan(arcs, g))
             k == Cardinality(NewerThan(left, a))
  <2>6. IsFiniteSet(NewerThan(left, a)) BY <1>1, FS_Subset DEF NewerThan
  <2>7. m \in Nat /\ k \in Nat /\ m <= k BY <2>5, <2>6, FS_Subset, FS_CardinalityType
  <2>8. /\ arcs[a].time \in Int /\ arcs[g].time \in Int /\ left[a].time = arcs[a].time
        /\ arcs[a].time <= arcs[g].time
    BY <2>3, <2>4 DEF ArchivesOk, FileFits, LogFile!Newer
  <2>9. (MaxArchives > 0 /\ m >= MaxArchives) \/ (MaxAge > 0 /\ arcs[g].time < t - MaxAge)
    BY <2>3 DEF Beyond
  <2> HIDE DEF m, k
  <2>10. (MaxArchives > 0 /\ k >= MaxArchives) \/ (MaxAge > 0 /\ left[a].time < t - MaxAge)
    BY <2>7, <2>8, <2>9, LogAssumption
  <2>11. QED BY <2>10 DEF Beyond, k
<1>5. QED BY <1>3, <1>4

\* A record is in RecordsIn when one of the archives has it.
LEMMA RecordsInMember ==
  ASSUME NEW arcs, NEW ks, NEW k
  PROVE  /\ k \in LogFile!RecordsIn(arcs, ks) <=> \E a \in ks \cap DOMAIN arcs : k \in arcs[a].records
         /\ LogFile!RecordsIn(arcs, DOMAIN arcs) = RecordsOf(arcs)
<1>1. DOMAIN arcs \cap DOMAIN arcs = DOMAIN arcs OBVIOUS
<1>2. QED BY <1>1 DEF LogFile!RecordsIn, RecordsOf

\* The disk is right with a file in place of one that has the same records.
LEMMA SameRecords ==
  ASSUME LogInv, NEW f, FileOk(f, archives, last, logFileNow), f.records = logFileFile.records
  PROVE  DiskOk(f, archives, pruned, replaced, written, swept, last, logFileNow)
BY DEF LogInv, DiskOk, PrunedOk, Kept

\* With the file archived, and before the pruning, what is older than what was deleted is as
\* it was: still there only when a removal failed, and then beyond the limits.
LEMMA ArchivedIsOk ==
  ASSUME NEW f, NEW arcs, NEW n, NEW t \in Nat, NEW s, NEW P, NEW sw,
         ArchivesOk(arcs, n, t), NamesOk(arcs), FileOk(f, arcs, n, t), f.records # {},
         NEW kept, Shape(kept, arcs, f, t, s), IsFiniteSet(DOMAIN kept),
         RecordsOf(arcs) \subseteq RecordsOf(kept), PrunedOk(P, f, arcs, sw, n, t),
         NEW p \in P, NEW a \in DOMAIN kept, NEW k \in kept[a].records
  PROVE  k \in P \/ p < k \/ (~sw /\ Beyond(kept, a, t))
<1>1. CASE a \in DOMAIN arcs /\ kept[a] = arcs[a]
  <2>1. k \in P \/ p < k \/ (~sw /\ Beyond(arcs, a, t)) BY <1>1 DEF PrunedOk
  <2>2. DOMAIN arcs \subseteq DOMAIN kept BY NoneDropped
  <2>3. Beyond(arcs, a, t) => Beyond(kept, a, t) BY <1>1, <2>2, BeyondStays
  <2>4. QED BY <2>1, <2>3
<1>2. CASE kept[a].records \in {f.records, {}} BY <1>2 DEF PrunedOk
<1>3. QED BY <1>1, <1>2 DEF Shape

\* It is right with a function in place of archives that are the same one by one.
LEMMA SameArchives ==
  ASSUME NEW f, NEW arcs, NEW other, NEW P, NEW R, NEW W, NEW sw, NEW n, NEW t,
         DiskOk(f, arcs, P, R, W, sw, n, t),
         DOMAIN other = DOMAIN arcs, \A a \in DOMAIN arcs : other[a] = arcs[a]
  PROVE  DiskOk(f, other, P, R, W, sw, n, t)
<1>1. \A a, b \in DOMAIN arcs : LogFile!Newer(other, b, a) <=> LogFile!Newer(arcs, b, a)
  BY DEF LogFile!Newer
<1>2. ArchivesOk(other, n, t) BY <1>1 DEF DiskOk, ArchivesOk
<1>3. \A a \in DOMAIN arcs : NewerThan(other, a) = NewerThan(arcs, a) BY <1>1 DEF NewerThan
<1>4. \A a \in DOMAIN arcs : Beyond(other, a, t) <=> Beyond(arcs, a, t) BY <1>3 DEF Beyond
<1>5. RecordsOf(other) = RecordsOf(arcs) BY DEF RecordsOf
<1>6. NamesOk(other) /\ FileOk(f, other, n, t) BY DEF DiskOk, NamesOk, FileOk
<1>7. R = {} => PrunedOk(P, f, other, sw, n, t) BY <1>4 DEF DiskOk, PrunedOk
<1>8. QED BY <1>2, <1>5, <1>6, <1>7 DEF DiskOk, Kept

\* It is right when the file is archived, some of what is beyond the limits pruned, and the
\* new file is empty: the archives with it are ordered, and so what is pruned is the oldest
\* but for what was to be pruned as well.
LEMMA MovedIsOk ==
  ASSUME LogInv, NEW f, FileOk(f, archives, last, logFileNow),
         f.records = logFileFile.records, f.records # {},
         NEW s, NEW arcs, Shape(arcs, archives, f, logFileNow, s),
         NEW gone, gone \subseteq LogFile!ToPrune(arcs),
         NEW sw, sw => gone = LogFile!ToPrune(arcs) \/ (gone = {} /\ swept),
         NEW left, DOMAIN left = DOMAIN arcs \ gone,
         \A a \in DOMAIN left : left[a] = arcs[a],
         NEW e, e.records = {}, e.time \in Int, e.time <= logFileNow
  PROVE  DiskOk(e, left, pruned \cup LogFile!RecordsIn(arcs, gone),
                replaced \cup (RecordsOf(archives) \ RecordsOf(arcs)),
                written, sw, last, logFileNow)
<1> DEFINE n == last
           t == logFileNow
           P == pruned \cup LogFile!RecordsIn(arcs, gone)
           R == replaced \cup (RecordsOf(archives) \ RecordsOf(arcs))
<1>1. /\ n \in Nat /\ t \in Nat /\ ArchivesOk(archives, n, t) /\ NamesOk(archives)
      /\ pruned \subseteq 1..n
      /\ replaced = {} => PrunedOk(pruned, f, archives, swept, n, t)
      /\ Kept(written, f, archives, pruned, replaced)
  BY SameRecords DEF DiskOk
<1>2. /\ ArchivesOk(arcs, n, t)
      /\ RecordsOf(arcs) \subseteq RecordsOf(archives) \cup f.records
      /\ f.records \subseteq RecordsOf(arcs)
  BY <1>1, ShapeIsOk
<1>3. \A g \in gone : g \in DOMAIN arcs /\ Beyond(arcs, g, t) BY ToPruneIsBeyond
<1>4. ArchivesOk(left, n, t)
  <2>1. IsFiniteSet(DOMAIN left) BY <1>2, FS_Subset DEF ArchivesOk
  <2>2. \A a, b \in DOMAIN left : LogFile!Newer(left, b, a) => LogFile!Newer(arcs, b, a)
    BY DEF LogFile!Newer
  <2>3. QED BY <1>2, <2>1, <2>2 DEF ArchivesOk
<1>5. NamesOk(left)
  <2>1. NamesOk(arcs) BY <1>1, ShapeIsNamed
  <2>2. QED BY <2>1 DEF NamesOk
<1>6. FileOk(e, left, n, t) BY DEF FileOk, FileFits
<1>7. P \subseteq 1..n
  <2>1. SUFFICES ASSUME NEW p \in P PROVE p \in 1..n OBVIOUS
  <2>2. CASE p \in pruned BY <1>1, <2>2
  <2>3. CASE \E a \in DOMAIN arcs : p \in arcs[a].records
    BY <1>2, <2>3 DEF ArchivesOk, FileFits
  <2>4. QED BY <2>2, <2>3, RecordsInMember
<1>8. ASSUME R = {} PROVE PrunedOk(P, e, left, sw, n, t)
  <2>1. replaced = {} /\ RecordsOf(archives) \subseteq RecordsOf(arcs) BY <1>8
  <2>2. PrunedOk(pruned, f, archives, swept, n, t) BY <1>1, <2>1
  <2>3. ASSUME NEW p \in P, NEW a \in DOMAIN left, NEW k \in left[a].records
        PROVE  k \in P \/ p < k \/ (~sw /\ Beyond(left, a, t))
    <3>1. a \in DOMAIN arcs /\ a \notin gone /\ k \in arcs[a].records BY <2>3
    <3>2. CASE ~Beyond(arcs, a, t) \/ (gone = {} /\ swept)
      <4>1. CASE p \in pruned
        <5>1. IsFiniteSet(DOMAIN arcs) BY <1>2 DEF ArchivesOk
        <5>2. k \in pruned \/ p < k \/ (~swept /\ Beyond(arcs, a, t))
          BY <1>1, <2>1, <2>2, <3>1, <4>1, <5>1, ArchivedIsOk
        <5>3. QED BY <3>2, <5>2
      <4>2. CASE p \notin pruned
        <5>1. PICK g \in gone : g \in DOMAIN arcs /\ p \in arcs[g].records
          BY <4>2, RecordsInMember
        <5>2. Beyond(arcs, g, t) /\ ~Beyond(arcs, a, t) BY <1>3, <3>2, <5>1
        <5>3. LogFile!Newer(arcs, a, g) BY <1>1, <1>2, <3>1, <5>1, <5>2, BeyondDownward
        <5>4. p < k \/ k \in arcs[g].records
          BY <1>2, <3>1, <5>1, <5>3 DEF ArchivesOk, Precedes
        <5>5. QED BY <5>1, <5>4, RecordsInMember
      <4>3. QED BY <4>1, <4>2
    <3>3. CASE Beyond(arcs, a, t) /\ ~(gone = {} /\ swept)
      <4>1. a \in LogFile!ToPrune(arcs) BY <3>1, <3>3, ToPruneIsBeyond
      <4>2. ~sw BY <3>1, <3>3, <4>1
      <4>3. Beyond(left, a, t)
        BY <1>1, <1>2, <1>3, <2>3, <3>3, BeyondAfterRemoval
      <4>4. QED BY <4>2, <4>3
    <3>4. QED BY <3>2, <3>3
  <2>4. QED BY <1>7, <2>3 DEF PrunedOk
<1>9. Kept(written, e, left, P, R)
  <2>1. ASSUME NEW k \in RecordsOf(arcs) PROVE k \in RecordsOf(left) \/ k \in P
    <3>1. PICK a \in DOMAIN arcs : k \in arcs[a].records BY <2>1, RecordsOfMember
    <3>2. CASE a \in gone BY <3>1, <3>2, RecordsInMember
    <3>3. CASE a \notin gone BY <3>1, <3>3, RecordsOfMember
    <3>4. QED BY <3>2, <3>3
  <2>2. pruned \subseteq P /\ replaced \cup (RecordsOf(archives) \ RecordsOf(arcs)) = R OBVIOUS
  <2> HIDE DEF P, R
  <2>3. QED BY <1>1, <1>2, <2>1, <2>2 DEF Kept
<1>10. QED BY <1>1, <1>4, <1>5, <1>6, <1>7, <1>8, <1>9 DEF DiskOk

\* What a rotation leaves, whichever of its steps fails.
LEMMA RotationIsOk ==
  ASSUME LogInv, NEW f, FileOk(f, archives, last, logFileNow),
         f.records = logFileFile.records, f.records # {}, NEW failure, NEW stuck
  PROVE  LET r == LogFile!Rotate(f, failure, stuck)
         IN DiskOk(r.file, r.archives, pruned \cup r.pruned, replaced \cup r.replaced,
                   written, r.swept, last, logFileNow)
<1> DEFINE r == LogFile!Rotate(f, failure, stuck)
           arcs == LogFile!Archived(f, failure)
           gone == LogFile!ToPrune(arcs) \ stuck
           left == LogFile!Without(arcs, gone)
           moved == failure \notin {"close", "rename", "reopen"}
           s == logFileNow \div LogSecond
<1>1. CASE ~moved
  <2>1. /\ r.file = f /\ r.archives = archives /\ r.pruned = {} /\ r.replaced = {}
        /\ r.swept = swept
    BY <1>1 DEF LogFile!Rotate
  <2>2. pruned \cup r.pruned = pruned /\ replaced \cup r.replaced = replaced BY <2>1
  <2> HIDE DEF r
  <2>3. QED BY <2>1, <2>2, SameRecords DEF r
<1>2. CASE moved
  <2>1. /\ r.file \in {LogFile!Empty, LogFile!NoFile} /\ r.archives = left
        /\ r.pruned = LogFile!RecordsIn(arcs, gone)
        /\ r.replaced = LogFile!RecordsIn(archives, DOMAIN archives)
                          \ LogFile!RecordsIn(arcs, DOMAIN arcs)
        /\ r.swept = (gone = LogFile!ToPrune(arcs))
    BY <1>2 DEF LogFile!Rotate
  <2>2. r.file.records = {} /\ r.file.time \in Int /\ r.file.time <= logFileNow
    <3>1. logFileNow \in Nat BY DEF LogInv, DiskOk
    <3>2. LogFile!Empty.records = {} /\ LogFile!Empty.time = logFileNow
      BY DEF LogFile!Empty
    <3>3. LogFile!NoFile.records = {} /\ LogFile!NoFile.time = -1 BY DEF LogFile!NoFile
    <3>4. QED BY <2>1, <3>1, <3>2, <3>3
  <2>3. Shape(arcs, archives, f, logFileNow, s) BY ArchivedShape
  <2>4. DOMAIN left = DOMAIN arcs \ gone /\ \A a \in DOMAIN left : left[a] = arcs[a]
    BY DEF LogFile!Without
  <2>5. gone \subseteq LogFile!ToPrune(arcs) OBVIOUS
  <2>6. r.replaced = RecordsOf(archives) \ RecordsOf(arcs) BY <2>1, RecordsInMember
  <2> HIDE DEF r, arcs, gone, left, s
  <2>7. DiskOk(r.file, left, pruned \cup LogFile!RecordsIn(arcs, gone),
               replaced \cup (RecordsOf(archives) \ RecordsOf(arcs)), written, r.swept,
               last, logFileNow)
    BY <2>1, <2>2, <2>3, <2>4, <2>5, MovedIsOk
  <2>8. QED BY <2>1, <2>6, <2>7 DEF r
<1>3. QED BY <1>1, <1>2

\* A later moment, with a further record or without.
LEMMA NextRecord ==
  ASSUME NEW f, NEW arcs, NEW P, NEW R, NEW W, NEW sw, NEW n, NEW t,
         DiskOk(f, arcs, P, R, W, sw, n, t)
  PROVE  /\ DiskOk(f, arcs, P, R, W, sw, n, t + 1)
         /\ DiskOk(f, arcs, P, R, W, sw, n + 1, t + 1)
         /\ DiskOk([records |-> f.records \cup {n + 1}, time |-> t + 1], arcs, P, R,
                   W \cup {n + 1}, sw, n + 1, t + 1)
<1> DEFINE g == [records |-> f.records \cup {n + 1}, time |-> t + 1]
<1>1. n \in Nat /\ t \in Nat /\ n + 1 \in Nat /\ t + 1 \in Nat BY DEF DiskOk
<1>2. 1..n \subseteq 1..(n + 1) BY <1>1
<1>3. g.records = f.records \cup {n + 1} /\ g.time = t + 1 OBVIOUS
<1> HIDE DEF g
<1>4. ASSUME NEW h, FileFits(h, n, t)
      PROVE  FileFits(h, n, t + 1) /\ FileFits(h, n + 1, t + 1)
  BY <1>1, <1>2, <1>4 DEF FileFits
<1>5. ArchivesOk(arcs, n, t + 1) /\ ArchivesOk(arcs, n + 1, t + 1)
  BY <1>4 DEF DiskOk, ArchivesOk
<1>6. FileOk(f, arcs, n, t + 1) /\ FileOk(f, arcs, n + 1, t + 1)
  BY <1>4 DEF DiskOk, FileOk
<1>7. ASSUME NEW a \in DOMAIN arcs, Beyond(arcs, a, t) PROVE Beyond(arcs, a, t + 1)
  <2> DEFINE m == arcs[a].time
  <2>1. m \in Int BY DEF DiskOk, ArchivesOk, FileFits
  <2> HIDE DEF m
  <2>2. m < t - MaxAge => m < (t + 1) - MaxAge BY <1>1, <2>1, LogAssumption
  <2>3. /\ arcs[a].time < t - MaxAge <=> m < t - MaxAge
        /\ arcs[a].time < (t + 1) - MaxAge <=> m < (t + 1) - MaxAge
    BY DEF m
  <2>4. CASE MaxArchives > 0 /\ Cardinality(NewerThan(arcs, a)) >= MaxArchives
    BY <2>4 DEF Beyond
  <2>5. CASE MaxAge > 0 /\ arcs[a].time < t - MaxAge BY <2>2, <2>3, <2>5 DEF Beyond
  <2>6. QED BY <1>7, <2>4, <2>5 DEF Beyond
<1>8. ASSUME R = {} PROVE PrunedOk(P, f, arcs, sw, n, t + 1) /\ PrunedOk(P, f, arcs, sw, n + 1, t + 1)
  BY <1>2, <1>7, <1>8 DEF DiskOk, PrunedOk
<1>9. FileOk(g, arcs, n + 1, t + 1)
  <2>1. FileFits(g, n + 1, t + 1)
    BY <1>1, <1>2, <1>3 DEF DiskOk, FileOk, FileFits
  <2>2. ASSUME NEW a \in DOMAIN arcs
        PROVE  /\ \A p \in arcs[a].records, k \in g.records : p < k
               /\ g.records # {} => arcs[a].time < g.time
    <3>1. arcs[a].records \subseteq 1..n /\ arcs[a].time \in Int /\ arcs[a].time <= t
      BY DEF DiskOk, ArchivesOk, FileFits
    <3>2. \A p \in arcs[a].records, k \in f.records : p < k BY DEF DiskOk, FileOk
    <3>3. \A p \in arcs[a].records : p < n + 1 BY <1>1, <3>1
    <3>4. arcs[a].time < t + 1 BY <1>1, <3>1
    <3>5. QED BY <1>3, <3>2, <3>3, <3>4
  <2>3. QED BY <2>1, <2>2 DEF FileOk
<1>10. ASSUME R = {} PROVE PrunedOk(P, g, arcs, sw, n + 1, t + 1)
  <2>1. P \subseteq 1..n BY DEF DiskOk
  <2>2. \A p \in P : p < n + 1 BY <1>1, <2>1
  <2>3. QED BY <1>3, <1>8, <1>10, <2>2 DEF PrunedOk
<1>11. Kept(W \cup {n + 1}, g, arcs, P, R) BY <1>3 DEF DiskOk, Kept
<1>12. P \subseteq 1..(n + 1) /\ NamesOk(arcs) BY <1>2 DEF DiskOk
<1>3a. QED BY <1>1, <1>5, <1>6, <1>8, <1>9, <1>10, <1>11, <1>12 DEF DiskOk, g

\* Opening a file that is not there makes an empty one.
LEMMA OpenedIsOk ==
  ASSUME LogInv, NEW f, f \in {logFileFile, LogFile!Opened(logFileFile)}
  PROVE  FileOk(f, archives, last, logFileNow) /\ f.records = logFileFile.records
<1>1. FileOk(logFileFile, archives, last, logFileNow) /\ logFileNow \in Nat
  BY DEF LogInv, DiskOk
<1>2. CASE f = logFileFile BY <1>1, <1>2
<1>3. CASE f = LogFile!Empty /\ logFileFile = LogFile!NoFile
  <2>1. f.records = {} /\ f.time = logFileNow BY <1>3 DEF LogFile!Empty
  <2>2. logFileFile.records = {} BY <1>3 DEF LogFile!NoFile
  <2>3. QED BY <1>1, <2>1, <2>2 DEF FileOk, FileFits
<1>4. QED BY <1>2, <1>3 DEF LogFile!Opened

\* A record is written, or is not for want of an open file.
LEMMA WriteStep ==
  ASSUME LogInv, NEW failure, NEW stuck, LogFile!Write(failure, stuck)
  PROVE  LogInv'
<1> DEFINE reopens == handle = "none"
           f == IF reopens THEN LogFile!Opened(logFileFile) ELSE logFileFile
           d == IF reopens THEN LogFile!DayOf(f.time) ELSE day
           r == IF handle = "closed" THEN [LogFile!Same(f, d) EXCEPT !.handle = "closed"]
                ELSE IF LogFile!Due(f, d) THEN LogFile!Rotate(f, failure, stuck)
                ELSE LogFile!Same(f, d)
           ok == r.handle = "open" /\ failure # "write"
<1>1. last' = last + 1 /\ logFileNow' = logFileNow + 1 BY DEF LogFile!Write
<1>2. CASE reopens /\ failure = "open"
  <2>1. UNCHANGED <<logFileFile, archives, pruned, replaced, written, swept>>
    BY <1>2 DEF LogFile!Write, LogFile!disk, LogFile!history
  <2>2. QED BY <1>1, <2>1, NextRecord DEF LogInv
<1>3. CASE ~(reopens /\ failure = "open")
  <2>1. /\ archives' = r.archives
        /\ logFileFile' = IF ok THEN [records |-> r.file.records \cup {last + 1},
                                      time |-> logFileNow + 1] ELSE r.file
        /\ written' = IF ok THEN written \cup {last + 1} ELSE written
        /\ pruned' = pruned \cup r.pruned /\ replaced' = replaced \cup r.replaced
        /\ swept' = r.swept
    BY <1>3 DEF LogFile!Write
  <2>2. FileOk(f, archives, last, logFileNow) /\ f.records = logFileFile.records
    BY OpenedIsOk
  <2>3. DiskOk(r.file, r.archives, pruned \cup r.pruned, replaced \cup r.replaced,
               written, r.swept, last, logFileNow)
    <3> HIDE DEF f, d
    <3>1. CASE r = LogFile!Rotate(f, failure, stuck) /\ LogFile!Due(f, d)
      <4>1. f.records # {} BY <3>1 DEF LogFile!Due
      <4>2. QED BY <2>2, <3>1, <4>1, RotationIsOk
    <3>2. CASE r \in {LogFile!Same(f, d), [LogFile!Same(f, d) EXCEPT !.handle = "closed"]}
      <4>1. /\ r.file = f /\ r.archives = archives /\ r.pruned = {} /\ r.replaced = {}
            /\ r.swept = swept
        BY <3>2 DEF LogFile!Same
      <4>2. pruned \cup r.pruned = pruned /\ replaced \cup r.replaced = replaced BY <4>1
      <4> HIDE DEF r
      <4>3. QED BY <2>2, <4>1, <4>2, SameRecords
    <3>3. QED BY <3>1, <3>2
  <2> HIDE DEF r
  <2>4. CASE ok BY <1>1, <2>1, <2>3, <2>4, NextRecord DEF LogInv
  <2>5. CASE ~ok BY <1>1, <2>1, <2>3, <2>5, NextRecord DEF LogInv
  <2>6. QED BY <2>4, <2>5
<1>4. QED BY <1>2, <1>3

\* The process starts again after a stop between records, or in a rotation.
LEMMA RestartStep ==
  ASSUME LogInv, NEW stop, NEW gone, LogFile!Restart(stop, gone)
  PROVE  LogInv'
<1>1. UNCHANGED <<last, logFileNow, written>> BY DEF LogFile!Restart
<1>2. CASE stop = "idle"
  <2>1. /\ gone = {} /\ archives' = LogFile!Without(archives, gone)
        /\ logFileFile' = LogFile!Opened(logFileFile)
        /\ pruned' = pruned \cup LogFile!RecordsIn(archives, gone)
        /\ replaced' = replaced \cup (LogFile!RecordsIn(archives, DOMAIN archives)
                                        \ LogFile!RecordsIn(archives, DOMAIN archives))
        /\ swept' = swept
    BY <1>2 DEF LogFile!Restart
  <2>2. pruned' = pruned /\ replaced' = replaced
    <3>1. LogFile!RecordsIn(archives, {}) = {} BY DEF LogFile!RecordsIn
    <3>2. QED BY <2>1, <3>1
  <2>3. LogFile!Without(archives, {}) = [j \in DOMAIN archives |-> archives[j]]
    <3>1. DOMAIN archives \ {} = DOMAIN archives OBVIOUS
    <3>2. QED BY <3>1 DEF LogFile!Without
  <2>4. DOMAIN archives' = DOMAIN archives /\ \A a \in DOMAIN archives : archives'[a] = archives[a]
    BY <2>1, <2>3
  <2>5. DiskOk(logFileFile', archives, pruned, replaced, written, swept, last, logFileNow)
    BY <2>1, OpenedIsOk, SameRecords
  <2> DEFINE g == logFileFile'
             other == archives'
  <2>6. DiskOk(g, other, pruned, replaced, written, swept, last, logFileNow)
    <3>1. DOMAIN other = DOMAIN archives /\ \A a \in DOMAIN archives : other[a] = archives[a]
      BY <2>4
    <3>2. DiskOk(g, archives, pruned, replaced, written, swept, last, logFileNow) BY <2>5
    <3> HIDE DEF g, other
    <3>3. QED BY <3>1, <3>2, SameArchives
  <2>7. QED BY <1>1, <2>1, <2>2, <2>6 DEF LogInv
<1>3. CASE stop # "idle"
  <2> DEFINE arcs == LogFile!Archived(logFileFile, stop)
             left == LogFile!Without(arcs, gone)
             e == LogFile!Empty
             s == logFileNow \div LogSecond
             sw == IF stop = "prune" THEN gone = LogFile!ToPrune(arcs) ELSE swept
  <2>1. /\ LogFile!Due(logFileFile, day) /\ archives' = left /\ logFileFile' = e
        /\ pruned' = pruned \cup LogFile!RecordsIn(arcs, gone)
        /\ replaced' = replaced \cup (LogFile!RecordsIn(archives, DOMAIN archives)
                                        \ LogFile!RecordsIn(arcs, DOMAIN arcs))
        /\ swept' = sw
        /\ IF stop = "prune" THEN LogFile!Begun(arcs, gone) ELSE gone = {}
    BY <1>3 DEF LogFile!Restart
  <2>2. FileOk(logFileFile, archives, last, logFileNow) BY OpenedIsOk
  <2>3. logFileFile.records # {} BY <2>1 DEF LogFile!Due
  <2>4. Shape(arcs, archives, logFileFile, logFileNow, s) BY ArchivedShape
  <2>5. e.records = {} /\ e.time \in Int /\ e.time <= logFileNow
    BY DEF LogFile!Empty, LogInv, DiskOk
  <2>6. DOMAIN left = DOMAIN arcs \ gone /\ \A a \in DOMAIN left : left[a] = arcs[a]
    BY DEF LogFile!Without
  <2>7. gone \subseteq LogFile!ToPrune(arcs) BY <2>1 DEF LogFile!Begun
  <2>8. sw => gone = LogFile!ToPrune(arcs) \/ (gone = {} /\ swept) BY <2>1
  <2>9. replaced' = replaced \cup (RecordsOf(archives) \ RecordsOf(arcs))
    BY <2>1, RecordsInMember
  <2> HIDE DEF arcs, left, e, s, sw
  <2>10. DiskOk(e, left, pruned \cup LogFile!RecordsIn(arcs, gone),
                replaced \cup (RecordsOf(archives) \ RecordsOf(arcs)), written, sw,
                last, logFileNow)
    BY <2>2, <2>3, <2>4, <2>5, <2>6, <2>7, <2>8, MovedIsOk
  <2>11. QED BY <1>1, <2>1, <2>9, <2>10 DEF LogInv
<1>4. QED BY <1>2, <1>3

\* The invariant holds at first, and in every step.
LEMMA LogInduction ==
  /\ LogFile!Init => LogInv
  /\ LogInv /\ [LogFile!Next]_(LogFile!vars) => LogInv'
<1>1. ASSUME LogFile!Init PROVE LogInv
  <2>1. /\ logFileFile.records = {} /\ logFileFile.time = 0 /\ DOMAIN archives = {}
        /\ logFileNow = 0 /\ last = 0 /\ written = {} /\ pruned = {}
    BY <1>1 DEF LogFile!Init, LogFile!Empty
  <2>2. ArchivesOk(archives, last, logFileNow) /\ FileOk(logFileFile, archives, last, logFileNow)
    BY <2>1, FS_EmptySet DEF ArchivesOk, FileOk, FileFits
  <2>3. QED BY <2>1, <2>2 DEF LogInv, DiskOk, PrunedOk, Kept, NamesOk
<1>2. ASSUME LogInv, UNCHANGED LogFile!vars PROVE LogInv'
  BY <1>2 DEF LogFile!vars, LogFile!disk, LogFile!history, LogInv
<1>3. ASSUME LogInv, LogFile!TakeRotations PROVE LogInv'
  BY <1>3 DEF LogFile!TakeRotations, LogFile!disk, LogFile!history, LogInv
<1>4. ASSUME LogInv, LogFile!Pass PROVE LogInv'
  BY <1>4, NextRecord DEF LogFile!Pass, LogFile!disk, LogFile!history, LogInv
<1>5. QED BY <1>1, <1>2, <1>3, <1>4, WriteStep, RestartStep DEF LogFile!Next

-----------------------------------------------------------------------------
(***************************************************************************)
(* Retention.  Between the roll-up and the deletion the rows that are old  *)
(* enough are in both tables, and after it in the roll-up alone; a row     *)
(* that is gone is older than those that are there.                        *)
(***************************************************************************)
RetentionType ==
  /\ retentionNow \in Nat /\ retentionNow <= RetentionMaxTime /\ retentionFaults \in Nat
  /\ raw \subseteq taken /\ taken \subseteq 0..retentionNow
  /\ summed \in [Retention!Times -> Nat]
  /\ prune \in [at : 0..6, clock : Nat] /\ prune.clock <= retentionNow

\* Between those two statements.
RolledUp == prune.at \in {2, 3}

\* The rows of samples that Prune is about.
Expired(t) == t < prune.clock - MeasurementsDays

NothingIsLost ==
  downsample => /\ \A t \in taken : t \in raw \/ summed[t] > 0 \/ t \in aged
                /\ RolledUp => \A t \in raw : Expired(t) => summed[t] > 0

NothingIsTwice ==
  /\ \A t \in Retention!Times : t \notin taken => summed[t] = 0
  /\ downsample /\ retentionFaults = 0 =>
        \A t \in taken : /\ summed[t] <= 1
                         /\ t \in raw /\ summed[t] > 0 => RolledUp /\ Expired(t)

GoneAreOlder ==
  \A t \in taken \ raw : t < retentionNow /\ \A r \in raw : t < r

RetentionInv == RetentionType /\ NothingIsLost /\ NothingIsTwice /\ GoneAreOlder

\* The clock, a sample, and the start and the stop of a retention run.
LEMMA OutsideSteps ==
  ASSUME RetentionInv,
         \/ Retention!Tick \/ Retention!Insert \/ Retention!StartPrune \/ Retention!StopPrune
  PROVE  RetentionInv'
<1> USE RetentionAssumption
    DEF RetentionInv, RetentionType, NothingIsLost, NothingIsTwice, GoneAreOlder, RolledUp,
        Expired, Retention!Times
<1>1. CASE Retention!Tick BY <1>1 DEF Retention!Tick
<1>2. CASE Retention!Insert
  <2>1. /\ retentionNow \notin taken /\ raw' = raw \cup {retentionNow}
        /\ taken' = taken \cup {retentionNow}
        /\ UNCHANGED <<summed, retentionNow, prune, downsample, aged, retentionFaults>>
    BY <1>2 DEF Retention!Insert
  <2>2. prune.at \in 0..6 /\ prune.clock \in Nat OBVIOUS
  <2>3. ~Expired(retentionNow) BY <2>2
  <2>4. retentionNow \in Retention!Times /\ summed[retentionNow] = 0 BY <2>1
  <2>5. RetentionType' /\ GoneAreOlder' BY <2>1
  <2>6. NothingIsLost' BY <2>1, <2>2, <2>3
  <2>7. NothingIsTwice' BY <2>1, <2>2, <2>4
  <2>8. QED BY <2>5, <2>6, <2>7
<1>3. CASE Retention!StartPrune
  <2>1. prune.at = 0 /\ prune'.at = 1 /\ prune' \in [at : 0..6, clock : Nat]
        /\ prune'.clock = retentionNow
    BY <1>3 DEF Retention!StartPrune
  <2>2. ~RolledUp /\ ~RolledUp' BY <2>1
  <2>3. QED BY <1>3, <2>1, <2>2 DEF Retention!StartPrune
<1>4. CASE Retention!StopPrune
  <2>1. prune'.at = 0 /\ prune' \in [at : 0..6, clock : Nat] /\ prune'.clock = 0
    BY <1>4 DEF Retention!StopPrune, Retention!Idle
  <2>2. retentionFaults' \in Nat /\ retentionFaults' # 0 BY <1>4 DEF Retention!StopPrune
  <2>3. QED BY <1>4, <2>1, <2>2 DEF Retention!StopPrune
<1>5. QED BY <1>1, <1>2, <1>3, <1>4

\* A statement of Prune.
LEMMA StatementStep ==
  ASSUME RetentionInv, Retention!RunStatement
  PROVE  RetentionInv'
<1> USE RetentionAssumption DEF RetentionInv, Retention!Times
<1>1. /\ prune.at \in 1..6 /\ prune.clock \in Nat /\ prune.clock <= retentionNow
      /\ UNCHANGED <<retentionNow, downsample, taken, retentionFaults>>
  BY DEF Retention!RunStatement, RetentionType
<1>2. /\ prune' \in [at : 0..6, clock : Nat]
      /\ prune'.at = IF prune.at = 6 THEN 0 ELSE prune.at + 1
      /\ prune'.clock \in {0, prune.clock} /\ (prune.at # 6 => prune'.clock = prune.clock)
  BY DEF Retention!RunStatement, Retention!Idle, RetentionType
<1>3. RolledUp' => Expired(0)' = Expired(0) BY <1>1, <1>2 DEF RolledUp, Expired
<1>4. CASE prune.at = 1
  <2>1. /\ UNCHANGED <<raw, aged>>
        /\ summed' = [t \in Retention!Times |->
              IF downsample /\ t \in raw /\ Expired(t) THEN summed[t] + 1 ELSE summed[t]]
    BY <1>4 DEF Retention!RunStatement, Retention!Statements, Retention!RollUp,
                Retention!Older, Expired, RetentionType
  <2>2. RetentionType' BY <1>1, <1>2, <2>1 DEF RetentionType
  <2>3. ~RolledUp /\ RolledUp' /\ \A t \in Retention!Times : Expired(t)' <=> Expired(t)
    BY <1>2, <1>4 DEF RolledUp, Expired
  <2>4. taken \subseteq Retention!Times BY DEF RetentionType
  <2>5. NothingIsLost' BY <1>1, <2>1, <2>3, <2>4 DEF NothingIsLost, RetentionType
  <2>6. NothingIsTwice' BY <1>1, <2>1, <2>3, <2>4 DEF NothingIsTwice, RetentionType
  <2>7. QED BY <1>1, <2>1, <2>2, <2>5, <2>6 DEF GoneAreOlder
<1>5. CASE prune.at = 3
  <2>1. UNCHANGED <<summed, aged>> /\ raw' = raw \ {t \in Retention!Times : Expired(t)}
    BY <1>5 DEF Retention!RunStatement, Retention!Statements, Retention!Older, Expired
  <2>2. RetentionType'
    <3>1. raw' \subseteq raw /\ UNCHANGED summed BY <2>1
    <3>2. QED BY <1>1, <1>2, <3>1 DEF RetentionType
  <2>3. RolledUp /\ ~RolledUp' BY <1>2, <1>5 DEF RolledUp
  <2>4. taken \subseteq Retention!Times /\ raw \subseteq taken BY DEF RetentionType
  <2>5. NothingIsLost' BY <1>1, <2>1, <2>3, <2>4 DEF NothingIsLost
  <2>6. NothingIsTwice' BY <1>1, <2>1, <2>3, <2>4 DEF NothingIsTwice
  <2>7. GoneAreOlder'
    <3> DEFINE c == prune.clock
    <3>1. c \in Nat /\ c <= retentionNow /\ retentionNow \in Nat BY <1>1 DEF RetentionType
    <3>2. \A t : Expired(t) <=> t < c - MeasurementsDays BY DEF Expired
    <3> HIDE DEF c
    <3>3. \A t \in Nat : t < c - MeasurementsDays => t < retentionNow BY <3>1
    <3>4. \A t, r \in Nat : t < c - MeasurementsDays /\ ~(r < c - MeasurementsDays) => t < r
      BY <3>1
    <3>5. QED BY <1>1, <2>1, <2>4, <3>2, <3>3, <3>4 DEF GoneAreOlder
  <2>8. QED BY <2>2, <2>5, <2>6, <2>7
<1>6. CASE prune.at = 5
  <2> DEFINE gone == {t \in Retention!Times :
                         Retention!BucketOf(t) < prune.clock - AggregatesDays}
  <2>1. /\ summed' = [t \in Retention!Times |-> IF t \in gone THEN 0 ELSE summed[t]]
        /\ aged' = aged \cup gone /\ raw' = raw
    BY <1>6 DEF Retention!RunStatement, Retention!Statements
  <2> HIDE DEF gone
  <2>2. RetentionType' BY <1>1, <1>2, <2>1 DEF RetentionType
  <2>3. ~RolledUp /\ ~RolledUp' BY <1>2, <1>6 DEF RolledUp
  <2>4. taken \subseteq Retention!Times BY DEF RetentionType
  <2>5. NothingIsLost' BY <1>1, <2>1, <2>3, <2>4 DEF NothingIsLost
  <2>6. NothingIsTwice' BY <1>1, <2>1, <2>3, <2>4 DEF NothingIsTwice
  <2>7. QED BY <1>1, <2>1, <2>2, <2>5, <2>6 DEF GoneAreOlder
<1>7. CASE prune.at \in {2, 4, 6}
  <2>1. UNCHANGED <<raw, summed, aged>>
    BY <1>7 DEF Retention!RunStatement, Retention!Statements
  <2>2. /\ RolledUp' <=> RolledUp
        /\ RolledUp => \A t \in Retention!Times : Expired(t)' <=> Expired(t)
    BY <1>2, <1>7 DEF RolledUp, Expired
  <2>3. taken \subseteq Retention!Times /\ raw \subseteq taken BY DEF RetentionType
  <2>4. RetentionType' BY <1>1, <1>2, <2>1 DEF RetentionType
  <2>5. NothingIsLost' BY <1>1, <2>1, <2>2, <2>3 DEF NothingIsLost
  <2>6. NothingIsTwice' BY <1>1, <2>1, <2>2, <2>3 DEF NothingIsTwice
  <2>7. QED BY <1>1, <2>1, <2>4, <2>5, <2>6 DEF GoneAreOlder
<1>8. QED BY <1>1, <1>4, <1>5, <1>6, <1>7

\* The invariant holds at first, and in every step.
LEMMA RetentionInduction ==
  /\ Retention!Init => RetentionInv
  /\ RetentionInv /\ [Retention!Next]_(Retention!vars) => RetentionInv'
<1>1. ASSUME Retention!Init PROVE RetentionInv
  BY <1>1, RetentionAssumption
  DEF Retention!Init, Retention!Idle, Retention!Times, RetentionInv, RetentionType,
      NothingIsLost, NothingIsTwice, GoneAreOlder, RolledUp, Expired
<1>2. ASSUME RetentionInv, UNCHANGED Retention!vars PROVE RetentionInv'
  BY <1>2 DEF Retention!vars, RetentionInv, RetentionType, NothingIsLost, NothingIsTwice,
              GoneAreOlder, RolledUp, Expired, Retention!Times
<1>3. QED BY <1>1, <1>2, OutsideSteps, StatementStep DEF Retention!Next

\* Every set of natural numbers that has a member has a least.
LEMMA LeastNatural ==
  ASSUME NEW S \in SUBSET Nat, S # {}
  PROVE  Retention!Min(S) \in S /\ \A n \in S : Retention!Min(S) <= n
BY LeastOf DEF Retention!Min

\* The larger of two numbers.
LEMMA LargerOfTwo ==
  ASSUME NEW x \in Nat, NEW y \in Nat
  PROVE  /\ Retention!Max({x, y}) \in {x, y}
         /\ x <= Retention!Max({x, y}) /\ y <= Retention!Max({x, y})
<1>1. \E m \in {x, y} : \A n \in {x, y} : m >= n OBVIOUS
<1>2. QED BY <1>1 DEF Retention!Max

\* Where the bucket of a time starts.
LEMMA BucketFacts ==
  ASSUME NEW b \in Nat \ {0}, NEW x \in Nat
  PROVE  x \div b \in Nat /\ (x \div b) * b <= x /\ x < (x \div b) * b + b
OBVIOUS

\* A later bucket starts after an earlier one has ended.
LEMMA LaterBucket ==
  ASSUME NEW b \in Nat \ {0}, NEW x \in Nat, NEW y \in Nat, x < y, x \div b # y \div b
  PROVE  x < (y \div b) * b
<1> DEFINE p == x \div b
           q == y \div b
<1>1. p \in Nat /\ q \in Nat /\ p * b <= x /\ x < p * b + b /\ y < q * b + b
  BY BucketFacts
<1>2. p <= q OBVIOUS
<1>3. p < q BY <1>1, <1>2
<1> HIDE DEF p, q
<1>4. p * b + b <= q * b BY <1>1, <1>3
<1>5. p * b \in Nat /\ q * b \in Nat BY <1>1
<1>6. x < q * b BY <1>1, <1>4, <1>5
<1>7. QED BY <1>6 DEF q

\* A chart drawn outside of Prune has every sample once that is neither aged nor at an edge:
\* from its row, or from the roll-up of a bucket before the first of the rows.
LEMMA ChartHasSample ==
  ASSUME RetentionInv, downsample, retentionFaults = 0, prune.at = 0,
         NEW from \in Retention!Times, NEW bucket \in 1..(2 * Hour), NEW t \in taken \ aged,
         t >= from + bucket, t >= from + Hour,
         t \in raw \/ \A r \in raw : r \div bucket # t \div bucket
  PROVE  Retention!InChart(t, from, bucket) = 1
<1> USE RetentionAssumption
<1> DEFINE rows == {r \in raw : r >= from /\ r <= retentionNow}
           first == IF rows = {} THEN retentionNow
                    ELSE (Retention!Min(rows) \div bucket) * bucket
           older == rows = {} \/ first > from + bucket
           rolled == older /\ Retention!BucketOf(t) >= from /\ Retention!BucketOf(t) < first
<1>1. /\ from \in Nat /\ bucket \in Nat \ {0} /\ t \in Nat /\ t <= retentionNow
      /\ retentionNow \in Nat /\ t \in taken /\ t \notin aged
      /\ raw \subseteq taken /\ taken \subseteq Nat /\ taken \subseteq Retention!Times
  BY DEF RetentionInv, RetentionType, Retention!Times
<1>2. Retention!InChart(t, from, bucket)
        = (IF t \in rows THEN 1 ELSE 0) + (IF rolled THEN summed[t] ELSE 0)
  BY DEF Retention!InChart
<1>3. summed[t] \in Nat /\ summed[t] <= 1 /\ (t \in raw => summed[t] = 0)
      /\ (t \notin raw => summed[t] = 1)
  <2>1. summed[t] \in Nat BY <1>1 DEF RetentionInv, RetentionType
  <2>2. ~RolledUp BY DEF RolledUp
  <2>3. summed[t] <= 1 /\ (t \in raw => ~(summed[t] > 0))
    BY <1>1, <2>2 DEF RetentionInv, NothingIsTwice
  <2>4. t \in raw \/ summed[t] > 0 BY <1>1 DEF RetentionInv, NothingIsLost
  <2>5. QED BY <2>1, <2>3, <2>4
<1>4. CASE t \in raw
  <2>1. t \in rows BY <1>1, <1>4
  <2> HIDE DEF rows, rolled
  <2>2. QED BY <1>2, <1>3, <1>4, <2>1
<1>5. CASE t \notin raw
  <2>1. t \notin rows /\ t < retentionNow /\ \A r \in rows : t < r
    BY <1>1, <1>5 DEF RetentionInv, GoneAreOlder
  <2>2. Retention!BucketOf(t) >= from /\ Retention!BucketOf(t) <= t
    <3> DEFINE q == t \div Hour
    <3>1. q \in Nat /\ q * Hour <= t /\ t < q * Hour + Hour BY <1>1, BucketFacts
    <3>2. Retention!BucketOf(t) = q * Hour BY DEF Retention!BucketOf
    <3> HIDE DEF q
    <3>3. QED BY <1>1, <3>1, <3>2
  <2>3. t < first /\ older
    <3>1. CASE rows = {} BY <2>1, <3>1
    <3>2. CASE rows # {}
      <4>1. rows \in SUBSET Nat BY <1>1
      <4> DEFINE m == Retention!Min(rows)
      <4>2. m \in rows BY <3>2, <4>1, LeastNatural
      <4>3. m \in Nat /\ t < m /\ m \in raw BY <1>1, <2>1, <4>2
      <4>4. t \div bucket # m \div bucket BY <1>5, <4>3
      <4> DEFINE start0 == (m \div bucket) * bucket
      <4>5. t < start0 BY <1>1, <4>3, <4>4, LaterBucket
      <4>6. first = start0 BY <3>2
      <4>7. start0 \in Nat BY <1>1, <4>3, BucketFacts
      <4> HIDE DEF start0, m, rows
      <4>8. start0 > from + bucket BY <1>1, <4>5, <4>7
      <4>9. QED BY <4>5, <4>6, <4>8
    <3>3. QED BY <3>1, <3>2
  <2> HIDE DEF first
  <2>4. rolled
    <3>1. first \in Int
      <4>1. CASE rows = {} BY <1>1, <4>1 DEF first
      <4>2. CASE rows # {}
        <5>1. Retention!Min(rows) \in Nat BY <1>1, <4>2, LeastNatural
        <5>2. QED BY <1>1, <4>2, <5>1, BucketFacts DEF first
      <4>3. QED BY <4>1, <4>2
    <3>2. Retention!BucketOf(t) \in Nat BY <1>1, BucketFacts DEF Retention!BucketOf
    <3>3. Retention!BucketOf(t) < first BY <1>1, <2>2, <2>3, <3>1, <3>2
    <3>4. QED BY <2>2, <2>3, <3>3
  <2> HIDE DEF rows, rolled
  <2>5. QED BY <1>2, <1>3, <1>5, <2>1, <2>4
<1>6. QED BY <1>4, <1>5

\* The invariant says what the run checks.
LEMMA RetentionInvIsEnough == RetentionInv => SamplesAreKept
<1> SUFFICES ASSUME RetentionInv PROVE SamplesAreKept OBVIOUS
<1>1. Retention!RollUpIsExact
  BY DEF RetentionInv, RetentionType, NothingIsLost, NothingIsTwice, RolledUp,
         Retention!RollUpIsExact
<1>2. Retention!ChartsAreComplete
  <2>1. SUFFICES ASSUME retentionFaults = 0, prune.at = 0, downsample,
                        NEW from \in Retention!Times, NEW bucket \in 1..(2 * Hour),
                        NEW t \in taken \ aged,
                        ~(t < from + Retention!Max({bucket, Hour})),
                        ~(t \notin raw /\ \E r \in raw : r \div bucket = t \div bucket)
                 PROVE  Retention!InChart(t, from, bucket) = 1
    BY DEF Retention!ChartsAreComplete
  <2> DEFINE m == Retention!Max({bucket, Hour})
  <2>2. bucket \in Nat /\ Hour \in Nat BY RetentionAssumption
  <2>3. m \in Nat /\ bucket <= m /\ Hour <= m BY <2>2, LargerOfTwo
  <2>4. t \in Nat /\ from \in Nat
    BY RetentionAssumption DEF RetentionInv, RetentionType, Retention!Times
  <2> HIDE DEF m
  <2>5. ~(t < from + m) BY <2>1 DEF m
  <2>6. t >= from + bucket /\ t >= from + Hour BY <2>2, <2>3, <2>4, <2>5
  <2>7. QED BY <2>1, <2>6, ChartHasSample
<1>3. QED BY <1>1, <1>2 DEF SamplesAreKept, Retention!SamplesAreKept

-----------------------------------------------------------------------------
(***************************************************************************)
(* The configuration.  No reload copies the sections that it compares, so  *)
(* the running configuration agrees on them with the one the process was   *)
(* started with; and what it does copy comes from files that were          *)
(* accepted, so that the health section is always one of those.            *)
(***************************************************************************)
Sections == DOMAIN Default

AcceptedFiles == {c \in Files \cup {Default} : Config!Accepted(c)}

AcceptedHealth == {c["health"] : c \in AcceptedFiles}

\* The sections that a reload copies.
NotCompared == {"level", "alerts", "baseline", "correlation", "health", "traffic",
  "destinations", "lateral", "threat_intel", "expected"}

\* The compared sections in which two configurations differ.
Differences ==
  [n \in Files \cup {Default} |-> [b \in Files \cup {Default} |->
     {s \in Config!Reported : Config!Key(s, n) # Config!Key(s, b)}]]

ShapeIsKept ==
  /\ DOMAIN live = Sections /\ built \in Files \cup {Default}
  /\ configFile.config \in Files \cup {Default}

ComparedIsBuilt == \A s \in Config!Reported : live[s] = built[s]

\* A reload in progress works with a file that was accepted, and has noted what differs.
ReloadIsRight ==
  /\ DOMAIN reload = {"busy", "new", "rest", "writing", "restart"}
  /\ reload.writing => reload.busy /\ reload.rest # <<>>
  /\ reload.busy =>
       /\ reload.new \in AcceptedFiles
       /\ reload.rest \in Seq(NotCompared)
       /\ reload.restart = Differences[reload.new][built]

\* What a task took of the health section was accepted, or was being written.
SettingsAreAccepted ==
  /\ live["health"] \in AcceptedHealth
  /\ task # Config!Resting =>
       \/ task.torn
       \/ task.copy \in AcceptedHealth /\ task.copy.enabled

ConfigInv == ShapeIsKept /\ ComparedIsBuilt /\ ReloadIsRight /\ SettingsAreAccepted

\* The settings of the health section are good for a score when it is enabled.
LEMMA EnabledIsScored ==
  ASSUME NEW h \in AcceptedHealth, h.enabled
  PROVE  Config!Scored(h)
BY DEF AcceptedHealth, AcceptedFiles, Config!Accepted, Config!HealthAccepted

\* The built-in configuration and the files have the sections.
LEMMA FilesHaveSections ==
  ASSUME NEW c \in Files \cup {Default}
  PROVE  /\ DOMAIN c = Sections /\ Config!Reported \cup {"health"} \subseteq Sections
         /\ c \in AcceptedFiles => c["health"] \in AcceptedHealth
BY ConfigAssumption DEF Sections, AcceptedHealth

\* Copying a section that is not compared leaves those that are alone.
LEMMA EndCopyStep == ConfigInv /\ Config!EndCopy => ConfigInv'
<1> SUFFICES ASSUME ConfigInv, Config!EndCopy PROVE ConfigInv'
  OBVIOUS
<1> USE DEF ConfigInv
<1> DEFINE x == Head(reload.rest)
<1>1. /\ reload.writing /\ reload.busy /\ reload.rest # <<>>
      /\ live' = [live EXCEPT ![x] = reload.new[x]]
      /\ reload' = [reload EXCEPT !.writing = FALSE, !.rest = Tail(@)]
      /\ UNCHANGED <<configFile, built, task>>
  BY DEF Config!EndCopy, Config!Target, ReloadIsRight
<1>2. reload.rest \in Seq(NotCompared) /\ reload.new \in AcceptedFiles
  BY <1>1 DEF ReloadIsRight
<1>3. x \in NotCompared /\ Tail(reload.rest) \in Seq(NotCompared)
  BY <1>1, <1>2
<1>4. DOMAIN live = Sections /\ Config!Reported \cup {"health"} \subseteq Sections
  BY FilesHaveSections DEF ShapeIsKept
<1>5. reload.new["health"] \in AcceptedHealth
  BY <1>2, FilesHaveSections DEF AcceptedFiles
<1> HIDE DEF x
<1>6. DOMAIN live' = Sections /\ \A s \in Sections : live'[s] = IF s = x THEN reload.new[x]
                                                                ELSE live[s]
  BY <1>1, <1>4
<1>7. ShapeIsKept' BY <1>1, <1>6 DEF ShapeIsKept
<1>8. ComparedIsBuilt'
  <2>1. x \notin Config!Reported BY <1>3 DEF NotCompared, Config!Reported
  <2>2. QED BY <1>1, <1>4, <1>6, <2>1 DEF ComparedIsBuilt
<1>9. /\ reload'.busy /\ reload'.new = reload.new /\ reload'.restart = reload.restart
      /\ reload'.rest = Tail(reload.rest) /\ ~reload'.writing
      /\ DOMAIN reload' = DOMAIN reload
  BY <1>1 DEF ReloadIsRight
<1>10. ReloadIsRight' BY <1>1, <1>3, <1>9 DEF ReloadIsRight
<1>11. SettingsAreAccepted'
  BY <1>1, <1>4, <1>5, <1>6 DEF SettingsAreAccepted
<1>12. QED BY <1>7, <1>8, <1>10, <1>11

\* The steps that start and end a reload.
LEMMA ReloadSteps ==
  ASSUME ConfigInv, Config!Reload \/ Config!StartCopy \/ Config!EndReload
  PROVE  ConfigInv'
<1> USE DEF ConfigInv
<1>1. UNCHANGED <<configFile, live, built, task>>
  BY DEF Config!Reload, Config!StartCopy, Config!EndReload
<1>2. ShapeIsKept' /\ ComparedIsBuilt' /\ SettingsAreAccepted'
  BY <1>1 DEF ShapeIsKept, ComparedIsBuilt, SettingsAreAccepted
<1>3. ASSUME UNCHANGED reload PROVE ReloadIsRight'
  BY <1>1, <1>3 DEF ReloadIsRight
<1>4. ASSUME Config!Reload, Config!Loads(configFile) PROVE ReloadIsRight'
  <2>1. configFile.config \in AcceptedFiles
    BY <1>4 DEF Config!Loads, ShapeIsKept, AcceptedFiles
  <2>2. Config!Copied \in Seq(NotCompared)
    BY DEF Config!Copied, NotCompared
  <2>3. Config!NeedRestart(configFile.config) = Differences[configFile.config][built]
    <3>1. \A s \in Config!Reported : Config!Key(s, live) = Config!Key(s, built)
      BY DEF ComparedIsBuilt, Config!Key, Config!Reported
    <3>2. QED BY <3>1 DEF Config!NeedRestart, Differences, ShapeIsKept
  <2>4. reload' = [busy |-> TRUE, new |-> configFile.config, rest |-> Config!Copied,
                   writing |-> FALSE, restart |-> Config!NeedRestart(configFile.config)]
    BY <1>4 DEF Config!Reload
  <2>5. /\ reload'.new = configFile.config /\ reload'.rest = Config!Copied
        /\ reload'.restart = Config!NeedRestart(configFile.config) /\ ~reload'.writing
        /\ DOMAIN reload' = {"busy", "new", "rest", "writing", "restart"}
    BY <2>4
  <2>6. QED BY <1>1, <2>1, <2>2, <2>3, <2>5 DEF ReloadIsRight
<1>5. CASE Config!Reload BY <1>2, <1>3, <1>4, <1>5 DEF Config!Reload
<1>6. CASE Config!StartCopy
  <2>1. reload' = [reload EXCEPT !.writing = TRUE] /\ reload.busy /\ reload.rest # <<>>
    BY <1>6 DEF Config!StartCopy
  <2>2. ReloadIsRight' BY <1>1, <2>1 DEF ReloadIsRight
  <2>3. QED BY <1>2, <2>2
<1>7. CASE Config!EndReload
  <2>1. ReloadIsRight' BY <1>7 DEF Config!EndReload, Config!NoReload, ReloadIsRight
  <2>2. QED BY <1>2, <2>1
<1>8. QED BY <1>5, <1>6, <1>7

\* The steps of a task, and of who edits the file.
LEMMA OtherConfigSteps ==
  ASSUME ConfigInv, Config!Edit \/ Config!Take \/ Config!Done
  PROVE  ConfigInv'
<1> USE DEF ConfigInv
<1>1. UNCHANGED <<live, built, reload>> BY DEF Config!Edit, Config!Take, Config!Done
<1>2. ComparedIsBuilt' /\ ReloadIsRight'
  BY <1>1 DEF ComparedIsBuilt, ReloadIsRight
<1>3. ShapeIsKept'
  BY <1>1 DEF ShapeIsKept, Config!Edit, Config!Take, Config!Done, Config!Missing,
              Config!Unparsable
<1>4. SettingsAreAccepted'
  <2>1. CASE Config!Edit BY <1>1, <2>1 DEF Config!Edit, SettingsAreAccepted
  <2>2. CASE Config!Take
    <3>1. \E writing \in BOOLEAN : \E copy :
            /\ writing \/ copy = live.health
            /\ task' = IF copy.enabled
                       THEN [section |-> "health", copy |-> copy, torn |-> writing]
                       ELSE Config!Resting
      BY <2>2 DEF Config!Take, Config!GoesOn
    <3>2. QED BY <1>1, <3>1 DEF SettingsAreAccepted
  <2>3. CASE Config!Done BY <1>1, <2>3 DEF Config!Done, SettingsAreAccepted
  <2>4. QED BY <2>1, <2>2, <2>3
<1>5. QED BY <1>2, <1>3, <1>4

\* The process starts with a file that it accepts.
LEMMA StartedConfig ==
  ASSUME NEW c \in Files \cup {Default}, Config!Accepted(c),
         configFile.config \in Files \cup {Default}, live = c, built = c,
         reload = Config!NoReload, task = Config!Resting
  PROVE  ConfigInv
<1>1. c \in AcceptedFiles BY DEF AcceptedFiles
<1>2. QED
  BY <1>1, FilesHaveSections DEF ConfigInv, ShapeIsKept, ComparedIsBuilt, ReloadIsRight,
     SettingsAreAccepted, Config!NoReload

\* It holds at first, and in every step.
LEMMA ConfigInduction ==
  /\ Config!Init => ConfigInv
  /\ ConfigInv /\ [Config!Next]_(Config!vars) => ConfigInv'
<1>1. ASSUME Config!Init PROVE ConfigInv
  <2>1. configFile.config \in Files \cup {Default} /\ Config!Accepted(configFile.config)
    BY <1>1, ConfigAssumption DEF Config!Init, Config!Missing
  <2>2. live = configFile.config /\ built = live /\ reload = Config!NoReload
        /\ task = Config!Resting
    BY <1>1 DEF Config!Init
  <2>3. QED BY <2>1, <2>2, StartedConfig
<1>2. ASSUME ConfigInv, Config!Restart PROVE ConfigInv'
  <2>1. configFile.config \in AcceptedFiles
    BY <1>2 DEF ConfigInv, ShapeIsKept, AcceptedFiles, Config!Restart, Config!Loads
  <2>2. /\ live' = configFile.config /\ built' = configFile.config /\ UNCHANGED configFile
        /\ reload' = Config!NoReload /\ task' = Config!Resting
    BY <1>2 DEF Config!Restart
  <2>3. configFile.config \in Files \cup {Default} BY <2>1 DEF AcceptedFiles
  <2>4. QED
    BY <2>1, <2>2, <2>3, FilesHaveSections DEF ConfigInv, ShapeIsKept, ComparedIsBuilt,
       ReloadIsRight, SettingsAreAccepted, Config!NoReload
<1>3. ASSUME ConfigInv, UNCHANGED Config!vars PROVE ConfigInv'
  BY <1>3 DEF Config!vars, ConfigInv, ShapeIsKept, ComparedIsBuilt, ReloadIsRight,
              SettingsAreAccepted
<1>4. QED
  BY <1>1, <1>2, <1>3, EndCopyStep, ReloadSteps, OtherConfigSteps DEF Config!Next

\* What the property says of a step follows.
LEMMA ConfigStepIsSound ==
  ASSUME ConfigInv, ConfigInv', Config!Next
  PROVE  /\ task' # Config!Resting => task'.torn \/ Config!Scored(task'.copy)
         /\ report'.event = "CONFIG_RELOADED" =>
              report'.restart = {s \in Config!Reported :
                                   Config!Key(s, reload.new) # Config!Key(s, built)}
<1>1. ASSUME task' # Config!Resting, ~task'.torn PROVE Config!Scored(task'.copy)
  <2>1. task'.copy \in AcceptedHealth /\ task'.copy.enabled
    BY <1>1 DEF ConfigInv, SettingsAreAccepted
  <2>2. QED BY <2>1, EnabledIsScored
<1>2. ASSUME report'.event = "CONFIG_RELOADED"
      PROVE  report'.restart = {s \in Config!Reported :
                                  Config!Key(s, reload.new) # Config!Key(s, built)}
  <2>1. Config!EndReload
    BY <1>2 DEF Config!Next, Config!Edit, Config!Reload, Config!StartCopy, Config!EndCopy,
                Config!Take, Config!Done, Config!Restart, Config!NoReport
  <2>2. reload.busy /\ report'.restart = reload.restart BY <2>1 DEF Config!EndReload
  <2>3. /\ reload.restart = Differences[reload.new][built]
        /\ reload.new \in Files \cup {Default} /\ built \in Files \cup {Default}
    BY <2>2 DEF ConfigInv, ReloadIsRight, ShapeIsKept, AcceptedFiles
  <2>4. QED BY <2>2, <2>3 DEF Differences
<1>3. QED BY <1>1, <1>2

-----------------------------------------------------------------------------
(***************************************************************************)
(* The destination history.  The table knows the endpoints that were ever  *)
(* contacted and not deleted since, which is what newness is decided by;   *)
(* and what waits for enrichment is in one of two queues.                  *)
(***************************************************************************)
RowFields == {"contacts", "first", "last", "enriched"}

\* The ids of rows.
RowIDs == Endpoints \X Nat

HistoryType ==
  /\ DOMAIN table \subseteq Endpoints
  /\ \A e \in DOMAIN table : DOMAIN table[e] = RowFields /\ table[e].first \in Nat
  /\ newIDs \in Seq(RowIDs) /\ queue \in Seq(RowIDs) /\ Len(queue) <= QueueSize
  /\ historyNow \in Nat /\ start \in Nat
  /\ DOMAIN cycle = {"busy", "rest", "found"} /\ cycle.rest \in Seq(Endpoints)

HistoryInv ==
  HistoryType /\ known = DOMAIN table /\ Destinations!EnrichmentIsPending

\* The smaller of two numbers.
LEMMA SmallerOfTwo ==
  ASSUME NEW x \in Int, NEW y \in Int
  PROVE  /\ Destinations!Min({x, y}) \in {x, y}
         /\ Destinations!Min({x, y}) <= x /\ Destinations!Min({x, y}) <= y
<1>1. \E m \in {x, y} : \A n \in {x, y} : m <= n OBVIOUS
<1>2. QED BY <1>1 DEF Destinations!Min

\* What a sequence holds is what its parts hold.
LEMMA RangeOfParts ==
  ASSUME NEW S, NEW s \in Seq(S), NEW t \in Seq(S), NEW n \in 0..Len(s)
  PROVE  /\ Destinations!Range(s) \subseteq S
         /\ Destinations!Range(s \o t) = Destinations!Range(s) \cup Destinations!Range(t)
         /\ \A e \in S :
              Destinations!Range(Append(s, e)) = Destinations!Range(s) \cup {e}
         /\ Destinations!Range(s) = Destinations!Range(SubSeq(s, 1, n))
                                      \cup Destinations!Range(SubSeq(s, n + 1, Len(s)))
         /\ s # <<>> => Destinations!Range(s) = {Head(s)} \cup Destinations!Range(Tail(s))
<1> USE DEF Destinations!Range
<1>1. Destinations!Range(s) \subseteq S OBVIOUS
<1>2. Destinations!Range(s \o t) = Destinations!Range(s) \cup Destinations!Range(t)
  <2>1. \A i \in 1..Len(t) : (s \o t)[Len(s) + i] = t[i] /\ Len(s) + i \in 1..Len(s \o t)
    OBVIOUS
  <2>2. \A i \in 1..Len(s) : (s \o t)[i] = s[i] /\ i \in 1..Len(s \o t)
    OBVIOUS
  <2>3. \A i \in 1..Len(s \o t) :
          i \in 1..Len(s) \/ \E j \in 1..Len(t) : i = Len(s) + j
    <3>1. TAKE i \in 1..Len(s \o t)
    <3>2. CASE i > Len(s)
      <4>1. i - Len(s) \in 1..Len(t) /\ i = Len(s) + (i - Len(s)) BY <3>2
      <4>2. QED BY <4>1
    <3>3. QED BY <3>2
  <2>4. ASSUME NEW x \in Destinations!Range(s \o t)
        PROVE  x \in Destinations!Range(s) \cup Destinations!Range(t)
    <3>1. PICK i \in 1..Len(s \o t) : x = (s \o t)[i] OBVIOUS
    <3>2. CASE i \in 1..Len(s) BY <3>1, <3>2, <2>2
    <3>3. CASE \E j \in 1..Len(t) : i = Len(s) + j BY <3>1, <3>3, <2>1
    <3>4. QED BY <3>2, <3>3, <2>3
  <2>5. Destinations!Range(s) \subseteq Destinations!Range(s \o t) BY <2>2
  <2>6. Destinations!Range(t) \subseteq Destinations!Range(s \o t)
    <3>1. DOMAIN (s \o t) = 1..Len(s \o t) /\ DOMAIN t = 1..Len(t) OBVIOUS
    <3>2. ASSUME NEW j \in 1..Len(t) PROVE t[j] \in Destinations!Range(s \o t)
      <4>1. PICK i \in DOMAIN (s \o t) : (s \o t)[i] = t[j] BY <2>1, <3>1
      <4>2. QED BY <4>1
    <3>3. QED BY <3>1, <3>2
  <2>7. QED BY <2>4, <2>5, <2>6
<1>3. ASSUME NEW e \in S
      PROVE  Destinations!Range(Append(s, e)) = Destinations!Range(s) \cup {e}
  <2>1. /\ Append(s, e)[Len(s) + 1] = e
        /\ \A i \in 1..Len(s) : Append(s, e)[i] = s[i]
        /\ DOMAIN Append(s, e) = 1..Len(s) \cup {Len(s) + 1}
    OBVIOUS
  <2>2. QED BY <2>1
<1>4. Destinations!Range(s) = Destinations!Range(SubSeq(s, 1, n))
                                \cup Destinations!Range(SubSeq(s, n + 1, Len(s)))
  <2> DEFINE a == SubSeq(s, 1, n)
             b == SubSeq(s, n + 1, Len(s))
  <2>1. Len(a) = n /\ DOMAIN a = 1..n /\ \A i \in 1..n : a[i] = s[i] /\ i \in 1..Len(s)
    OBVIOUS
  <2>2. DOMAIN b = 1..(Len(s) - n) /\ \A i \in 1..(Len(s) - n) : b[i] = s[n + i]
    OBVIOUS
  <2>3. \A i \in 1..(Len(s) - n) : n + i \in 1..Len(s) OBVIOUS
  <2>4. \A i \in 1..Len(s) : i \in 1..n \/ \E j \in 1..(Len(s) - n) : i = n + j
    <3>1. TAKE i \in 1..Len(s)
    <3>2. CASE i > n
      <4>1. i - n \in 1..(Len(s) - n) /\ i = n + (i - n) BY <3>2
      <4>2. QED BY <4>1
    <3>3. QED BY <3>2
  <2> HIDE DEF a, b
  <2>5. Destinations!Range(s) = Destinations!Range(a) \cup Destinations!Range(b)
    <3>1. ASSUME NEW i \in 1..Len(s)
          PROVE  s[i] \in Destinations!Range(a) \cup Destinations!Range(b)
      <4>1. CASE i \in 1..n BY <2>1, <4>1
      <4>2. CASE \E j \in 1..(Len(s) - n) : i = n + j BY <2>2, <4>2
      <4>3. QED BY <2>4, <4>1, <4>2
    <3>2. ASSUME NEW i \in 1..(Len(s) - n) PROVE b[i] \in Destinations!Range(s)
      BY <2>2, <2>3
    <3>3. ASSUME NEW i \in 1..n PROVE a[i] \in Destinations!Range(s) BY <2>1
    <3>4. Destinations!Range(s) \subseteq Destinations!Range(a) \cup Destinations!Range(b)
      BY <3>1
    <3>5. Destinations!Range(a) \subseteq Destinations!Range(s) BY <3>3, <2>1
    <3>6. Destinations!Range(b) \subseteq Destinations!Range(s) BY <3>2, <2>2
    <3>7. QED BY <3>4, <3>5, <3>6
  <2>6. QED BY <2>5 DEF a, b
<1>5. s # <<>> => Destinations!Range(s) = {Head(s)} \cup Destinations!Range(Tail(s))
  <2> SUFFICES ASSUME s # <<>>
               PROVE  Destinations!Range(s) = {Head(s)} \cup Destinations!Range(Tail(s))
    OBVIOUS
  <2>1. /\ Head(s) = s[1] /\ DOMAIN Tail(s) = 1..(Len(s) - 1)
        /\ \A i \in 1..(Len(s) - 1) : Tail(s)[i] = s[i + 1] /\ i + 1 \in 1..Len(s)
        /\ 1 \in 1..Len(s)
    OBVIOUS
  <2>2. \A i \in 1..Len(s) : i = 1 \/ \E j \in 1..(Len(s) - 1) : i = j + 1
    <3>1. TAKE i \in 1..Len(s)
    <3>2. CASE i > 1
      <4>1. i - 1 \in 1..(Len(s) - 1) /\ i = (i - 1) + 1 BY <3>2
      <4>2. QED BY <4>1
    <3>3. QED BY <3>2
  <2>3. ASSUME NEW i \in 1..Len(s)
        PROVE  s[i] \in {Head(s)} \cup Destinations!Range(Tail(s))
    BY <2>1, <2>2
  <2>4. ASSUME NEW i \in 1..(Len(s) - 1) PROVE Tail(s)[i] \in Destinations!Range(s)
    BY <2>1
  <2>5. QED BY <2>1, <2>3, <2>4
<1>6. QED BY <1>1, <1>2, <1>3, <1>4, <1>5

\* A snapshot is a sequence of endpoints.
LEMMA SnapshotsAreSequences ==
  ASSUME NEW batch \in Destinations!Snapshots
  PROVE  batch \in Seq(Endpoints)
<1>1. PICK S \in SUBSET Endpoints : batch \in Destinations!SetToSeqs(S)
  BY DEF Destinations!Snapshots
<1>2. batch \in [1..Destinations!Cardinality(S) -> S] BY <1>1 DEF Destinations!SetToSeqs
<1>3. IsFiniteSet(S) BY <1>1, HistoryAssumption, FS_Subset
<1>4. Destinations!Cardinality(S) \in Nat
  BY <1>3, FS_CardinalityType DEF Destinations!Cardinality, Cardinality
<1>5. QED BY <1>1, <1>2, <1>4

\* An endpoint of the snapshot is recorded and analysed: it is new when it has no row.
LEMMA ObserveStep ==
  ASSUME HistoryInv, Destinations!ObserveOne
  PROVE  /\ HistoryInv'
         /\ \A e \in Endpoints : <<"new", e>> \in cycle'.found \ cycle.found =>
              e \notin known /\ historyNow - start >= Learning
<1> DEFINE h == Head(cycle.rest)
<1>1. /\ cycle.rest # <<>> /\ table' = Destinations!Upserted(h) /\ known' = known \cup {h}
      /\ Destinations!Analyse(h, Destinations!Upserted(h))
      /\ UNCHANGED <<start, queue, historyNow, lost>>
  BY DEF Destinations!ObserveOne, Destinations!Recorded
<1>2. /\ h \in Endpoints /\ Tail(cycle.rest) \in Seq(Endpoints)
      /\ newIDs \in Seq(RowIDs) /\ historyNow \in Nat /\ start \in Nat
  BY <1>1 DEF HistoryInv, HistoryType
<1> HIDE DEF h
<1> DEFINE id == Destinations!RowID(Destinations!Upserted(h), h)
<1>3. /\ DOMAIN table' = DOMAIN table \cup {h}
      /\ \A e \in DOMAIN table :
           table'[e].enriched = table[e].enriched /\ table'[e].first = table[e].first
      /\ h \notin DOMAIN table => table'[h].first = historyNow
      /\ \A e \in DOMAIN table \cup {h} : DOMAIN table'[e] = RowFields
  BY <1>1 DEF Destinations!Upserted, Destinations!Assign, HistoryInv, HistoryType, RowFields
<1>3a. /\ h \notin DOMAIN table => id \in RowIDs
       /\ id = <<h, table'[h].first>>
       /\ \A e \in DOMAIN table' : table'[e].first \in Nat
  <2>1. id = <<h, table'[h].first>> BY <1>1 DEF Destinations!RowID
  <2>2. \A e \in DOMAIN table' : table'[e].first \in Nat
    BY <1>2, <1>3 DEF HistoryInv, HistoryType
  <2>3. <<h, historyNow>> \in RowIDs BY <1>2 DEF RowIDs
  <2>4. h \notin DOMAIN table => id = <<h, historyNow>> BY <1>3, <2>1
  <2>5. QED BY <2>1, <2>2, <2>3, <2>4
<1>4. PICK found :
        /\ cycle' = [cycle EXCEPT !.rest = Tail(@), !.found = @ \cup found]
        /\ newIDs' = IF h \notin DOMAIN table THEN Append(newIDs, id) ELSE newIDs
        /\ \A e : <<"new", e>> \in found =>
             e = h /\ h \notin DOMAIN table /\ ~Destinations!LearningAt(historyNow)
  <2>1. \E contacts :
          /\ cycle' = [cycle EXCEPT !.rest = Tail(@), !.found = @ \cup {<<k, h>> :
               k \in Destinations!FoundAbout(h, h \notin DOMAIN table, contacts)}]
          /\ newIDs' = IF h \notin DOMAIN table THEN Append(newIDs, id) ELSE newIDs
    BY <1>1 DEF Destinations!Analyse
  <2>2. PICK contacts :
          /\ cycle' = [cycle EXCEPT !.rest = Tail(@), !.found = @ \cup {<<k, h>> :
               k \in Destinations!FoundAbout(h, h \notin DOMAIN table, contacts)}]
          /\ newIDs' = IF h \notin DOMAIN table THEN Append(newIDs, id) ELSE newIDs
    BY <2>1
  <2> DEFINE kinds == Destinations!FoundAbout(h, h \notin DOMAIN table, contacts)
             found == {<<k, h>> : k \in kinds}
  <2>3. "new" \in kinds =>
          h \notin DOMAIN table /\ ~Destinations!LearningAt(historyNow)
    BY DEF Destinations!FoundAbout
  <2> HIDE DEF kinds
  <2>4. ASSUME NEW e, <<"new", e>> \in found PROVE e = h /\ "new" \in kinds
    <3>1. PICK k \in kinds : <<"new", e>> = <<k, h>> BY <2>4
    <3>2. <<"new", e>>[1] = <<k, h>>[1] /\ <<"new", e>>[2] = <<k, h>>[2] BY <3>1
    <3>3. QED BY <3>2
  <2>5. QED BY <2>2, <2>3, <2>4 DEF kinds
<1> HIDE DEF id
<1>5. /\ DOMAIN cycle' = {"busy", "rest", "found"} /\ cycle'.rest \in Seq(Endpoints)
      /\ cycle'.found = cycle.found \cup found
  BY <1>2, <1>4 DEF HistoryInv, HistoryType
<1>6. /\ newIDs' \in Seq(RowIDs)
      /\ Destinations!Range(newIDs') = IF h \notin DOMAIN table
           THEN Destinations!Range(newIDs) \cup {id} ELSE Destinations!Range(newIDs)
  <2>1. CASE h \notin DOMAIN table
    <3>1. 0 \in 0..Len(newIDs) BY <1>2
    <3>2. newIDs' = Append(newIDs, id) /\ id \in RowIDs BY <1>4, <1>3a, <2>1
    <3>3. Destinations!Range(Append(newIDs, id)) = Destinations!Range(newIDs) \cup {id}
      BY <1>2, <3>1, <3>2, RangeOfParts
    <3>4. QED BY <1>2, <2>1, <3>2, <3>3 DEF Destinations!Range
  <2>2. CASE h \in DOMAIN table BY <1>2, <1>4, <2>2 DEF Destinations!Range
  <2>3. QED BY <2>1, <2>2
<1>7. HistoryType' BY <1>1, <1>2, <1>3, <1>3a, <1>5, <1>6 DEF HistoryInv, HistoryType
<1>8. known' = DOMAIN table' BY <1>1, <1>3 DEF HistoryInv
<1>9. Destinations!Range(queue') = Destinations!Range(queue) /\ lost' = lost
  BY <1>1 DEF Destinations!Range
<1>10. Destinations!EnrichmentIsPending'
  <2>1. ASSUME NEW e \in DOMAIN table', ~table'[e].enriched
        PROVE  <<e, table'[e].first>> \in
                 Destinations!Range(newIDs') \cup Destinations!Range(queue') \cup lost'
    <3>1. CASE e \in DOMAIN table
      <4>1. <<e, table[e].first>> \in
              Destinations!Range(newIDs) \cup Destinations!Range(queue) \cup lost
        BY <1>3, <2>1, <3>1
           DEF HistoryInv, Destinations!EnrichmentIsPending, Destinations!RowID
      <4>2. QED BY <1>3, <1>6, <1>9, <3>1, <4>1
    <3>2. CASE e \notin DOMAIN table
      <4>1. e = h BY <1>3, <2>1, <3>2
      <4>2. QED BY <1>3a, <1>6, <3>2, <4>1
    <3>3. QED BY <3>1, <3>2
  <2>2. QED BY <2>1 DEF Destinations!EnrichmentIsPending, Destinations!RowID
<1>11. ASSUME NEW e \in Endpoints, <<"new", e>> \in cycle'.found \ cycle.found
       PROVE  e \notin known /\ historyNow - start >= Learning
  <2>1. e \notin DOMAIN table /\ ~Destinations!LearningAt(historyNow) BY <1>4, <1>5, <1>11
  <2>2. QED BY <2>1, <1>2, HistoryAssumption DEF HistoryInv, Destinations!LearningAt
<1>12. QED BY <1>7, <1>8, <1>10, <1>11 DEF HistoryInv

\* The end of a cycle hands over what is new, as far as the queue has room.
LEMMA FinishStep ==
  ASSUME HistoryInv, Destinations!Finish
  PROVE  HistoryInv'
<1> DEFINE room == Destinations!Min({QueueSize - Len(queue), Len(newIDs)})
           first == SubSeq(newIDs, 1, room)
           rest == SubSeq(newIDs, room + 1, Len(newIDs))
<1>1. /\ queue' = queue \o first /\ lost' = lost \cup Destinations!Range(rest)
      /\ newIDs' = <<>> /\ cycle' = Destinations!Idle
      /\ UNCHANGED <<start, table, historyNow, known>>
  BY DEF Destinations!Finish
<1>2. newIDs \in Seq(RowIDs) /\ queue \in Seq(RowIDs) /\ Len(queue) <= QueueSize
  BY DEF HistoryInv, HistoryType
<1>3. room \in 0..Len(newIDs) /\ room <= QueueSize - Len(queue)
  <2>1. QueueSize - Len(queue) \in Nat /\ Len(newIDs) \in Nat BY <1>2, HistoryAssumption
  <2> DEFINE space == QueueSize - Len(queue)
             count == Len(newIDs)
  <2>2. space \in Nat /\ count \in Nat BY <2>1
  <2> HIDE DEF space, count
  <2>3. /\ Destinations!Min({space, count}) \in {space, count}
        /\ Destinations!Min({space, count}) <= space
        /\ Destinations!Min({space, count}) <= count
    BY <2>2, SmallerOfTwo
  <2>4. Destinations!Min({space, count}) \in 0..count BY <2>2, <2>3
  <2>5. QED BY <2>3, <2>4 DEF space, count
<1> HIDE DEF room
<1>4. first \in Seq(RowIDs) /\ Len(first) = room BY <1>2, <1>3
<1>5. queue' \in Seq(RowIDs) /\ Len(queue') <= QueueSize
  <2>1. Len(queue \o first) = Len(queue) + room BY <1>2, <1>4
  <2>2. QED BY <1>1, <1>2, <1>3, <1>4, <2>1, HistoryAssumption
<1>6. Destinations!Range(newIDs) = Destinations!Range(first) \cup Destinations!Range(rest)
  BY <1>2, <1>3, RangeOfParts
<1> HIDE DEF first, rest
<1>7. Destinations!Range(queue') = Destinations!Range(queue) \cup Destinations!Range(first)
  <2>1. 0 \in 0..Len(queue) BY <1>2
  <2>2. Destinations!Range(queue \o first) =
          Destinations!Range(queue) \cup Destinations!Range(first)
    BY <1>2, <1>4, <2>1, RangeOfParts
  <2>3. QED BY <1>1, <2>2 DEF Destinations!Range
<1>8. HistoryType'
  BY <1>1, <1>5 DEF HistoryInv, HistoryType, Destinations!Idle
<1>9. Destinations!EnrichmentIsPending'
  BY <1>1, <1>6, <1>7 DEF HistoryInv, Destinations!EnrichmentIsPending, Destinations!RowID
<1>10. QED BY <1>1, <1>8, <1>9 DEF HistoryInv

\* The enrichment task takes the first request.
LEMMA EnrichStep ==
  ASSUME HistoryInv, Destinations!Enrich
  PROVE  HistoryInv'
<1> DEFINE id == Head(queue)
<1>1. /\ queue # <<>> /\ queue' = Tail(queue)
      /\ UNCHANGED <<start, newIDs, cycle, historyNow, known>>
  BY DEF Destinations!Enrich
<1>2. queue \in Seq(RowIDs) /\ Len(queue) <= QueueSize BY DEF HistoryInv, HistoryType
<1>3. queue' \in Seq(RowIDs) /\ Len(queue') <= QueueSize /\ id \in RowIDs
  BY <1>1, <1>2, HistoryAssumption
<1>4. Destinations!Range(queue) = {id} \cup Destinations!Range(queue')
  <2>1. 0 \in 0..Len(queue) BY <1>2
  <2>2. Destinations!Range(queue) = {id} \cup Destinations!Range(Tail(queue))
    BY <1>1, <1>2, <1>3, <2>1, RangeOfParts
  <2>3. QED BY <1>1, <2>2 DEF Destinations!Range
<1>5. Destinations!Range(newIDs') = Destinations!Range(newIDs)
  BY <1>1 DEF Destinations!Range
<1>6. CASE /\ id[1] \in DOMAIN table /\ Destinations!RowID(table, id[1]) = id
           /\ table' = [table EXCEPT ![id[1]].enriched = TRUE] /\ lost' = lost
  <2> DEFINE h == id[1]
  <2>1. /\ DOMAIN table' = DOMAIN table
        /\ \A e \in DOMAIN table :
             DOMAIN table'[e] = DOMAIN table[e] /\ table'[e].first = table[e].first
        /\ table'[h].enriched
        /\ \A e \in DOMAIN table : e # h => table'[e].enriched = table[e].enriched
    BY <1>6 DEF HistoryInv, HistoryType, RowFields
  <2>2. HistoryType' BY <1>1, <1>3, <2>1 DEF HistoryInv, HistoryType
  <2>3. ASSUME NEW e \in DOMAIN table', ~table'[e].enriched
        PROVE  Destinations!RowID(table', e) \in
                 Destinations!Range(newIDs') \cup Destinations!Range(queue') \cup lost'
    <3>1. e # h /\ e \in DOMAIN table /\ ~table[e].enriched BY <2>1, <2>3
    <3>2. Destinations!RowID(table, e) \in
            Destinations!Range(newIDs) \cup Destinations!Range(queue) \cup lost
      BY <3>1 DEF HistoryInv, Destinations!EnrichmentIsPending
    <3>3. Destinations!RowID(table, e)[1] = e BY DEF Destinations!RowID
    <3>4. Destinations!RowID(table, e) # id BY <3>1, <3>3
    <3>5. Destinations!RowID(table', e) = Destinations!RowID(table, e)
      BY <2>1, <3>1 DEF Destinations!RowID
    <3>6. QED BY <1>4, <1>5, <1>6, <3>2, <3>4, <3>5
  <2>4. Destinations!EnrichmentIsPending' BY <2>3 DEF Destinations!EnrichmentIsPending
  <2>5. QED BY <1>1, <2>1, <2>2, <2>4 DEF HistoryInv
<1>7. CASE lost' = lost \cup {id} /\ table' = table
  <2>1. HistoryType' BY <1>1, <1>3, <1>7 DEF HistoryInv, HistoryType
  <2>2. Destinations!EnrichmentIsPending'
    BY <1>4, <1>5, <1>7
       DEF HistoryInv, Destinations!EnrichmentIsPending, Destinations!RowID
  <2>3. QED BY <1>1, <1>7, <2>1, <2>2 DEF HistoryInv
<1>8. QED BY <1>6, <1>7 DEF Destinations!Enrich

\* The next collection, a failing statement, retention and a restart.
LEMMA OtherHistorySteps ==
  ASSUME HistoryInv,
         \/ \E batch \in Destinations!Snapshots : Destinations!Begin(batch)
         \/ Destinations!ObserveFails \/ Destinations!Prune \/ Destinations!Restart
  PROVE  HistoryInv' /\ (cycle'.found = {} \/ cycle' = cycle)
<1> USE DEF HistoryInv, HistoryType
<1>1. ASSUME NEW batch \in Destinations!Snapshots, Destinations!Begin(batch)
      PROVE  HistoryInv' /\ (cycle'.found = {} \/ cycle' = cycle)
  <2>1. batch \in Seq(Endpoints) BY SnapshotsAreSequences
  <2>2. /\ cycle' = [busy |-> TRUE, rest |-> batch, found |-> {}]
        /\ historyNow' = historyNow + 1
        /\ UNCHANGED <<start, newIDs, queue, table, known, lost>>
    BY <1>1 DEF Destinations!Begin
  <2>3. HistoryType' BY <2>1, <2>2
  <2>4. Destinations!EnrichmentIsPending'
    BY <2>2 DEF Destinations!EnrichmentIsPending, Destinations!Range, Destinations!RowID
  <2>5. QED BY <2>2, <2>3, <2>4
<1>2. CASE Destinations!ObserveFails
  <2> DEFINE h == Head(cycle.rest)
  <2>1. /\ cycle' = Destinations!Idle
        /\ table' = table \/ (h \in DOMAIN table /\ table' = Destinations!Upserted(h))
        /\ UNCHANGED <<start, newIDs, queue, historyNow, known, lost>>
    BY <1>2 DEF Destinations!ObserveFails, Destinations!Waiting
  <2> HIDE DEF h
  <2>2. /\ DOMAIN table' = DOMAIN table
        /\ \A e \in DOMAIN table :
             /\ DOMAIN table'[e] = RowFields /\ table'[e].first = table[e].first
             /\ table'[e].enriched = table[e].enriched
    BY <2>1 DEF Destinations!Upserted, Destinations!Assign, RowFields
  <2>3. HistoryType' BY <2>1, <2>2 DEF Destinations!Idle
  <2>4. Destinations!EnrichmentIsPending'
    BY <2>1, <2>2 DEF Destinations!EnrichmentIsPending, Destinations!Range, Destinations!RowID
  <2>5. QED BY <2>1, <2>2, <2>3, <2>4 DEF Destinations!Idle
<1>3. CASE Destinations!Prune
  <2>1. PICK old : /\ old \subseteq DOMAIN table /\ known' = known \ old
                   /\ table' = [e \in DOMAIN table \ old |-> table[e]]
    BY <1>3 DEF Destinations!Prune, Destinations!Drop
  <2>2. UNCHANGED <<start, newIDs, queue, cycle, historyNow, lost>>
    BY <1>3 DEF Destinations!Prune, Destinations!memory
  <2>3. HistoryType' BY <2>1, <2>2
  <2>4. Destinations!EnrichmentIsPending'
    BY <2>1, <2>2
       DEF Destinations!EnrichmentIsPending, Destinations!Range, Destinations!RowID
  <2>5. QED BY <2>1, <2>2, <2>3, <2>4
<1>4. CASE Destinations!Restart
  <2>1. /\ cycle' = Destinations!Idle /\ start' = historyNow
        /\ newIDs' = <<>> /\ queue' = <<>>
        /\ lost' = lost \cup Destinations!Range(newIDs) \cup Destinations!Range(queue)
        /\ UNCHANGED <<table, historyNow, known>>
    BY <1>4 DEF Destinations!Restart, Destinations!Forgotten
  <2>2. HistoryType' BY <2>1, HistoryAssumption DEF Destinations!Idle
  <2>3. Destinations!EnrichmentIsPending'
    BY <2>1 DEF Destinations!EnrichmentIsPending, Destinations!RowID
  <2>4. QED BY <2>1, <2>2, <2>3 DEF Destinations!Idle
<1>5. QED BY <1>1, <1>2, <1>3, <1>4

\* What the history promises of a step.
NewIsFirst ==
  \A e \in Endpoints : <<"new", e>> \in cycle'.found \ cycle.found =>
     e \notin known /\ historyNow - start >= Learning

\* The invariant holds at first and in every step, and every step calls new what is.
LEMMA HistoryInduction ==
  /\ Destinations!Init => HistoryInv
  /\ HistoryInv /\ [Destinations!Next]_(Destinations!vars) =>
       HistoryInv' /\ [NewIsFirst]_(Destinations!vars)
<1>1. Destinations!Init => HistoryInv
  BY HistoryAssumption DEF Destinations!Init, HistoryInv, HistoryType, Destinations!Idle,
     Destinations!EnrichmentIsPending
<1>2. ASSUME HistoryInv, UNCHANGED Destinations!vars PROVE HistoryInv'
  <2>1. UNCHANGED <<start, newIDs, queue, cycle, table, historyNow, known, lost>>
    BY <1>2 DEF Destinations!vars, Destinations!memory
  <2>2. QED
    BY <1>2, <2>1 DEF HistoryInv, HistoryType, Destinations!EnrichmentIsPending,
                      Destinations!Range, Destinations!RowID
<1>3. ASSUME HistoryInv, Destinations!Next PROVE HistoryInv' /\ NewIsFirst
  <2>1. CASE Destinations!ObserveOne BY <1>3, <2>1, ObserveStep DEF NewIsFirst
  <2>2. CASE Destinations!Finish
    <3>1. cycle'.found = {} BY <2>2 DEF Destinations!Finish, Destinations!Idle
    <3>2. QED BY <1>3, <2>2, <3>1, FinishStep DEF NewIsFirst
  <2>3. CASE Destinations!Enrich
    <3>1. cycle' = cycle BY <2>3 DEF Destinations!Enrich
    <3>2. QED BY <1>3, <2>3, <3>1, EnrichStep DEF NewIsFirst
  <2>4. CASE \/ \E batch \in Destinations!Snapshots : Destinations!Begin(batch)
             \/ Destinations!ObserveFails \/ Destinations!Prune \/ Destinations!Restart
    BY <1>3, <2>4, OtherHistorySteps DEF NewIsFirst
  <2>5. QED BY <1>3, <2>1, <2>2, <2>3, <2>4 DEF Destinations!Next
<1>4. QED BY <1>1, <1>2, <1>3

-----------------------------------------------------------------------------
(***************************************************************************)
(* The limiter.  What it holds of a key is in order and bounded, and as    *)
(* much of it lies in the window as tests of that key were started there,  *)
(* whatever other keys it has forgotten; a refusal names a time after the  *)
(* oldest of them has left the window.                                     *)
(***************************************************************************)
Keys == Clients \X Tasks

InOrder ==
  /\ apiNow \in Nat
  /\ \A k \in DOMAIN hits :
       /\ hits[k] \in Seq(Nat) /\ Len(hits[k]) \in 1..Limit
       /\ \A i \in 1..Len(hits[k]) :
            hits[k][i] <= apiNow /\ \A j \in 1..i : hits[k][j] <= hits[k][i]
  /\ started \in Seq([key : Keys, at : Nat])
  /\ \A i \in 1..Len(started) :
       started[i].at <= apiNow /\ \A j \in 1..i : started[j].at <= started[i].at

\* The tests of a key that were started after t, and those of them that are held.
StartedAfter(k, t) == {n \in 1..Len(started) : started[n].key = k /\ started[n].at > t}

HeldAfter(k, t) ==
  IF k \in DOMAIN hits THEN {i \in 1..Len(hits[k]) : hits[k][i] > t} ELSE {}

StartedAreHeld ==
  \A k \in Keys, t \in Int :
    t >= apiNow - Window => Cardinality(StartedAfter(k, t)) <= Cardinality(HeldAfter(k, t))

\* The tests of the same key in the window that ends with the n-th test.
WindowOf(n) ==
  {m \in 1..n : started[m].key = started[n].key /\ started[m].at > started[n].at - Window}

WithinLimit == \A n \in 1..Len(started) : Cardinality(WindowOf(n)) <= Limit

ToldIsLate ==
  /\ ~misled
  /\ \A k \in DOMAIN told :
       told[k] \in Int /\ (k \in DOMAIN hits => told[k] > hits[k][1] + Window)

LimiterInv == InOrder /\ StartedAreHeld /\ WithinLimit /\ ToldIsLate

\* A set of numbers up to n has a greatest.
LEMMA GreatestNatural ==
  ASSUME NEW n \in Nat, NEW S \in SUBSET (0..n), S # {}
  PROVE  \E m \in S : \A i \in S : i <= m
<1> DEFINE R == {n - i : i \in S}
<1>1. R \subseteq Nat /\ R # {}
  <2>1. \A i \in S : i \in 0..n OBVIOUS
  <2>2. \A i \in S : n - i \in Nat BY <2>1
  <2>3. QED BY <2>2
<1>2. Retention!Min(R) \in R /\ \A x \in R : Retention!Min(R) <= x
  <2> HIDE DEF R
  <2>1. QED BY <1>1, LeastNatural
<1>3. PICK m \in S : Retention!Min(R) = n - m BY <1>2
<1>4. \A i \in S : n - m <= n - i BY <1>2, <1>3
<1>5. \A i \in S : i <= m BY <1>4
<1>6. QED BY <1>5

\* What allow keeps of the times of a key.
LEMMA KeptIsTheEnd ==
  ASSUME InOrder, NEW k \in DOMAIN hits
  PROVE  \E d \in 0..Len(hits[k]) :
           /\ API!InWindow(k) = SubSeq(hits[k], d + 1, Len(hits[k]))
           /\ \A i \in 1..Len(hits[k]) : i <= d <=> hits[k][i] <= apiNow - Window
<1> DEFINE h == hits[k]
           S == {i \in DOMAIN h : h[i] <= apiNow - Window} \cup {0}
           d == API!Max(S)
<1>1. h \in Seq(Nat) /\ \A i \in 1..Len(h) : \A j \in 1..i : h[j] <= h[i] BY DEF InOrder
<1>2. S \in SUBSET (0..Len(h)) /\ S # {} /\ DOMAIN h = 1..Len(h) BY <1>1
<1>3. \E m \in S : \A i \in S : m >= i
  <2>1. Len(h) \in Nat BY <1>1
  <2> HIDE DEF h, S
  <2>2. \E m \in S : \A i \in S : i <= m BY <1>2, <2>1, GreatestNatural
  <2>3. S \subseteq Int BY <1>2, <2>1
  <2>4. QED BY <2>2, <2>3
<1>4. d \in S /\ \A i \in S : d >= i BY <1>3 DEF API!Max
<1>5. API!InWindow(k) = SubSeq(h, d + 1, Len(h)) BY DEF API!InWindow
<1> HIDE DEF d
<1>6. d \in 0..Len(h) BY <1>2, <1>4
<1>7. ASSUME NEW i \in 1..Len(h), i <= d PROVE h[i] <= apiNow - Window
  <2>1. d \in 1..Len(h) /\ h[d] <= apiNow - Window BY <1>2, <1>4, <1>6, <1>7
  <2>2. i \in 1..d BY <1>6, <1>7
  <2>3. h[i] <= h[d] BY <1>1, <2>1, <2>2
  <2>4. h[i] \in Nat /\ h[d] \in Nat /\ apiNow - Window \in Int
    BY <1>1, <2>1, LimiterAssumption DEF InOrder
  <2>5. QED BY <2>1, <2>3, <2>4
<1>8. ASSUME NEW i \in 1..Len(h), h[i] <= apiNow - Window PROVE i <= d
  <2>1. i \in S BY <1>2, <1>8
  <2>2. QED BY <1>4, <1>6, <2>1
<1>9. QED BY <1>5, <1>6, <1>7, <1>8

\* How many numbers a set of positions of a sequence has.
LEMMA PositionsAreFinite ==
  ASSUME NEW n \in Nat, NEW S \in SUBSET (1..n)
  PROVE  IsFiniteSet(S) /\ Cardinality(S) \in Nat
<1>1. IsFiniteSet(1..n) BY FS_Interval
<1>2. IsFiniteSet(S) BY <1>1, FS_Subset
<1>3. QED BY <1>2, FS_CardinalityType

\* What allow keeps has as many times as the key holds in the window.
LEMMA KeptIsCounted ==
  ASSUME InOrder, NEW k
  PROVE  /\ API!InWindow(k) \in Seq(Nat)
         /\ Cardinality(HeldAfter(k, apiNow - Window)) = Len(API!InWindow(k))
<1>1. CASE k \notin DOMAIN hits
  BY <1>1, FS_EmptySet DEF API!InWindow, HeldAfter
<1>2. CASE k \in DOMAIN hits
  <2> DEFINE h == hits[k]
  <2>1. PICK d \in 0..Len(h) :
          /\ API!InWindow(k) = SubSeq(h, d + 1, Len(h))
          /\ \A i \in 1..Len(h) : i <= d <=> h[i] <= apiNow - Window
    BY <1>2, KeptIsTheEnd
  <2>2. h \in Seq(Nat) /\ apiNow - Window \in Int
    BY <1>2, LimiterAssumption DEF InOrder
  <2>3. \A i \in 1..Len(h) : h[i] \in Nat BY <2>2
  <2>4. HeldAfter(k, apiNow - Window) = {i \in 1..Len(h) : h[i] > apiNow - Window}
    BY <1>2 DEF HeldAfter
  <2> HIDE DEF h
  <2>5. \A i \in 1..Len(h) : h[i] > apiNow - Window <=> i > d BY <2>1, <2>2, <2>3
  <2> DEFINE n == Len(h)
  <2> HIDE DEF n
  <2>6. HeldAfter(k, apiNow - Window) = (d + 1)..Len(h)
    <3>1. n \in Nat /\ d \in 0..n BY <2>1, <2>2 DEF n
    <3>2. {i \in 1..n : i > d} = (d + 1)..n BY <3>1
    <3>3. {i \in 1..n : h[i] > apiNow - Window} = {i \in 1..n : i > d} BY <2>5 DEF n
    <3>4. QED BY <2>4, <3>2, <3>3 DEF n
  <2>7. Cardinality((d + 1)..Len(h)) = Len(h) - d
    <3>1. n \in Nat /\ d \in 0..n /\ d + 1 \in Int BY <2>1, <2>2 DEF n
    <3>2. Cardinality((d + 1)..n) = IF d + 1 > n THEN 0 ELSE n - (d + 1) + 1
      BY <3>1, FS_Interval
    <3>3. Cardinality((d + 1)..n) = n - d BY <3>1, <3>2
    <3>4. QED BY <3>3 DEF n
  <2>8. SubSeq(h, d + 1, Len(h)) \in Seq(Nat) /\ Len(SubSeq(h, d + 1, Len(h))) = Len(h) - d
    BY <2>1, <2>2
  <2>9. QED BY <2>1, <2>6, <2>7, <2>8
<1>3. QED BY <1>1, <1>2

\* A refused key is at the limit, and what it was told is later than the first of its times
\* leaves the window.
LEMMA RefusalIsLate ==
  ASSUME InOrder, NEW k, Len(API!InWindow(k)) >= Limit
  PROVE  /\ k \in DOMAIN hits /\ hits[k][1] > apiNow - Window
         /\ apiNow + API!RetryAfter(API!InWindow(k)) \in Int
         /\ apiNow + API!RetryAfter(API!InWindow(k)) > hits[k][1] + Window
<1> USE LimiterAssumption
<1>1. k \in DOMAIN hits
  BY DEF API!InWindow
<1> DEFINE h == hits[k]
<1>2. PICK d \in 0..Len(h) :
        /\ API!InWindow(k) = SubSeq(h, d + 1, Len(h))
        /\ \A i \in 1..Len(h) : i <= d <=> h[i] <= apiNow - Window
  BY <1>1, KeptIsTheEnd
<1>3. h \in Seq(Nat) /\ Len(h) \in 1..Limit /\ apiNow \in Nat BY <1>1 DEF InOrder
<1> HIDE DEF h
<1>4. Len(SubSeq(h, d + 1, Len(h))) = Len(h) - d BY <1>2, <1>3
<1>5. d = 0 /\ Len(h) >= 1 BY <1>2, <1>3, <1>4
<1>6. h[1] \in Nat /\ ~(h[1] <= apiNow - Window) BY <1>2, <1>3, <1>5
<1>7. SubSeq(h, d + 1, Len(h))[1] = h[1] BY <1>3, <1>5
<1> DEFINE wait == h[1] + Window - apiNow
<1>8. wait \in Nat BY <1>3, <1>6
<1>9. API!RetryAfter(API!InWindow(k)) = (wait \div APISecond + 1) * APISecond
  BY <1>2, <1>7 DEF API!RetryAfter
<1> HIDE DEF wait
<1>10. /\ (wait \div APISecond + 1) * APISecond \in Int
       /\ (wait \div APISecond + 1) * APISecond > wait
  <2>1. /\ wait \div APISecond \in Nat
        /\ wait < (wait \div APISecond) * APISecond + APISecond
    BY <1>8, BucketFacts
  <2> DEFINE q == wait \div APISecond
  <2> HIDE DEF q
  <2>2. q \in Nat /\ wait < q * APISecond + APISecond BY <2>1 DEF q
  <2>3. (q + 1) * APISecond = q * APISecond + APISecond /\ q * APISecond \in Nat BY <2>2
  <2>4. QED BY <1>8, <2>2, <2>3 DEF q
<1>11. apiNow + (wait \div APISecond + 1) * APISecond > h[1] + Window
  <2> DEFINE after == (wait \div APISecond + 1) * APISecond
  <2> HIDE DEF after
  <2>1. after \in Int /\ after > wait BY <1>10 DEF after
  <2>2. apiNow + after > h[1] + Window BY <1>3, <1>6, <2>1 DEF wait
  <2>3. QED BY <2>2 DEF after
<1>12. hits[k][1] = h[1] BY DEF h
<1>3a. apiNow - Window \in Int BY <1>3
<1>14. QED
  BY <1>1, <1>3, <1>6, <1>9, <1>10, <1>11, <1>12, <1>3a

\* What allow keeps is in order; with the time of the request behind it, it still is.
LEMMA KeptIsInOrder ==
  ASSUME InOrder, NEW k, NEW s, s = Append(API!InWindow(k), apiNow),
         Len(API!InWindow(k)) < Limit
  PROVE  /\ s \in Seq(Nat) /\ Len(s) = Len(API!InWindow(k)) + 1 /\ Len(s) \in 1..Limit
         /\ s[Len(s)] = apiNow
         /\ \A i \in 1..Len(s) : s[i] <= apiNow /\ \A j \in 1..i : s[j] <= s[i]
<1> DEFINE kept == API!InWindow(k)
<1>1. kept \in Seq(Nat) /\ apiNow \in Nat /\ Limit \in Nat
  BY KeptIsCounted, LimiterAssumption DEF InOrder
<1>2. \A i \in 1..Len(kept) :
        kept[i] <= apiNow /\ \A j \in 1..i : kept[j] <= kept[i]
  <2>1. CASE k \notin DOMAIN hits
    <3>1. kept = <<>> BY <2>1 DEF API!InWindow
    <3>2. QED BY <3>1
  <2>2. CASE k \in DOMAIN hits
    <3> DEFINE h == hits[k]
    <3>1. PICK d \in 0..Len(h) : kept = SubSeq(h, d + 1, Len(h))
      BY <2>2, KeptIsTheEnd
    <3>2. /\ h \in Seq(Nat)
          /\ \A i \in 1..Len(h) : h[i] <= apiNow /\ \A j \in 1..i : h[j] <= h[i]
      BY <2>2 DEF InOrder
    <3> HIDE DEF h, kept
    <3>3. Len(kept) = Len(h) - d /\ \A i \in 1..Len(kept) : kept[i] = h[d + i]
      BY <3>1, <3>2
    <3>4. \A i \in 1..Len(kept) : d + i \in 1..Len(h) BY <3>1, <3>2, <3>3
    <3>5. ASSUME NEW i \in 1..Len(kept) PROVE kept[i] <= apiNow
      BY <3>2, <3>3, <3>4
    <3>6. ASSUME NEW i \in 1..Len(kept), NEW j \in 1..i PROVE kept[j] <= kept[i]
      <4>1. j \in 1..Len(kept) /\ d + j \in 1..(d + i) BY <3>1, <3>3
      <4>2. kept[j] = h[d + j] /\ kept[i] = h[d + i] /\ d + i \in 1..Len(h)
        BY <3>3, <3>4, <4>1
      <4>3. QED BY <3>2, <4>1, <4>2
    <3>7. QED BY <3>5, <3>6
  <2>3. QED BY <2>1, <2>2
<1> HIDE DEF kept
<1>3. /\ s \in Seq(Nat) /\ Len(s) = Len(kept) + 1 /\ s[Len(kept) + 1] = apiNow
      /\ \A i \in 1..Len(kept) : s[i] = kept[i] /\ kept[i] \in Nat
  BY <1>1 DEF kept
<1>4. Len(s) \in 1..Limit BY <1>1, <1>3 DEF kept
<1>5. ASSUME NEW i \in 1..Len(s) PROVE s[i] <= apiNow /\ \A j \in 1..i : s[j] <= s[i]
  <2>1. CASE i = Len(kept) + 1
    <3>1. ASSUME NEW j \in 1..i PROVE s[j] <= apiNow
      <4>1. j = Len(kept) + 1 \/ j \in 1..Len(kept) BY <1>1, <2>1
      <4>2. QED BY <1>1, <1>2, <1>3, <4>1
    <3>2. QED BY <1>3, <2>1, <3>1
  <2>2. CASE i \in 1..Len(kept)
    <3>1. \A j \in 1..i : j \in 1..Len(kept) BY <1>1, <2>2
    <3>2. QED BY <1>2, <1>3, <2>2, <3>1
  <2>3. QED BY <1>1, <1>3, <2>1, <2>2
<1>6. QED BY <1>3, <1>4, <1>5 DEF kept

\* A request that is granted.
Granted(k) ==
  /\ Len(API!InWindow(k)) < Limit
  /\ hits' = API!Bounded(API!Assign(hits, k, Append(API!InWindow(k), apiNow)), k)
  /\ started' = Append(started, [key |-> k, at |-> apiNow])
  /\ told' = API!Without(told, {k})
  /\ apiNow' = apiNow /\ misled' = misled

\* The key that is granted has its time appended; of the others some are forgotten whose
\* times have all left the window.
LEMMA GrantedHits ==
  ASSUME InOrder, NEW k \in Keys, Granted(k)
  PROVE  /\ k \in DOMAIN hits' /\ DOMAIN hits' \subseteq DOMAIN hits \cup {k}
         /\ hits'[k] = Append(API!InWindow(k), apiNow)
         /\ \A o \in DOMAIN hits' \ {k} : hits'[o] = hits[o]
         /\ \A o \in DOMAIN hits \ DOMAIN hits' : hits[o][Len(hits[o])] < apiNow - Window
<1> DEFINE s == Append(API!InWindow(k), apiNow)
           f == API!Assign(hits, k, s)
<1>1. /\ DOMAIN f = DOMAIN hits \cup {k} /\ f[k] = s
      /\ \A o \in DOMAIN hits \ {k} : f[o] = hits[o]
  BY DEF API!Assign
<1>2. s[Len(s)] = apiNow /\ ~(apiNow < apiNow - Window)
  BY KeptIsInOrder, LimiterAssumption DEF Granted, InOrder
<1>3. hits' = API!Bounded(f, k) BY DEF Granted
<1> HIDE DEF s, f
<1>4. CASE hits' = f BY <1>1, <1>4 DEF s
<1>5. CASE hits' = [o \in DOMAIN f \ {o \in DOMAIN f : f[o][Len(f[o])] < apiNow - Window}
                     |-> f[o]]
  <2>1. k \in DOMAIN hits' BY <1>1, <1>2, <1>5
  <2>2. QED BY <1>1, <1>5, <2>1 DEF s
<1>6. QED BY <1>3, <1>4, <1>5 DEF API!Bounded, API!Without, API!Last

\* What a granted request leaves is in order.
LEMMA GrantedInOrder ==
  ASSUME InOrder, NEW k \in Keys, Granted(k)
  PROVE  InOrder'
<1>1. apiNow' \in Nat /\ apiNow' = apiNow BY DEF InOrder, Granted
<1> DEFINE s == Append(API!InWindow(k), apiNow)
<1>2. /\ s \in Seq(Nat) /\ Len(s) \in 1..Limit
      /\ \A i \in 1..Len(s) : s[i] <= apiNow /\ \A j \in 1..i : s[j] <= s[i]
  BY KeptIsInOrder DEF Granted
<1>3. hits'[k] = s BY GrantedHits
<1> HIDE DEF s
<1>4. ASSUME NEW o \in DOMAIN hits'
      PROVE  /\ hits'[o] \in Seq(Nat) /\ Len(hits'[o]) \in 1..Limit
             /\ \A i \in 1..Len(hits'[o]) :
                  hits'[o][i] <= apiNow /\ \A j \in 1..i : hits'[o][j] <= hits'[o][i]
  <2>1. CASE o = k BY <1>2, <1>3, <2>1
  <2>2. CASE o # k
    <3>1. o \in DOMAIN hits /\ hits'[o] = hits[o] BY <1>4, <2>2, GrantedHits
    <3>2. QED BY <3>1 DEF InOrder
  <2>3. QED BY <2>1, <2>2
<1> DEFINE x == [key |-> k, at |-> apiNow]
<1>5. x \in [key : Keys, at : Nat] /\ x.at = apiNow BY DEF InOrder
<1>6. started' = Append(started, x) BY DEF Granted
<1> HIDE DEF x
<1>7. started \in Seq([key : Keys, at : Nat]) BY DEF InOrder
<1>8. /\ started' \in Seq([key : Keys, at : Nat]) /\ Len(started') = Len(started) + 1
      /\ started'[Len(started) + 1] = x
      /\ \A i \in 1..Len(started) : started'[i] = started[i]
  BY <1>5, <1>6, <1>7
<1>9. ASSUME NEW i \in 1..Len(started')
      PROVE  started'[i].at <= apiNow /\ \A j \in 1..i : started'[j].at <= started'[i].at
  <2>1. \A j \in 1..Len(started) : started[j].at <= apiNow BY DEF InOrder
  <2>2. CASE i = Len(started) + 1
    <3>1. ASSUME NEW j \in 1..i PROVE started'[j].at <= apiNow
      <4>1. j = Len(started) + 1 \/ j \in 1..Len(started) BY <1>7, <2>2
      <4>2. QED BY <1>1, <1>5, <1>8, <2>1, <4>1
    <3>2. QED BY <1>1, <1>5, <1>8, <2>2, <3>1
  <2>3. CASE i \in 1..Len(started)
    <3>1. \A j \in 1..i : j \in 1..Len(started) BY <1>7, <2>3
    <3>2. QED BY <1>8, <2>1, <2>3, <3>1 DEF InOrder
  <2>4. QED BY <1>7, <1>8, <2>2, <2>3
<1>10. QED BY <1>1, <1>4, <1>8, <1>9 DEF InOrder

\* No time in the window is lost by allow.
LEMMA KeptKeepsTheWindow ==
  ASSUME InOrder, NEW k, NEW t \in Int, t >= apiNow - Window
  PROVE  Cardinality(HeldAfter(k, t)) <=
           Cardinality({j \in 1..Len(API!InWindow(k)) : API!InWindow(k)[j] > t})
<1> DEFINE kept == API!InWindow(k)
           K == {j \in 1..Len(kept) : kept[j] > t}
           h == hits[k]
           H == {i \in 1..Len(h) : h[i] > t}
<1>1. kept \in Seq(Nat) BY KeptIsCounted
<1>2. IsFiniteSet(K) /\ Cardinality(K) \in Nat
  <2> HIDE DEF kept
  <2>1. K \in SUBSET (1..Len(kept)) /\ Len(kept) \in Nat BY <1>1
  <2>2. QED BY <2>1, PositionsAreFinite
<1>3. CASE k \notin DOMAIN hits
  <2>1. HeldAfter(k, t) = {} BY <1>3 DEF HeldAfter
  <2>2. QED BY <1>2, <2>1, FS_EmptySet
<1>4. CASE k \in DOMAIN hits
  <2>1. PICK d \in 0..Len(h) :
          /\ kept = SubSeq(h, d + 1, Len(h))
          /\ \A i \in 1..Len(h) : i <= d <=> h[i] <= apiNow - Window
    BY <1>4, KeptIsTheEnd
  <2>2. h \in Seq(Nat) /\ apiNow - Window \in Int
    BY <1>4, LimiterAssumption DEF InOrder
  <2>3. HeldAfter(k, t) = H BY <1>4 DEF HeldAfter
  <2> HIDE DEF kept, h
  <2>4. Len(kept) = Len(h) - d /\ \A i \in 1..Len(kept) : kept[i] = h[d + i]
    BY <2>1, <2>2
  <2>5. ASSUME NEW i \in H PROVE i - d \in K /\ i \in Int
    <3>1. i \in 1..Len(h) /\ h[i] > t /\ h[i] \in Nat BY <2>2
    <3>2. ~(h[i] <= apiNow - Window) BY <2>2, <3>1
    <3>3. i - d \in 1..Len(kept) /\ d + (i - d) = i BY <2>1, <2>2, <2>4, <3>1, <3>2
    <3>4. kept[i - d] = h[i] BY <2>4, <3>3
    <3>5. QED BY <3>1, <3>3, <3>4
  <2> DEFINE g == [i \in H |-> i - d]
  <2>6. g \in Injection(H, K)
    <3>1. g \in [H -> K] BY <2>5
    <3>2. \A i, j \in H : g[i] = g[j] => i = j
      <4>1. \A i \in H : i \in Int BY <2>5
      <4>2. d \in Int BY <2>1
      <4>3. QED BY <4>1, <4>2
    <3>3. DOMAIN g = H OBVIOUS
    <3> HIDE DEF g, H, K
    <3>4. QED BY <3>1, <3>2, <3>3 DEF Injection, IsInjective
  <2> HIDE DEF g
  <2>7. Cardinality(H) <= Cardinality(K) BY <1>2, <2>6, FS_Injection
  <2>8. QED BY <2>3, <2>7 DEF kept
<1>5. QED BY <1>3, <1>4

\* What a granted request adds to the tests started, and to those held.
LEMMA GrantedHeld ==
  ASSUME InOrder, StartedAreHeld, NEW k \in Keys, Granted(k)
  PROVE  StartedAreHeld'
<1> SUFFICES ASSUME NEW o \in Keys, NEW t \in Int, t >= apiNow' - Window
             PROVE  Cardinality(StartedAfter(o, t)') <= Cardinality(HeldAfter(o, t)')
  BY DEF StartedAreHeld
<1>1. t >= apiNow - Window /\ apiNow \in Nat /\ Window \in Nat
  BY LimiterAssumption DEF Granted, InOrder
<1> DEFINE n == Len(started)
<1>2. /\ Len(started') = n + 1 /\ started'[n + 1] = [key |-> k, at |-> apiNow]
      /\ \A i \in 1..n : started'[i] = started[i]
      /\ started' \in Seq([key : Keys, at : Nat]) /\ n \in Nat
  BY GrantedInOrder DEF InOrder, Granted
<1> HIDE DEF n
<1>3. \A i \in 1..(n + 1) : i = n + 1 \/ i \in 1..n BY <1>2
<1>4. StartedAfter(o, t)' \subseteq StartedAfter(o, t) \cup
        (IF o = k /\ apiNow > t THEN {n + 1} ELSE {})
  BY <1>2, <1>3 DEF StartedAfter, n
<1>5. /\ IsFiniteSet(StartedAfter(o, t)) /\ Cardinality(StartedAfter(o, t)) \in Nat
      /\ IsFiniteSet(StartedAfter(o, t)') /\ Cardinality(StartedAfter(o, t)') \in Nat
  <2>1. /\ StartedAfter(o, t) \in SUBSET (1..n)
        /\ StartedAfter(o, t)' \in SUBSET (1..(n + 1))
    BY <1>2 DEF StartedAfter, n
  <2>2. QED BY <1>2, <2>1, PositionsAreFinite
<1>6. /\ Cardinality(StartedAfter(o, t)) <= Cardinality(HeldAfter(o, t))
      /\ Cardinality(HeldAfter(o, t)) \in Nat
  <2>1. Cardinality(StartedAfter(o, t)) <= Cardinality(HeldAfter(o, t))
    BY <1>1 DEF StartedAreHeld
  <2>2. CASE o \notin DOMAIN hits
    <3>1. HeldAfter(o, t) = {} BY <2>2 DEF HeldAfter
    <3>2. QED BY <2>1, <3>1, FS_EmptySet
  <2>3. CASE o \in DOMAIN hits
    <3>1. HeldAfter(o, t) \in SUBSET (1..Len(hits[o])) /\ Len(hits[o]) \in Nat
      BY <2>3 DEF HeldAfter, InOrder
    <3>2. QED BY <2>1, <3>1, PositionsAreFinite
  <2>4. QED BY <2>2, <2>3
<1>7. CASE o # k
  <2>1. Cardinality(StartedAfter(o, t)') <= Cardinality(StartedAfter(o, t))
    <3>1. StartedAfter(o, t)' \in SUBSET StartedAfter(o, t) BY <1>4, <1>7
    <3>2. QED BY <1>5, <3>1, FS_Subset
  <2>2. HeldAfter(o, t)' = HeldAfter(o, t)
    <3>1. CASE o \in DOMAIN hits' BY <1>7, <3>1, GrantedHits DEF HeldAfter
    <3>2. CASE o \notin DOMAIN hits BY <1>7, <3>2, GrantedHits DEF HeldAfter
    <3>3. CASE o \in DOMAIN hits \ DOMAIN hits'
      <4> DEFINE h == hits[o]
      <4>1. h[Len(h)] < apiNow - Window BY <3>3, GrantedHits
      <4>2. /\ h \in Seq(Nat) /\ Len(h) \in 1..Limit
            /\ \A i \in 1..Len(h) : \A j \in 1..i : h[j] <= h[i]
        BY <3>3 DEF InOrder
      <4>3. /\ HeldAfter(o, t)' = {}
            /\ HeldAfter(o, t) = {i \in 1..Len(h) : h[i] > t}
        BY <3>3 DEF HeldAfter
      <4> HIDE DEF h
      <4>4. Len(h) \in 1..Len(h) /\ \A i \in 1..Len(h) : h[i] \in Nat
        BY <4>2, LimiterAssumption
      <4>5. \A i \in 1..Len(h) : h[i] <= h[Len(h)] BY <4>2, <4>4
      <4>6. \A i \in 1..Len(h) : ~(h[i] > t) BY <1>1, <4>1, <4>4, <4>5
      <4>7. QED BY <4>3, <4>6
    <3>4. QED BY <3>1, <3>2, <3>3
  <2>3. QED BY <1>5, <1>6, <2>1, <2>2
<1>8. CASE o = k /\ ~(apiNow > t)
  <2>1. StartedAfter(o, t)' = {}
    <3>1. InOrder' BY GrantedInOrder
    <3>2. \A i \in 1..Len(started') : started'[i].at <= apiNow BY <3>1 DEF InOrder, Granted
    <3>3. \A i \in 1..Len(started') : started'[i].at \in Nat
      <4> DEFINE R == [key : Keys, at : Nat]
      <4>1. started' \in Seq(R) BY <1>2
      <4>2. \A x \in R : x.at \in Nat OBVIOUS
      <4> HIDE DEF R
      <4>3. \A i \in 1..Len(started') : started'[i] \in R BY <4>1
      <4>4. QED BY <4>2, <4>3
    <3>4. QED BY <1>1, <1>8, <3>2, <3>3 DEF StartedAfter
  <2>2. IsFiniteSet(HeldAfter(o, t)') /\ Cardinality(HeldAfter(o, t)') \in Nat
    <3>1. CASE o \notin DOMAIN hits' BY <3>1, FS_EmptySet DEF HeldAfter
    <3>2. CASE o \in DOMAIN hits'
      <4>1. hits'[o] \in Seq(Nat) BY <3>2, GrantedInOrder DEF InOrder
      <4>2. HeldAfter(o, t)' \in SUBSET (1..Len(hits'[o])) /\ Len(hits'[o]) \in Nat
        BY <3>2, <4>1 DEF HeldAfter
      <4>3. QED BY <4>2, PositionsAreFinite
    <3>3. QED BY <3>1, <3>2
  <2>3. QED BY <2>1, <2>2, FS_EmptySet
<1>9. CASE o = k /\ apiNow > t
  <2> DEFINE kept == API!InWindow(k)
             K == {j \in 1..Len(kept) : kept[j] > t}
             s == Append(kept, apiNow)
  <2>1. Cardinality(StartedAfter(o, t)') <= Cardinality(StartedAfter(o, t)) + 1
    <3> DEFINE T == StartedAfter(o, t) \cup {n + 1}
    <3>1. StartedAfter(o, t)' \in SUBSET T BY <1>4, <1>9
    <3>2. /\ IsFiniteSet(T) /\ Cardinality(T) \in Nat
          /\ Cardinality(T) <= Cardinality(StartedAfter(o, t)) + 1
      <4> DEFINE S == StartedAfter(o, t)
      <4>1. IsFiniteSet(S) /\ Cardinality(S) \in Nat BY <1>5
      <4> HIDE DEF S
      <4>2. /\ IsFiniteSet(S \cup {n + 1})
            /\ Cardinality(S \cup {n + 1}) =
                 IF n + 1 \in S THEN Cardinality(S) ELSE Cardinality(S) + 1
        BY <4>1, FS_AddElement
      <4>3. QED BY <4>1, <4>2 DEF S
    <3> HIDE DEF T
    <3>3. Cardinality(StartedAfter(o, t)') <= Cardinality(T) BY <3>1, <3>2, FS_Subset
    <3>4. QED BY <1>5, <3>2, <3>3
  <2>2. Cardinality(HeldAfter(o, t)) <= Cardinality(K) BY <1>1, <1>9, KeptKeepsTheWindow
  <2>3. kept \in Seq(Nat) BY KeptIsCounted
  <2>4. hits'[k] = s /\ k \in DOMAIN hits' BY GrantedHits
  <2>5. HeldAfter(o, t)' = {i \in 1..Len(s) : s[i] > t} BY <1>9, <2>4 DEF HeldAfter
  <2> HIDE DEF kept
  <2>6. /\ Len(s) = Len(kept) + 1 /\ s[Len(kept) + 1] = apiNow
        /\ \A i \in 1..Len(kept) : s[i] = kept[i]
        /\ Len(kept) \in Nat
    BY <1>1, <2>3
  <2> HIDE DEF s
  <2>7. {i \in 1..Len(s) : s[i] > t} = K \cup {Len(kept) + 1} /\ Len(kept) + 1 \notin K
    <3>1. \A i \in 1..Len(s) : i = Len(kept) + 1 \/ i \in 1..Len(kept) BY <2>6
    <3>2. \A i \in 1..Len(kept) : i \in 1..Len(s) BY <2>6
    <3>3. Len(kept) + 1 \in 1..Len(s) /\ Len(kept) + 1 \notin 1..Len(kept) BY <2>6
    <3>4. QED BY <1>9, <2>6, <3>1, <3>2, <3>3
  <2>8. IsFiniteSet(K) /\ Cardinality(K) \in Nat
    <3>1. K \in SUBSET (1..Len(kept)) OBVIOUS
    <3> HIDE DEF K
    <3>2. QED BY <2>6, <3>1, PositionsAreFinite
  <2> HIDE DEF K
  <2>9. Cardinality(HeldAfter(o, t)') = Cardinality(K) + 1
    BY <2>5, <2>7, <2>8, FS_AddElement
  <2>10. QED BY <1>5, <1>6, <2>1, <2>2, <2>8, <2>9
<1>10. QED BY <1>7, <1>8, <1>9

\* The test that is started is one of at most Limit in the window that ends with it.
LEMMA GrantedWithin ==
  ASSUME InOrder, StartedAreHeld, WithinLimit, NEW k \in Keys, Granted(k)
  PROVE  WithinLimit'
<1>0. PICK n \in Nat : n = Len(started)
  BY DEF InOrder
<1> DEFINE S == StartedAfter(k, apiNow - Window)
<1>1. /\ Len(started') = n + 1 /\ started'[n + 1] = [key |-> k, at |-> apiNow]
      /\ \A i \in 1..n : started'[i] = started[i]
      /\ n \in Nat
  BY <1>0, GrantedInOrder DEF InOrder, Granted
<1>2. apiNow - Window \in Int /\ Limit \in Nat BY LimiterAssumption DEF InOrder
<1>3. IsFiniteSet(S) /\ Cardinality(S) \in Nat
  <2>1. S \in SUBSET (1..n) BY <1>0 DEF StartedAfter
  <2> HIDE DEF S
  <2>2. QED BY <1>1, <2>1, PositionsAreFinite
<1>4. Cardinality(S) < Limit
  <2>1. Cardinality(S) <= Cardinality(HeldAfter(k, apiNow - Window))
    <3>1. apiNow - Window >= apiNow - Window BY <1>2
    <3>2. QED BY <1>2, <3>1 DEF StartedAreHeld
  <2>2. /\ Cardinality(HeldAfter(k, apiNow - Window)) = Len(API!InWindow(k))
        /\ Len(API!InWindow(k)) \in Nat
    BY KeptIsCounted
  <2>3. Len(API!InWindow(k)) < Limit BY DEF Granted
  <2> HIDE DEF S
  <2>4. QED BY <1>2, <1>3, <2>1, <2>2, <2>3
<1>5. WindowOf(n + 1)' \subseteq S \cup {n + 1}
  <2>1. ASSUME NEW m \in WindowOf(n + 1)' PROVE m \in S \cup {n + 1}
    <3>1. /\ m \in 1..(n + 1)
          /\ started'[m].key = started'[n + 1].key
          /\ started'[m].at > started'[n + 1].at - Window
      BY <2>1 DEF WindowOf
    <3>2. m = n + 1 \/ m \in 1..n BY <1>1, <3>1
    <3>3. CASE m \in 1..n
      <4>1. started[m].key = k /\ started[m].at > apiNow - Window BY <1>1, <3>1, <3>3
      <4>2. QED BY <1>0, <3>3, <4>1 DEF StartedAfter
    <3>4. QED BY <3>2, <3>3
  <2>2. QED BY <2>1
<1>6. Cardinality(WindowOf(n + 1)') <= Limit
  <2> HIDE DEF S
  <2> DEFINE T == S \cup {n + 1}
             W == WindowOf(n + 1)'
  <2>1. IsFiniteSet(T) /\ Cardinality(T) <= Cardinality(S) + 1
    <3>1. /\ IsFiniteSet(S \cup {n + 1})
          /\ Cardinality(S \cup {n + 1}) =
               IF n + 1 \in S THEN Cardinality(S) ELSE Cardinality(S) + 1
      BY <1>3, FS_AddElement
    <3>2. QED BY <1>3, <3>1
  <2>2. W \in SUBSET T BY <1>5
  <2> HIDE DEF T, W
  <2>3. Cardinality(T) \in Nat BY <2>1, FS_CardinalityType
  <2>4. IsFiniteSet(W) /\ Cardinality(W) <= Cardinality(T) BY <2>1, <2>2, FS_Subset
  <2>5. Cardinality(W) \in Nat BY <2>4, FS_CardinalityType
  <2>6. Cardinality(W) <= Limit BY <1>2, <1>3, <1>4, <2>1, <2>3, <2>4, <2>5
  <2>7. QED BY <2>6 DEF W
<1>7. ASSUME NEW i \in 1..n PROVE Cardinality(WindowOf(i)') <= Limit
  <2>1. WindowOf(i)' = WindowOf(i)
    <3>1. \A m \in 1..i : m \in 1..n BY <1>1
    <3>2. \A m \in 1..i : started'[m] = started[m] /\ started'[i] = started[i] BY <1>1, <3>1
    <3>3. QED BY <3>2 DEF WindowOf
  <2>2. Cardinality(WindowOf(i)) <= Limit BY <1>0 DEF WithinLimit
  <2>3. QED BY <2>1, <2>2
<1>8. QED
  <2>1. ASSUME NEW i \in 1..Len(started') PROVE Cardinality(WindowOf(i)') <= Limit
    <3>1. i = n + 1 \/ i \in 1..n BY <1>1
    <3>2. QED BY <1>6, <1>7, <3>1
  <2>2. QED BY <2>1 DEF WithinLimit

\* A granted request forgets what its key was told.
LEMMA GrantedTold ==
  ASSUME InOrder, ToldIsLate, NEW k \in Keys, Granted(k)
  PROVE  ToldIsLate'
<1>1. DOMAIN told' = DOMAIN told \ {k} /\ \A o \in DOMAIN told' : told'[o] = told[o]
  BY DEF Granted, API!Without
<1>2. \A o \in DOMAIN hits' \ {k} : o \in DOMAIN hits /\ hits'[o] = hits[o]
  BY GrantedHits
<1>3. QED BY <1>1, <1>2 DEF ToldIsLate, Granted

\* A granted request keeps the invariant.
LEMMA GrantedStep == ASSUME LimiterInv, NEW k \in Keys, Granted(k) PROVE LimiterInv'
BY GrantedInOrder, GrantedHeld, GrantedWithin, GrantedTold DEF LimiterInv

\* A request that is refused.
Refused(k) ==
  /\ Len(API!InWindow(k)) >= Limit
  /\ told' = API!Assign(told, k, apiNow + API!RetryAfter(API!InWindow(k)))
  /\ misled' = (misled \/ (k \in DOMAIN told /\ apiNow >= told[k]))
  /\ hits' = hits /\ started' = started /\ apiNow' = apiNow

\* A refused request keeps it.
LEMMA RefusedStep == ASSUME LimiterInv, NEW k \in Keys, Refused(k) PROVE LimiterInv'
<1> USE DEF LimiterInv
<1> DEFINE wait == apiNow + API!RetryAfter(API!InWindow(k))
<1>1. /\ k \in DOMAIN hits /\ hits[k][1] > apiNow - Window
      /\ wait \in Int /\ wait > hits[k][1] + Window
  BY RefusalIsLate DEF Refused
<1>2. hits[k][1] \in Nat /\ apiNow \in Nat /\ Window \in Nat
  <2>1. hits[k] \in Seq(Nat) /\ Len(hits[k]) \in 1..Limit BY <1>1 DEF InOrder
  <2>2. QED BY <2>1, LimiterAssumption DEF InOrder
<1>3. told' = API!Assign(told, k, wait) BY DEF Refused
<1> HIDE DEF wait
<1>4. ~misled'
  <2>1. CASE k \in DOMAIN told
    <3>1. told[k] \in Int /\ told[k] > hits[k][1] + Window BY <1>1, <2>1 DEF ToldIsLate
    <3>2. ~(apiNow >= told[k]) BY <1>1, <1>2, <3>1
    <3>3. QED BY <3>2 DEF Refused, ToldIsLate
  <2>2. CASE k \notin DOMAIN told BY <2>2 DEF Refused, ToldIsLate
  <2>3. QED BY <2>1, <2>2
<1>5. ASSUME NEW o \in DOMAIN told'
      PROVE  told'[o] \in Int /\ (o \in DOMAIN hits => told'[o] > hits[o][1] + Window)
  <2>1. CASE o = k BY <1>1, <1>3, <1>5, <2>1 DEF API!Assign
  <2>2. CASE o # k
    <3>1. o \in DOMAIN told /\ told'[o] = told[o] BY <1>3, <1>5, <2>2 DEF API!Assign
    <3>2. QED BY <3>1 DEF ToldIsLate
  <2>3. QED BY <2>1, <2>2
<1>6. ToldIsLate' BY <1>4, <1>5 DEF ToldIsLate, Refused
<1>7. InOrder' BY DEF InOrder, Refused
<1>8. StartedAreHeld'
  BY DEF StartedAreHeld, StartedAfter, HeldAfter, Refused
<1>9. WithinLimit' BY DEF WithinLimit, WindowOf, Refused
<1>10. QED BY <1>6, <1>7, <1>8, <1>9

\* What lies in a window lies in the one that starts earlier.
LEMMA EarlierWindow ==
  ASSUME NEW a \in Nat, NEW b \in Nat, NEW w \in Nat, NEW t \in Int, b >= a, t >= b - w
  PROVE  t >= a - w
OBVIOUS

\* Time, and everything that leaves the limiter alone.
LEMMA QuietStep ==
  ASSUME LimiterInv, apiNow' \in Nat, apiNow' >= apiNow,
         UNCHANGED <<hits, started, told, misled>>
  PROVE  LimiterInv'
<1> USE DEF LimiterInv
<1>1. hits' = hits /\ started' = started /\ told' = told /\ misled' = misled OBVIOUS
<1>2. apiNow \in Nat /\ apiNow' \in Nat /\ apiNow' >= apiNow /\ Window \in Nat
  BY LimiterAssumption DEF InOrder
<1>3. InOrder'
  <2>1. ASSUME NEW o \in DOMAIN hits, NEW i \in 1..Len(hits[o])
        PROVE  hits[o][i] <= apiNow'
    <3>1. hits[o] \in Seq(Nat) /\ hits[o][i] <= apiNow BY <2>1 DEF InOrder
    <3>2. hits[o][i] \in Nat BY <2>1, <3>1
    <3>3. QED BY <1>2, <3>1, <3>2
  <2>2. ASSUME NEW i \in 1..Len(started) PROVE started[i].at <= apiNow'
    <3> DEFINE R == [key : Keys, at : Nat]
    <3>1. started \in Seq(R) /\ started[i].at <= apiNow BY <2>2 DEF InOrder
    <3>2. \A x \in R : x.at \in Nat OBVIOUS
    <3> HIDE DEF R
    <3>3. started[i] \in R BY <2>2, <3>1
    <3>4. started[i].at \in Nat BY <3>2, <3>3
    <3>5. QED BY <1>2, <3>1, <3>4
  <2>3. QED BY <1>1, <1>2, <2>1, <2>2 DEF InOrder
<1>4. StartedAreHeld'
  <2>1. ASSUME NEW t \in Int, t >= apiNow' - Window PROVE t >= apiNow - Window
    <3>1. PICK a \in Nat, b \in Nat, w \in Nat :
            a = apiNow /\ b = apiNow' /\ w = Window /\ b >= a
      BY <1>2
    <3>2. t >= b - w BY <2>1, <3>1
    <3>3. t >= a - w BY <3>1, <3>2, EarlierWindow
    <3>4. QED BY <3>1, <3>3
  <2>2. \A o, t : StartedAfter(o, t)' = StartedAfter(o, t) BY <1>1 DEF StartedAfter
  <2>3. \A o, t : HeldAfter(o, t)' = HeldAfter(o, t) BY <1>1 DEF HeldAfter
  <2>4. QED BY <2>1, <2>2, <2>3 DEF StartedAreHeld
<1>5. WithinLimit' BY <1>1 DEF WithinLimit, WindowOf
<1>6. ToldIsLate' BY <1>1 DEF ToldIsLate
<1>7. QED BY <1>3, <1>4, <1>5, <1>6

\* It holds at first, and in every step.
LEMMA LimiterInduction ==
  /\ API!Init => LimiterInv
  /\ LimiterInv /\ [API!Next]_(API!vars) => LimiterInv'
<1>1. ASSUME API!Init PROVE LimiterInv
  <2>1. hits = <<>> /\ apiNow = 0 /\ started = <<>> /\ told = <<>> /\ misled = FALSE
    BY <1>1 DEF API!Init
  <2>2. Len(started) = 0 /\ DOMAIN hits = {} /\ DOMAIN told = {} BY <2>1
  <2>3. InOrder /\ ToldIsLate BY <2>1, <2>2 DEF InOrder, ToldIsLate
  <2>4. \A n \in 1..Len(started) : FALSE BY <2>2
  <2>5. WithinLimit BY <2>4 DEF WithinLimit
  <2>6. \A k, t : StartedAfter(k, t) = {} /\ HeldAfter(k, t) = {}
    BY <2>2, <2>4 DEF StartedAfter, HeldAfter
  <2>7. StartedAreHeld BY <2>6, FS_EmptySet DEF StartedAreHeld
  <2>8. QED BY <2>3, <2>5, <2>7 DEF LimiterInv
<1>2. ASSUME LimiterInv, UNCHANGED API!vars PROVE LimiterInv'
  BY <1>2, QuietStep DEF API!vars, LimiterInv, InOrder
<1>3. ASSUME LimiterInv, API!Tick PROVE LimiterInv'
  BY <1>3, QuietStep DEF API!Tick, LimiterInv, InOrder
<1>4. ASSUME LimiterInv, NEW s, API!TurnAway(s) PROVE LimiterInv'
  BY <1>4, QuietStep DEF API!TurnAway, LimiterInv, InOrder
<1>5. ASSUME LimiterInv, NEW c, API!Remote(c) PROVE LimiterInv'
  BY <1>5, QuietStep DEF API!Remote, LimiterInv, InOrder
<1>6. ASSUME LimiterInv, NEW c \in Clients, NEW j \in Tasks, NEW ok \in BOOLEAN,
             API!Test(c, j, ok)
      PROVE  LimiterInv'
  <2> DEFINE k == <<c, j>>
  <2>1. k \in Keys BY DEF Keys
  <2>2. Len(API!InWindow(k)) \in Nat /\ Limit \in Nat
    <3>1. API!InWindow(k) \in Seq(Nat) BY <1>6, KeptIsCounted DEF LimiterInv
    <3>2. QED BY <3>1, LimiterAssumption
  <2>3. CASE Len(API!InWindow(k)) >= Limit
    <3>1. Refused(k) BY <1>6, <2>3 DEF API!Test, Refused
    <3>2. QED BY <1>6, <2>1, <3>1, RefusedStep
  <2>4. CASE ~(Len(API!InWindow(k)) >= Limit)
    <3>1. Len(API!InWindow(k)) < Limit BY <2>2, <2>4
    <3>2. Granted(k) BY <1>6, <2>4, <3>1 DEF API!Test, Granted
    <3>3. QED BY <1>6, <2>1, <3>2, GrantedStep
  <2>5. QED BY <2>3, <2>4
<1>7. QED BY <1>1, <1>2, <1>3, <1>4, <1>5, <1>6 DEF API!Next

\* Those between two tests that are less than a window apart all lie in the window that
\* ends with the last of them of that key.
LEMMA LimiterInvIsEnough == LimiterInv => TestsAreLimited
<1> SUFFICES ASSUME LimiterInv PROVE TestsAreLimited
  OBVIOUS
<1> USE DEF LimiterInv
<1>1. /\ Limit \in Nat /\ Window \in Nat /\ Len(started) \in Nat
      /\ DOMAIN started = 1..Len(started)
  BY LimiterAssumption DEF InOrder
<1>2. \A i \in 1..Len(started) : started[i].at \in Nat
  <2> DEFINE R == [key : Keys, at : Nat]
  <2>1. started \in Seq(R) BY DEF InOrder
  <2>2. \A x \in R : x.at \in Nat OBVIOUS
  <2> HIDE DEF R
  <2>3. QED BY <2>1, <2>2
<1>3. ASSUME NEW i \in 1..Len(started), NEW j \in 1..Len(started),
             i < j, started[j].at - started[i].at < Window
      PROVE  Cardinality({n \in i..j : started[n].key = started[i].key}) <= Limit
  <2> DEFINE B == {n \in i..j : started[n].key = started[i].key}
  <2>1. B \in SUBSET (0..j) /\ B \in SUBSET (1..Len(started)) /\ i \in B /\ j \in Nat
    BY <1>1, <1>3
  <2>2. PICK m \in B : \A n \in B : n <= m
    <3> HIDE DEF B
    <3>1. B # {} BY <2>1
    <3>2. QED BY <2>1, <3>1, GreatestNatural
  <2>3. ASSUME NEW n \in B PROVE n \in WindowOf(m)
    <3>1. n \in 1..m /\ m \in 1..j /\ i \in 1..n BY <1>1, <2>1, <2>2
    <3>2. started[n].key = started[m].key BY <2>2
    <3>3. started[i].at <= started[n].at /\ started[m].at <= started[j].at
      <4>1. n \in 1..Len(started) /\ j \in 1..Len(started) BY <2>1
      <4>2. QED BY <3>1, <4>1 DEF InOrder
    <3>4. /\ started[i].at \in Nat /\ started[n].at \in Nat
          /\ started[m].at \in Nat /\ started[j].at \in Nat
      BY <1>2, <2>1
    <3>5. started[n].at > started[m].at - Window BY <1>1, <1>3, <3>3, <3>4
    <3>6. QED BY <3>1, <3>2, <3>5 DEF WindowOf
  <2>4. m \in 1..Len(started) BY <2>1
  <2>5. Cardinality(WindowOf(m)) <= Limit BY <2>4 DEF WithinLimit
  <2>6. IsFiniteSet(WindowOf(m)) /\ Cardinality(WindowOf(m)) \in Nat
    <3>1. WindowOf(m) \in SUBSET (1..m) /\ m \in Nat BY <2>4 DEF WindowOf
    <3>2. QED BY <3>1, PositionsAreFinite
  <2>7. B \in SUBSET WindowOf(m) BY <2>3
  <2> HIDE DEF B
  <2>8. /\ Cardinality(B) <= Cardinality(WindowOf(m))
        /\ Cardinality(B) \in Nat
    BY <2>6, <2>7, FS_Subset, FS_CardinalityType
  <2>9. Cardinality(B) <= Limit BY <1>1, <2>5, <2>6, <2>8
  <2>10. QED BY <2>9 DEF B
<1>4. \A S : API!Cardinality(S) = Cardinality(S) BY DEF API!Cardinality, Cardinality
<1>5. QED
  BY <1>1, <1>3, <1>4 DEF TestsAreLimited, API!TestsAreLimited, ToldIsLate

-----------------------------------------------------------------------------
(***************************************************************************)
(* What a step of Host is to a component.                                  *)
(***************************************************************************)
\* A step of Host is one of the service, or leaves it alone.
LEMMA ServiceStep == [Next]_vars => [Service!Next]_(Service!vars)
BY DEF Next, vars, serviceVars, Service!vars, Service!host, Service!shell

\* A step of Host is one of the database, or leaves it alone.
LEMMA DatabaseStep == [Next]_vars => [Database!Next]_(Database!vars)
BY DEF Next, vars, databaseVars, Database!vars, Database!file

\* A step of Host is one of threat intelligence, or leaves it alone.
LEMMA IntelStep == [Next]_vars => [ThreatIntel!Next]_(ThreatIntel!vars)
BY DEF Next, vars, intelVars, ThreatIntel!vars

\* A step of Host is one of the log files, or leaves them alone.
LEMMA LogFileStep == [Next]_vars => [LogFile!Next]_(LogFile!vars)
BY DEF Next, vars, logFileVars, LogFile!vars, LogFile!disk, LogFile!history

\* A step of Host is one of the measurements and their retention, or leaves them alone.
LEMMA RetentionStep == [Next]_vars => [Retention!Next]_(Retention!vars)
BY DEF Next, vars, retentionVars, Retention!vars

\* A step of Host is one of the configuration, or leaves it alone.
LEMMA ConfigStep == [Next]_vars => [Config!Next]_(Config!vars)
BY DEF Next, vars, configVars, Config!vars

\* A step of Host is one of the destination history, or leaves it alone.
LEMMA HistoryStep == [Next]_vars => [Destinations!Next]_(Destinations!vars)
BY DEF Next, vars, historyVars, Destinations!vars, Destinations!memory

\* A step of Host is one of the API, or leaves it alone.
LEMMA APIStep == [Next]_vars => [API!Next]_(API!vars)
BY DEF Next, vars, apiVars, API!vars

\* Whatever order commands, crashes, recoveries and slow shutdowns come in, on every
\* platform and with every timeout: the service is called running only while its agent
\* serves, stopped only when the last agent ended well, and under systemd a purge takes
\* nothing from an agent.  (Execute, runService, Manager.Uninstall)
THEOREM SpecServiceIsHonest == Spec => []ServiceIsHonest
<1>1. Init => ServiceInv BY ServiceInduction DEF Init
<1>2. ServiceInv /\ [Next]_vars => ServiceInv' BY ServiceInduction, ServiceStep
<1>3. ServiceInv => ServiceIsHonest BY DEF ServiceInv, ServiceIsHonest
<1>4. QED BY <1>1, <1>2, <1>3, PTL DEF Spec

\* However many processes open the file at once, with builds of any ages, migrations of any
\* size, and any number of failures: each recorded version has all of its statements and
\* every other none, there is no gap, a process that opened the file has all its build
\* knows, and each batch is in the file whole or not at all.  (DB.migrate, DB.InTx)
THEOREM SpecDatabaseIsWhole == Spec => []DatabaseIsWhole
<1>1. Init => DatabaseInv BY DatabaseInduction DEF Init
<1>2. DatabaseInv /\ [Next]_vars => DatabaseInv' BY DatabaseInduction, DatabaseStep
<1>3. QED BY <1>1, <1>2, DatabaseInvIsEnough, PTL DEF Spec

\* Whatever imports, expiry and invalidations do while an address is looked up, for every
\* feed and all lifetimes of cached answers: the answer is what was so within the lifetime
\* of an answer of its kind.  (Matcher.MatchAddr, Invalidate)
THEOREM SpecAnswersAreRecent == Spec => []AnswersAreRecent
<1>1. Init => IntelInv BY IntelInduction DEF Init
<1>2. IntelInv /\ [Next]_vars => IntelInv' BY IntelInduction, IntelStep
<1>3. IntelInv => AnswersAreRecent
  BY DEF IntelInv, AnswerIsRight, IsIndicator, Lifetime, AnswersAreRecent,
         ThreatIntel!AnswersAreRecent
<1>4. QED BY <1>1, <1>2, <1>3, PTL DEF Spec

\* Whichever step of a rotation fails or is the last before a stop, and with any limits: each
\* record that was written is in the file or in an archive, unless the limits deleted it or
\* its archive was replaced in the second of its rotation; and after a pruning in which
\* every removal succeeded nothing older than what was ever deleted is kept, whatever
\* earlier ones left behind.  (rotatingFile.rotate, pruneArchives)
THEOREM SpecRecordsAreKept == Spec => []RecordsAreKept
<1>1. Init => LogInv BY LogInduction DEF Init
<1>2. LogInv /\ [Next]_vars => LogInv' BY LogInduction, LogFileStep
<1>3. ASSUME LogInv PROVE RecordsAreKept
  <2>1. LogFile!RecordsIn(archives, DOMAIN archives) = RecordsOf(archives) BY RecordsInMember
  <2>2. ASSUME swept, replaced = {}, NEW p \in pruned,
               NEW k \in RecordsOf(archives) \cup logFileFile.records
        PROVE  k \in pruned \/ p < k
    <3>1. PrunedOk(pruned, logFileFile, archives, swept, last, logFileNow)
      BY <1>3, <2>2 DEF LogInv, DiskOk
    <3>2. CASE k \in logFileFile.records BY <3>1, <3>2 DEF PrunedOk
    <3>3. CASE k \in RecordsOf(archives)
      <4>1. PICK a \in DOMAIN archives : k \in archives[a].records BY <3>3, RecordsOfMember
      <4>2. QED BY <2>2, <3>1, <4>1 DEF PrunedOk
    <3>4. QED BY <2>2, <3>2, <3>3
  <2>3. QED BY <1>3, <2>1, <2>2 DEF LogInv, DiskOk, Kept, RecordsAreKept, LogFile!RecordsAreKept
<1>4. QED BY <1>1, <1>2, <1>3, PTL DEF Spec

\* For every length of a bucket and all ages: retention deletes no sample that is not in the
\* roll-up; and as long as no run was cut short, no sample is counted twice, and a chart of
\* any range and resolution has each of them once, but for its edges.
\* (DB.Prune, downsampleMeasurements, DB.TimeSeries)
THEOREM SpecSamplesAreKept == Spec => []SamplesAreKept
<1>1. Init => RetentionInv BY RetentionInduction DEF Init
<1>2. RetentionInv /\ [Next]_vars => RetentionInv' BY RetentionInduction, RetentionStep
<1>3. QED BY <1>1, <1>2, RetentionInvIsEnough, PTL DEF Spec

\* However a reload, edits of the file and restarts interleave with a task that reads the
\* configuration without a lock: it computes only from settings that were accepted, unless
\* it read while they were being written; and a reload names exactly the sections in which
\* its file differs from what the process was started with.  (Agent.Reload, Validate)
THEOREM SpecReloadIsSound == Spec => ReloadIsSound
<1>1. Init => ConfigInv BY ConfigInduction DEF Init
<1>2. ConfigInv /\ [Next]_vars => ConfigInv' BY ConfigInduction, ConfigStep
<1>3. ConfigInv /\ ConfigInv' /\ [Next]_vars =>
        [/\ task' # Config!Resting => task'.torn \/ Config!Scored(task'.copy)
         /\ report'.event = "CONFIG_RELOADED" =>
              report'.restart = {s \in Config!Reported :
                Config!Key(s, reload.new) # Config!Key(s, built)}]_(Config!vars)
  BY ConfigStepIsSound, ConfigStep
<1>4. QED BY <1>1, <1>2, <1>3, PTL DEF Spec, ReloadIsSound, Config!ReloadIsSound

\* Whatever fails, is deleted or is restarted in between: an endpoint is called new once,
\* at its first contact after the learning period, and each row is enriched, waits for it
\* or was given up.  (Analyzer.Observe, takeNew)
THEOREM SpecHistoryIsKept == Spec => HistoryIsKept
<1>1. Init => HistoryInv BY HistoryInduction DEF Init
<1>2. HistoryInv /\ [Next]_vars => HistoryInv' /\ [NewIsFirst]_(Destinations!vars)
  BY HistoryInduction, HistoryStep
<1>3. HistoryInv => Destinations!EnrichmentIsPending BY DEF HistoryInv
<1>4. QED
  BY <1>1, <1>2, <1>3, PTL DEF Spec, HistoryIsKept, Destinations!HistoryIsKept,
     Destinations!NewIsFirstContact, NewIsFirst

\* However the requests fall into the windows and whichever keys the limiter has forgotten:
\* no client starts the test of one task more than Limit times within a window, and one
\* that waited as long as it was told is not refused.  (rateLimiter.allow, testHandler)
THEOREM SpecTestsAreLimited == Spec => []TestsAreLimited
<1>1. Init => LimiterInv BY LimiterInduction DEF Init
<1>2. LimiterInv /\ [Next]_vars => LimiterInv' BY LimiterInduction, APIStep
<1>3. QED BY <1>1, <1>2, LimiterInvIsEnough, PTL DEF Spec
=============================================================================
