------------------------------ MODULE Database ------------------------------
(***************************************************************************)
(* Opening the database (database/db.go, database/schema.go): the agent    *)
(* and the commands of cmd/ipulse open the same SQLite file, each through  *)
(* a writer with one connection; the agent applies the migrations its      *)
(* build knows, and then writes in transactions (DB.InTx).  A process may  *)
(* stop at any moment.                                                     *)
(*                                                                         *)
(* SQLite is outside the repository: one process holds its write lock at a *)
(* time, and what a transaction wrote is in the file once it is committed. *)
(***************************************************************************)
EXTENDS Integers, FiniteSets

CONSTANTS Processes, ReadOnly,   \* all of them, and those that open it read-only
          Latest,                \* the newest version the build of each process knows
          NumStatements,         \* of each migration
          MaxBatches, MaxFaults, MaxOpens

VARIABLES
    exists, tracked,   \* the file; its table schema_migrations
    versions,          \* the rows of that table
    content,           \* <<version, statement>> applied, and <<-batch, row>> written
    lock,              \* the process that holds the write lock, or Nobody
    at,                \* where each process is
    cur,               \* the version it has read or reached: DB.schemaVersion
    pending,           \* what its transaction has written
    batches, faults, opens

file == <<exists, tracked, versions, content>>
vars == <<file, lock, at, cur, pending, batches, faults, opens>>

Nobody == 0

Init ==
    /\ exists = FALSE /\ tracked = FALSE /\ versions = {} /\ content = {}
    /\ lock = Nobody /\ batches = 0 /\ faults = 0 /\ opens = 0
    /\ at = [p \in Processes |-> "closed"] /\ cur = [p \in Processes |-> 0]
    /\ pending = [p \in Processes |-> {}]

Statements(v) == {v} \X (1..NumStatements)

\* The process goes on with the lock held or free, and with what is pending.
Goes(p, where, holder, writes) ==
    /\ at' = [at EXCEPT ![p] = where]
    /\ lock' = holder
    /\ pending' = [pending EXCEPT ![p] = writes]

Fault == faults < MaxFaults /\ faults' = faults + 1

\* Open fails, a command ends, or the process stops: its transaction is rolled back.
Leave(p) ==
    /\ at[p] # "closed"
    /\ Goes(p, "closed", IF lock = p THEN Nobody ELSE lock, {})
    /\ UNCHANGED <<file, cur, batches, opens>>

-----------------------------------------------------------------------------
\* Open: a read-only one wants the file to exist; PingContext creates it otherwise.
Open(p) ==
    /\ at[p] = "closed" /\ opens < MaxOpens
    /\ p \in ReadOnly => exists
    /\ opens' = opens + 1
    /\ Goes(p, "connected", lock, {}) /\ exists' = TRUE
    /\ UNCHANGED <<tracked, versions, content, cur, batches, faults>>

\* DB.currentVersion: the table is created when it is missing, whoever asks.
ReadVersion(p) ==
    /\ at[p] = "connected"
    /\ tracked \/ lock = Nobody
    /\ tracked' = TRUE
    /\ cur' = [cur EXCEPT ![p] = IF versions = {} THEN 0 ELSE CHOOSE v \in versions : \A w \in versions : w <= v]
    /\ Goes(p, IF p \in ReadOnly THEN "open" ELSE "migrate", lock, {})
    /\ UNCHANGED <<exists, versions, content, batches, faults, opens>>

\* DB.migrate: one transaction for each version above the one that was read.
BeginMigration(p) ==
    /\ at[p] = "migrate" /\ cur[p] < Latest[p] /\ lock = Nobody
    /\ Goes(p, "migrating", p, {})
    /\ UNCHANGED <<file, cur, batches, faults, opens>>

\* Mutant: the statements run outside the transaction.
Migrate_Directly(p) ==
    \E s \in Statements(cur[p] + 1) \ pending[p] :
        /\ at[p] = "migrating" /\ \A r \in Statements(cur[p] + 1) \ pending[p] : s[2] <= r[2]
        /\ Goes(p, "migrating", lock, pending[p] \cup {s})
        /\ content' = content \cup {s}
        /\ UNCHANGED <<exists, tracked, versions, cur, batches, faults, opens>>

Migrate(p) ==
    \E s \in Statements(cur[p] + 1) \ pending[p] :
        /\ at[p] = "migrating" /\ \A r \in Statements(cur[p] + 1) \ pending[p] : s[2] <= r[2]
        /\ Goes(p, "migrating", lock, pending[p] \cup {s})
        /\ UNCHANGED <<file, cur, batches, faults, opens>>

\* The version's own row and the commit.  The row is there already when another process
\* migrated after this one read the version: the insert fails, and Open with it.
CommitMigration(p) ==
    LET v == cur[p] + 1
    IN /\ at[p] = "migrating" /\ pending[p] = Statements(v)
       /\ IF v \in versions
          THEN Goes(p, "closed", Nobody, {}) /\ UNCHANGED <<versions, content, cur>>
          ELSE /\ Goes(p, "migrate", Nobody, {})
               /\ versions' = versions \cup {v} /\ content' = content \cup pending[p]
               /\ cur' = [cur EXCEPT ![p] = v]
       /\ UNCHANGED <<exists, tracked, batches, faults, opens>>

Migrated(p) ==
    /\ at[p] = "migrate" /\ cur[p] >= Latest[p]
    /\ Goes(p, "open", lock, {})
    /\ UNCHANGED <<file, cur, batches, faults, opens>>

\* DB.InTx: every write of the stores that has more than one row.
BeginTx(p) ==
    /\ at[p] = "open" /\ p \notin ReadOnly /\ lock = Nobody /\ batches < MaxBatches
    /\ batches' = batches + 1
    /\ Goes(p, "writing", p, {<<-batches', 1>>})
    /\ UNCHANGED <<file, cur, faults, opens>>

CommitTx(p) ==
    /\ at[p] = "writing"
    /\ content' = content \cup pending[p] \cup {<<b[1], 2>> : b \in pending[p]}
    /\ Goes(p, "open", Nobody, {})
    /\ UNCHANGED <<exists, tracked, versions, cur, batches, faults, opens>>

RollbackTx(p) ==
    /\ at[p] = "writing" /\ Fault
    /\ Goes(p, "open", Nobody, {})
    /\ UNCHANGED <<file, cur, batches, opens>>

\* An error, a lock that stays busy for too long, or the end of the process; DB.Close.
Fails(p) == Fault /\ Leave(p)
Close(p) == at[p] = "open" /\ Leave(p) /\ UNCHANGED faults

Step(p) ==
    \/ Open(p) \/ ReadVersion(p) \/ BeginMigration(p) \/ Migrate(p) \/ CommitMigration(p)
    \/ Migrated(p) \/ BeginTx(p) \/ CommitTx(p) \/ RollbackTx(p) \/ Fails(p) \/ Close(p)

Next == \E p \in Processes : Step(p)

Spec == Init /\ [][Next]_vars

TypeOK ==
    /\ lock \in Processes \cup {Nobody}
    /\ \A p \in Processes : at[p] \in {"migrating", "writing"} <=> lock = p
    /\ versions # {} => tracked

-----------------------------------------------------------------------------
\* "a failure leaves the database at the last complete version rather than half-migrated":
\* with several processes opening the file at once, by builds of different ages and
\* stopping anywhere, each version that is recorded has all its statements and every other
\* none, the versions have no gap, a process that has opened it has all that its build
\* knows, and each batch is in the file whole or not at all.  (DB.migrate, DB.InTx)
DatabaseIsWhole ==
    /\ \A v \in 1..(Cardinality(versions) + 1) :
          IF v <= Cardinality(versions) THEN v \in versions /\ Statements(v) \subseteq content
          ELSE v \notin versions /\ Statements(v) \cap content = {}
    /\ \A p \in Processes \ ReadOnly : at[p] \in {"open", "writing"} => 1..Latest[p] \subseteq versions
    /\ \A b \in 1..batches : <<-b, 1>> \in content <=> <<-b, 2>> \in content

\* Options.ReadOnly "opens the database without attempting migrations [...] so an `ipulse
\* events` invocation can never disturb the running agent" (db.go).  It reads the version
\* through the writer, which creates schema_migrations when it is not there yet.
ReadOnlyNeverWrites ==
    [][\A p \in ReadOnly : at'[p] # at[p] => file' = file]_vars
=============================================================================
