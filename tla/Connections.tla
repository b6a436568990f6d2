---------------------------- MODULE Connections ----------------------------
(***************************************************************************)
(* The connection table: how Linux reads and attributes its sockets        *)
(* (platform/linux/connections.go), how the collector turns them into      *)
(* records (network/connections.go), and how the task stores a snapshot    *)
(* and hands it on (agent/monitor_connections.go,                          *)
(* database/store_connections.go).                                         *)
(*                                                                         *)
(* The kernel's sockets go on changing while a sample is taken: each file  *)
(* of /proc/net and each process is read at a moment of its own.  A socket *)
(* is its inode; a process is its pid, which stands for its name too.      *)
(***************************************************************************)
EXTENDS Integers, FiniteSets

CONSTANTS Endpoints, V6,      \* pairs of addresses, and those in /proc/net/tcp6
          NumPids, Hidden,    \* processes, and those whose descriptors may not be read
          IgnoreProcesses, MaxConnections,
          MaxChanges, MaxTime, MaxFaults

VARIABLES
    sockets,    \* the kernel: for each inode used so far, its endpoint and holders
    phase,      \* what the connections task does next
    pid,        \* the process it looks at next
    raw,        \* the rows read: inodes with the pid found for them, 0 for none
    broken,     \* a file could not be read
    firstSeen,  \* Collector.firstSeen
    latest,     \* connectionMonitor.latest
    rows,       \* the connections table
    now, changes, faults,
    \* history
    held,       \* <<inode, pid>> held at some moment of this cycle
    collected   \* the times and keys of the successful collections

kernel == <<sockets, held, changes>>
cycle == <<phase, pid, raw, broken>>
kept == <<firstSeen, latest, rows, collected>>
vars == <<kernel, cycle, kept, now, faults>>

Pids == 1..NumPids
Inodes == DOMAIN sockets
Open == {i \in Inodes : sockets[i].holders # {}}
Holds == {h \in Inodes \X Pids : h[2] \in sockets[h[1]].holders}

NoSnapshot == [time |-> -1, conns |-> {}]

Init ==
    /\ sockets = <<>> /\ phase = "idle" /\ pid = 1 /\ raw = {} /\ broken = FALSE
    /\ firstSeen = <<>> /\ latest = NoSnapshot /\ rows = <<>>
    /\ now = 0 /\ changes = 0 /\ faults = 0 /\ held = {} /\ collected = {}

-----------------------------------------------------------------------------
\* The host: programs open sockets, hand them to others and let go of them.
OpenSocket(e, p) ==
    LET i == Cardinality(Inodes) + 1
    IN /\ ~\E j \in Open : sockets[j].endpoint = e
       /\ sockets' = [j \in Inodes \cup {i} |->
                         IF j = i THEN [endpoint |-> e, opener |-> p, holders |-> {p}]
                         ELSE sockets[j]]
       /\ held' = held \cup {<<i, p>>}
       /\ changes < MaxChanges /\ changes' = changes + 1
       /\ UNCHANGED <<cycle, kept, now, faults>>

Hold(i, ps) ==
    /\ sockets' = [sockets EXCEPT ![i].holders = ps]
    /\ held' = held \cup ({i} \X ps)
    /\ changes < MaxChanges /\ changes' = changes + 1
    /\ UNCHANGED <<cycle, kept, now, faults>>

Inherit(i, p) == p \notin sockets[i].holders /\ Hold(i, sockets[i].holders \cup {p})
Release(i, p) == p \in sockets[i].holders /\ Hold(i, sockets[i].holders \ {p})

Tick ==
    /\ now < MaxTime /\ phase = "idle" /\ now' = now + 1
    /\ UNCHANGED <<kernel, cycle, kept, faults>>

-----------------------------------------------------------------------------
Start ==
    /\ phase = "idle" /\ \A c \in collected : c.time < now
    /\ phase' = "tcp" /\ pid' = 1 /\ raw' = {} /\ broken' = FALSE /\ held' = Holds
    /\ UNCHANGED <<sockets, changes, kept, now, faults>>

\* readProcNet for one file, or its failure.  The sample fails only when nothing at all
\* was read; otherwise the connections of that file are simply not in it.
ReadFile(ok) ==
    /\ phase \in {"tcp", "tcp6"}
    /\ ok \/ faults < MaxFaults
    /\ faults' = IF ok THEN faults ELSE faults + 1
    /\ broken' = (broken \/ ~ok)
    /\ raw' = raw \cup {[inode |-> i, pid |-> 0] :
                          i \in {j \in Open : ok /\ (sockets[j].endpoint \in V6) = (phase = "tcp6")}}
    /\ phase' = CASE phase = "tcp" -> "tcp6"
                  [] phase = "tcp6" /\ raw' = {} /\ broken' -> "idle"
                  [] OTHER -> "scan"
    /\ UNCHANGED <<kernel, pid, kept, now>>

\* Mutant: the holder is looked up by the addresses instead of by the inode.
FoundIn_ByEndpoint(i, p) ==
    \E j \in Open : sockets[j].endpoint = sockets[i].endpoint /\ p \in sockets[j].holders

FoundIn(i, p) == p \in sockets[i].holders

\* attributeProcesses: the descriptors of one process after the other; of several
\* holders the last counts, and a process that may not be read is skipped.
Scan ==
    /\ phase = "scan"
    /\ raw' = {IF pid \notin Hidden /\ FoundIn(r.inode, pid) THEN [r EXCEPT !.pid = pid] ELSE r :
                 r \in raw}
    /\ IF pid < NumPids THEN pid' = pid + 1 /\ UNCHANGED phase
       ELSE phase' = "collect" /\ UNCHANGED pid
    /\ UNCHANGED <<kernel, broken, kept, now, faults>>

\* The first MaxConnections rows in the order of the files; a file's own order is the kernel's.
Kept ==
    LET four == {r \in raw : sockets[r.inode].endpoint \notin V6}
    IN {k \in SUBSET raw : /\ Cardinality(k) = IF Cardinality(raw) > MaxConnections
                                               THEN MaxConnections ELSE Cardinality(raw)
                           /\ k \subseteq four \/ four \subseteq k}

\* platform.ConnectionKey: the addresses and the pid.
Key(r) == <<sockets[r.inode].endpoint, r.pid>>

\* What a snapshot makes of firstSeen: keys that are new get the time of the sample, and
\* those that are not in it are forgotten.
Remembered(keys) == [k \in keys |-> IF k \in DOMAIN firstSeen THEN firstSeen[k] ELSE now]

\* processInfo: no name for a process that has exited by now, nor for a row without one.
Named(r, exited) == IF r.pid \in exited THEN 0 ELSE r.pid

\* Collector.Collect, and run's m.latest = snap; a rule that ignores a process needs its name.
Collect(sample, exited) ==
    /\ phase = "collect"
    /\ LET shown == {r \in sample : Named(r, exited) \notin IgnoreProcesses}
           keys == {Key(r) : r \in shown}
       IN /\ firstSeen' = Remembered(keys)
          /\ latest' = [time |-> now,
                        conns |-> {[key |-> Key(r), inode |-> r.inode, first |-> firstSeen'[Key(r)],
                                    process |-> Named(r, exited)] : r \in shown}]
          /\ collected' = collected \cup {[time |-> now, keys |-> keys]}
    /\ phase' = "store"
    /\ UNCHANGED <<kernel, pid, raw, broken, rows, now, faults>>

\* DB.UpsertConnections: a known key keeps the time it was first stored.
Upserted(c) ==
    IF c.key \in DOMAIN rows
    THEN [rows[c.key] EXCEPT !.last = now, !.samples = @ + 1, !.inodes = @ \cup {c.inode},
                             !.process = IF c.process = 0 THEN @ ELSE c.process]
    ELSE [first |-> c.first, last |-> now, samples |-> 1, inodes |-> {c.inode}, process |-> c.process]

Store ==
    /\ phase = "store"
    /\ rows' = [k \in DOMAIN rows \cup {c.key : c \in latest.conns} |->
                  IF \E c \in latest.conns : c.key = k
                  THEN Upserted(CHOOSE c \in latest.conns : c.key = k) ELSE rows[k]]
    /\ phase' = "deliver"
    /\ UNCHANGED <<kernel, pid, raw, broken, firstSeen, latest, collected, now, faults>>

\* The rows or the measurements could not be written: the consumers are not called.
StoreFails ==
    /\ phase \in {"store", "deliver"} /\ faults < MaxFaults
    /\ faults' = faults + 1 /\ phase' = "idle"
    /\ UNCHANGED <<kernel, pid, raw, broken, kept, now>>

Deliver ==
    /\ phase = "deliver" /\ phase' = "idle"
    /\ UNCHANGED <<kernel, pid, raw, broken, kept, now, faults>>

Next ==
    \/ Tick \/ Start \/ Scan \/ Store \/ StoreFails \/ Deliver
    \/ \E ok \in BOOLEAN : ReadFile(ok)
    \/ \E e \in Endpoints, p \in Pids : OpenSocket(e, p)
    \/ \E i \in Open, p \in Pids : Inherit(i, p) \/ Release(i, p)
    \/ \E k \in Kept, p \in Pids \cup {0} : Collect(k, {p})

Spec == Init /\ [][Next]_vars

TypeOK ==
    /\ phase \in {"idle", "tcp", "tcp6", "scan", "collect", "store", "deliver"}
    /\ pid \in Pids /\ \A r \in raw : r.inode \in Inodes /\ r.pid \in Pids \cup {0}
    /\ \A c \in latest.conns : c.first <= latest.time

-----------------------------------------------------------------------------
\* A snapshot tells the truth about a host that changes under it: the process named did
\* hold that very socket while the sample was taken, although the scan comes after the
\* files were read and the addresses may be another's by then; and a connection's age
\* never spans a sample in which it was not there, however often its addresses are used
\* again.  The detectors get it only when its row is stored, and the row is no younger.
\* (attributeProcesses, Collector.Collect, connectionMonitor.run)
SnapshotIsTrue ==
    \A c \in latest.conns :
        /\ (phase = "store" /\ c.key[2] # 0) => <<c.inode, c.key[2]>> \in held
        /\ \A s \in collected : (c.first <= s.time /\ s.time <= latest.time) => c.key \in s.keys
        /\ phase = "deliver" => (c.key \in DOMAIN rows /\ rows[c.key].first <= c.first)

\* types.go says of the key: "The pid is included so two processes reusing the same tuple
\* after a close are not merged."  Sockets that could not be attributed share pid 0, and
\* the row of the first goes on for the second.
ReusedTuplesAreNotMerged ==
    \A k \in DOMAIN rows : \A i, j \in rows[k].inodes : sockets[i].opener = sockets[j].opener
=============================================================================
