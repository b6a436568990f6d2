------------------------------ MODULE LogFile ------------------------------
(***************************************************************************)
(* The rotating log file behind the text and JSON sinks (logging/file.go,  *)
(* logging/sinks_file.go): one writer at a time, each record appended to   *)
(* the current file, which is first archived when it is full or from       *)
(* another day.  Every call on the file system may fail, and the process   *)
(* may stop between any two of them.                                       *)
(*                                                                         *)
(* A file is the set of its records, each of them one unit of size, and    *)
(* the time of its last change.  An archive is named for the second of its *)
(* rotation.                                                               *)
(***************************************************************************)
EXTENDS Integers, FiniteSets

CONSTANTS MaxBytes, MaxArchives, RetentionTime, Compress,
          Second, Day,     \* how many units of time a second and a day have
          MaxRecords, MaxTime, MaxFaults

VARIABLES
    handle,      \* rotatingFile.f: "open", "none", or "closed" by a Close that failed
    day,         \* rotatingFile.day
    rotations,   \* how many rotations the engine has not been told of
    file,        \* the current file
    archives,    \* <<second, compressed>> -> file
    last,        \* the number of the last record
    now, faults,
    \* history
    written,     \* records whose Write returned no error
    pruned,      \* records deleted with their archive by the limits
    replaced,    \* records of an archive that another took the name of
    refused,     \* records whose Write failed because an earlier rotation had
    swept        \* the last pruning removed all that it was to remove

disk == <<file, archives>>
history == <<written, pruned, replaced, refused, swept>>
vars == <<handle, day, rotations, disk, last, now, faults, history>>

NoFile == [records |-> {}, time |-> -1]
Empty == [records |-> {}, time |-> now]
DayOf(t) == t \div Day

Init ==
    /\ now = 0 /\ file = Empty /\ archives = <<>> /\ handle = "open" /\ day = 0
    /\ rotations = 0 /\ last = 0 /\ faults = 0
    /\ written = {} /\ pruned = {} /\ replaced = {} /\ refused = {} /\ swept = TRUE

Assign(f, k, v) == [j \in DOMAIN f \cup {k} |-> IF j = k THEN v ELSE f[j]]
Without(f, ks) == [j \in DOMAIN f \ ks |-> f[j]]
RecordsIn(f, ks) == UNION {f[k].records : k \in ks \cap DOMAIN f}

-----------------------------------------------------------------------------
\* rotatingFile.open: the file is created when there is none, and its day is that of its
\* last change.
Opened(f) == IF f = NoFile THEN Empty ELSE f

Due(f, d) == f.records # {} /\ (Cardinality(f.records) + 1 > MaxBytes \/ DayOf(now) # d)

Raw == <<now \div Second, FALSE>>
Zip == <<now \div Second, TRUE>>

\* The rename and compressFile, as far as they get.  A compressed copy that is not whole
\* is left beside the archive, and so is a whole one when the archive cannot be removed.
\* Mutant: the archive is removed whether or not it could be compressed.
Archived_Anyway(f, end) ==
    LET copy == IF end = "compress" THEN {} ELSE f.records
    IN IF end = "rename" \/ ~Compress THEN Assign(archives, Raw, f)
       ELSE Without(Assign(archives, Zip, [records |-> copy, time |-> now]), {Raw})

Archived(f, end) ==
    LET renamed == Assign(archives, Raw, f)
        copied == Assign(renamed, Zip, [records |-> IF end = "compress" THEN {} ELSE f.records,
                                        time |-> now])
    IN IF end = "rename" \/ ~Compress THEN renamed
       ELSE IF end \in {"compress", "remove"} THEN copied
       ELSE Without(copied, {Raw})

\* The order of the last changes; a copy is made after what it copies.
Newer(as, b, a) ==
    as[b].time > as[a].time \/ (as[b].time = as[a].time /\ b[2] /\ ~a[2])

\* pruneArchives: by number, newest first, and by age.
ToPrune(as) ==
    {a \in DOMAIN as :
        \/ /\ MaxArchives > 0
           /\ Cardinality({b \in DOMAIN as : Newer(as, b, a)}) >= MaxArchives
        \/ RetentionTime > 0 /\ as[a].time < now - RetentionTime}

\* What it had removed when the process stopped: it goes from the newest to the oldest.
Begun(as, gone) ==
    /\ gone \subseteq ToPrune(as)
    /\ \A a \in gone, b \in ToPrune(as) \ gone : Newer(as, a, b)

\* rotatingFile.rotate, with the step that fails if one does.  Of the archives to be removed
\* some may be stuck: the failure of each removal is ignored, and so are an archive that
\* cannot be examined and a directory that cannot be read.
Failures == {"none", "close", "rename", "reopen", "compress", "remove", "prune", "open", "write"}

Rotate(f, failure, stuck) ==
    LET as == Archived(f, failure)
        gone == ToPrune(as) \ stuck
        moved == failure \notin {"close", "rename", "reopen"}
        opens == failure \notin {"close", "reopen", "open"}
    IN [handle |-> IF failure = "close" THEN "closed" ELSE IF opens THEN "open" ELSE "none",
        day |-> IF ~opens THEN day ELSE DayOf(IF moved THEN now ELSE f.time),
        file |-> IF ~moved THEN f ELSE IF opens THEN Empty ELSE NoFile,
        archives |-> IF moved THEN Without(as, gone) ELSE archives,
        rotations |-> IF moved /\ opens THEN rotations + 1 ELSE rotations,
        pruned |-> IF moved THEN RecordsIn(as, gone) ELSE {},
        swept |-> IF moved THEN gone = ToPrune(as) ELSE swept,
        replaced |-> IF moved THEN RecordsIn(archives, DOMAIN archives) \ RecordsIn(as, DOMAIN as) ELSE {}]

Same(f, d) ==
    [handle |-> "open", day |-> d, file |-> f, archives |-> archives, rotations |-> rotations,
     pruned |-> {}, swept |-> swept, replaced |-> {}]

\* rotatingFile.Write: it opens the file if it has none, rotates when that is due, goes on
\* with the record whatever became of the rotation, and reports only the write itself.  The
\* record takes a unit of time to write.
Write(failure, stuck) ==
    LET reopens == handle = "none"
        f == IF reopens THEN Opened(file) ELSE file
        d == IF reopens THEN DayOf(f.time) ELSE day
        r == IF handle = "closed" THEN [Same(f, d) EXCEPT !.handle = "closed"]
             ELSE IF Due(f, d) THEN Rotate(f, failure, stuck) ELSE Same(f, d)
        record == last + 1
        ok == r.handle = "open" /\ failure # "write"
    IN /\ last < MaxRecords /\ now < MaxTime
       /\ failure = "none" \/ faults < MaxFaults
       /\ stuck # {} => failure = "prune"
       /\ last' = record /\ now' = now + 1
       /\ faults' = IF failure = "none" THEN faults ELSE faults + 1
       /\ IF reopens /\ failure = "open" THEN UNCHANGED <<handle, day, rotations, disk, history>>
          ELSE /\ handle' = r.handle /\ day' = r.day /\ archives' = r.archives
               /\ rotations' = r.rotations
               /\ file' = IF ok THEN [records |-> r.file.records \cup {record}, time |-> now + 1] ELSE r.file
               /\ written' = IF ok THEN written \cup {record} ELSE written
               /\ pruned' = pruned \cup r.pruned /\ replaced' = replaced \cup r.replaced
               /\ swept' = r.swept
               /\ refused' = IF r.handle = "open" THEN refused ELSE refused \cup {record}

\* takeRotations: the engine asks after each record and reports what it is told.
TakeRotations ==
    /\ rotations > 0 /\ rotations' = 0
    /\ UNCHANGED <<handle, day, disk, last, now, faults, history>>

Pass ==
    /\ now < MaxTime /\ now' = now + 1
    /\ UNCHANGED <<handle, day, rotations, disk, last, faults, history>>

\* newRotatingFile after the process stopped: between two records, or in a rotation, where
\* what the limits were to delete may be gone in part.
Stops == {"idle", "rename", "compress", "remove", "prune"}

Restart(stop, gone) ==
    /\ faults < MaxFaults /\ faults' = faults + 1
    /\ stop = "idle" \/ (handle = "open" /\ Due(file, day))
    /\ LET as == IF stop = "idle" THEN archives ELSE Archived(file, stop)
           f == IF stop = "idle" THEN Opened(file) ELSE Empty
       IN /\ IF stop = "prune" THEN Begun(as, gone) ELSE gone = {}
          /\ archives' = Without(as, gone) /\ file' = f /\ day' = DayOf(f.time)
          /\ pruned' = pruned \cup RecordsIn(as, gone)
          /\ swept' = IF stop = "prune" THEN gone = ToPrune(as) ELSE swept
          /\ replaced' = replaced \cup (RecordsIn(archives, DOMAIN archives) \ RecordsIn(as, DOMAIN as))
    /\ handle' = "open" /\ rotations' = 0
    /\ UNCHANGED <<last, now, written, refused>>

Next ==
    \/ \E failure \in Failures, stuck \in SUBSET (DOMAIN archives \cup {Raw, Zip}) :
        Write(failure, stuck)
    \/ TakeRotations \/ Pass
    \/ \E stop \in Stops, gone \in SUBSET (DOMAIN archives \cup {Raw, Zip}) :
        Restart(stop, gone)

Spec == Init /\ [][Next]_vars

TypeOK ==
    /\ handle \in {"open", "none", "closed"} /\ rotations \in 0..MaxRecords
    /\ DOMAIN archives \subseteq (0..MaxTime) \X BOOLEAN
    /\ written \cup refused \subseteq 1..last
    /\ swept \in BOOLEAN

-----------------------------------------------------------------------------
\* No failure of a rotation and no stop in the middle of one loses a record that was
\* written: it is in the file or in an archive unless the limits deleted it or a rotation
\* in the same second took the archive's name.  The limits delete the oldest: what a removal
\* that failed or a stop left behind, although newer records were deleted, goes with the
\* next pruning in which every removal succeeds, and nothing older than what was ever
\* deleted is kept after that.  (rotatingFile.rotate, pruneArchives)
RecordsAreKept ==
    LET archived == RecordsIn(archives, DOMAIN archives)
    IN /\ written \subseteq file.records \cup archived \cup pruned \cup replaced
       /\ swept /\ replaced = {} =>
            \A p \in pruned, k \in archived \cup file.records : k \in pruned \/ p < k

\* Without that condition the code does not promise it: the newest is removed first
\* (file.go:169-186), and the older one stays when its removal fails or never comes.
OldestGoFirst ==
    LET archived == RecordsIn(archives, DOMAIN archives)
    IN \A p \in pruned, k \in archived \cup file.records : k \in pruned \/ p < k

\* "Rotation failure must not lose the record: keep writing to the current file and report
\* the problem through the sink error path" (file.go).  When Close or the second open
\* fails there is no current file to go on with; after Close there never is one again.
RotationFailuresLoseNothing == refused = {}

\* The same for the archives: a rotation in the second of another takes its name.
ArchivesAreDistinct == replaced = {}
=============================================================================
