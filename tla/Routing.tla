------------------------------- MODULE Routing -------------------------------
(***************************************************************************)
(* Path monitoring: traces (internal/routing/traceroute.go) and the two    *)
(* tasks that take, compare and store them (agent/monitor_routing.go), one *)
(* on its timer and one on request, which share the rows and the turn of   *)
(* the destinations but no lock.                                           *)
(*                                                                         *)
(* The network answers a trace with the routers of the path and then, at   *)
(* every further hop, with the destination.  Any hop may be silent, and    *)
(* the trace may end at its bound or its deadline before the destination   *)
(* has answered.                                                           *)
(***************************************************************************)
EXTENDS Integers, Sequences, FiniteSets

CONSTANTS Destinations,  \* how many are configured
          Routers,
          MaxHops,       \* routing.max_hops
          Tolerance,     \* routing.hop_change_tolerance
          MaxRouters,    \* bound on the routers of a way
          MaxTraces      \* bound on the traces

Tasks == {"route", "traceroute"}

VARIABLES
    network,   \* the routers on the way to each destination
    next,      \* routeMonitor.next
    work,      \* what each task is doing, with its trace and the row it read; and as
               \* history the routers there were when the two were traced: way and from
    rows,      \* the last row of each destination, or NoPath
    report,    \* ROUTE_CHANGED or HOP_COUNT_CHANGED of the last step
    \* history
    was        \* the routers there were when the path in the last row was traced

vars == <<network, next, work, rows, report, was>>

Silent == "silent"
NoPath == [hops |-> <<>>, complete |-> FALSE]
NoReport == [dest |-> -1, route |-> FALSE, count |-> FALSE]
Resting == [step |-> "idle", dest |-> -1, path |-> NoPath, prev |-> NoPath, way |-> <<>>,
            from |-> <<>>]

Dests == 0..(Destinations - 1)
Ways == UNION {[1..n -> Routers] : n \in 0..MaxRouters}

Init ==
    /\ network \in [Dests -> Ways] /\ next = 0
    /\ work = [k \in Tasks |-> Resting] /\ rows = [d \in Dests |-> NoPath]
    /\ report = NoReport /\ was = [d \in Dests |-> <<>>]

TypeOK ==
    /\ next \in 0..MaxTraces /\ network \in [Dests -> Ways]
    /\ \A d \in Dests : Len(rows[d].hops) <= MaxHops

-----------------------------------------------------------------------------
\* HopCount: the destination is the last hop of a complete path.
HopCount(path) == Len(path.hops)

\* The routers that answered differently in both paths.
ChangedHops(before, after) ==
    {i \in DOMAIN before.hops \cap DOMAIN after.hops :
        /\ Silent \notin {before.hops[i], after.hops[i]}
        /\ before.hops[i] # after.hops[i]}

\* Compare: a hop that is silent in one of them, or that only one of them has, is no change.
\* Mutant: a hop that fell silent or answers again is a change.
Changed_BySilence(before, after) ==
    Cardinality({i \in DOMAIN before.hops \cap DOMAIN after.hops :
                    before.hops[i] # after.hops[i]}) > Tolerance

Changed(before, after) == Cardinality(ChangedHops(before, after)) > Tolerance

\* Trace: what answered at each hop.  A hop is silent when none of its probes is answered in
\* time, and the destination ends the trace at the first hop at which it is not.
Hop(way, i) == IF i \in DOMAIN way THEN way[i] ELSE "destination"

Path(way, n, silent) ==
    [hops |-> [i \in 1..n |-> IF i \in silent THEN Silent ELSE Hop(way, i)],
     complete |-> n \notin silent /\ n > Len(way)]

Traces(way) ==
    {Path(way, ns[1], ns[2]) :
        ns \in {ns \in (1..MaxHops) \X SUBSET (1..MaxHops) :
                  ((Len(way) + 1)..(ns[1] - 1)) \subseteq ns[2]}}

Start(k) ==
    /\ work[k].step = "idle" /\ next < MaxTraces
    /\ next' = next + 1
    /\ LET d == next % Destinations IN
       \E path \in Traces(network[d]) :
           work' = [work EXCEPT ![k] = [step |-> "traced", dest |-> d, path |-> path,
                                        prev |-> NoPath, way |-> network[d], from |-> <<>>]]
    /\ report' = NoReport
    /\ UNCHANGED <<network, rows, was>>

ReadPrevious(k) ==
    LET d == work[k].dest IN
    /\ work[k].step = "traced"
    /\ work' = [work EXCEPT ![k].step = "compared", ![k].prev = rows[d], ![k].from = was[d]]
    /\ report' = NoReport
    /\ UNCHANGED <<network, next, rows, was>>

\* InsertRoutePath.
Store(k) ==
    LET d == work[k].dest IN
    /\ work[k].step = "compared"
    /\ rows' = [rows EXCEPT ![d] = work[k].path]
    /\ was' = [was EXCEPT ![d] = work[k].way]
    /\ work' = [work EXCEPT ![k].step = "stored"]
    /\ report' = NoReport
    /\ UNCHANGED <<network, next>>

\* InsertMeasurement and the events.  hop-count changes need the new path to be complete.
Report(k) ==
    LET w == work[k] IN
    /\ w.step = "stored"
    /\ report' = [dest |-> w.dest,
                  route |-> w.prev # NoPath /\ Changed(w.prev, w.path),
                  count |-> /\ w.prev # NoPath /\ w.path.complete
                            /\ HopCount(w.prev) # HopCount(w.path)]
    /\ work' = [work EXCEPT ![k] = Resting]
    /\ UNCHANGED <<network, next, rows, was>>

\* The trace or a statement fails, and the cycle ends there: a row that is stored stays, and
\* what it would have reported is not reported by the next one.
Fail(k) ==
    /\ work[k].step # "idle"
    /\ work' = [work EXCEPT ![k] = Resting] /\ report' = NoReport
    /\ UNCHANGED <<network, next, rows, was>>

\* The network changes the way to one destination.
Reroute ==
    /\ \E d \in Dests, way \in Ways : network' = [network EXCEPT ![d] = way]
    /\ report' = NoReport
    /\ UNCHANGED <<next, work, rows, was>>

Next ==
    Reroute \/ \E k \in Tasks : Start(k) \/ ReadPrevious(k) \/ Store(k) \/ Report(k) \/ Fail(k)

Spec == Init /\ [][Next]_vars

-----------------------------------------------------------------------------
\* Every hop answered.
Seen(path) == path.complete /\ \A i \in DOMAIN path.hops : path.hops[i] # Silent

\* The path that step k reports is not the one of the row it compares it with.
Moved(k) == work[k].way # work[k].from

(***************************************************************************)
(* However the two tasks overlap, and whatever fails between them: a       *)
(* change of route is reported only when the routers did change between    *)
(* the traces of the two rows it compares, whichever hops were silent in   *)
(* either; and of two paths of which every hop answered a change in the    *)
(* number of hops is reported only then too, and when there is no          *)
(* tolerance every change of a router is.  (Compare, routeMonitor.run)     *)
(***************************************************************************)
RouteReportsAreReal ==
    [][\A k \in Tasks :
          report'.dest >= 0 /\ work[k] # work'[k] /\ work[k].prev # NoPath =>
            LET seen == Seen(work[k].prev) /\ Seen(work[k].path)
            IN /\ report'.route => Moved(k)
               /\ report'.count /\ seen => Moved(k)
               /\ Tolerance = 0 /\ Moved(k) /\ seen => report'.route]_vars

-----------------------------------------------------------------------------
\* A claim of the repository that the code does not meet.

\* docs/event-catalog.md, HOP_COUNT_CHANGED: the number of hops to a destination changed.  The
\* destination is silent at its own hop and answers at the next, or was not reached before.
HopCountChangesAreReal ==
    [][\A k \in Tasks :
          report'.count /\ work[k] # work'[k] /\ work[k].prev.complete => Moved(k)]_vars
=============================================================================
