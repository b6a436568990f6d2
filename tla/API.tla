-------------------------------- MODULE API --------------------------------
(***************************************************************************)
(* The requests of the local API that start real network tests             *)
(* (api/routes.go, api/handlers.go): the checks each of them passes, in    *)
(* their order, and the limiter that counts them for each client and task  *)
(* (rateLimiter in api/api.go).  What a test does after that is the        *)
(* scheduler's Trigger, in the module Scheduler.                           *)
(*                                                                         *)
(* Time is finer than the seconds of the Retry-After header.               *)
(***************************************************************************)
EXTENDS Integers, Sequences, FiniteSets, SequencesExt

CONSTANTS Clients, Local, AllowRemoteTests,
          Tasks, Registered,    \* the tests there are routes for, and those that are enabled
          Limit, Window, MaxKeys,
          Second, MaxTime, MaxRequests

VARIABLES
    hits,      \* rateLimiter.hits: client and task -> the times that counted
    now, requests,
    answer,    \* the status of the last answer
    \* history
    started,   \* the tests that were started: [key, at]
    told,      \* client and task -> when Retry-After said to come back
    misled     \* a client that waited that long was refused again

vars == <<hits, now, requests, answer, started, told, misled>>

Init ==
    /\ hits = <<>> /\ now = 0 /\ requests = 0 /\ answer = 0
    /\ started = <<>> /\ told = <<>> /\ misled = FALSE

Assign(f, k, v) == [j \in DOMAIN f \cup {k} |-> IF j = k THEN v ELSE f[j]]
Without(f, ks) == [j \in DOMAIN f \ ks |-> f[j]]

-----------------------------------------------------------------------------
\* rateLimiter.allow: what is left of the window.  The times of a key are in order, so that
\* what the loop keeps are those after the last one that is out of it.
InWindow(key) ==
    LET Out(times) == {i \in DOMAIN times : times[i] <= now - Window}
        Rest(times) == SubSeq(times, Max(Out(times) \cup {0}) + 1, Len(times))
    IN IF key \in DOMAIN hits THEN Rest(hits[key]) ELSE <<>>

\* With more keys than it wants to hold it forgets those that are out of the window.
\* Mutant: it forgets every key but this one.
Bounded_All(f, key) == IF Cardinality(DOMAIN f) > MaxKeys THEN Without(f, DOMAIN f \ {key}) ELSE f

Bounded(f, key) ==
    IF Cardinality(DOMAIN f) > MaxKeys
    THEN Without(f, {k \in DOMAIN f : Last(f[k]) < now - Window}) ELSE f

\* The header, in whole seconds: the wait is cut to seconds, and one is added.
RetryAfter(kept) == ((kept[1] + Window - now) \div Second + 1) * Second

Answers(status) == answer' = status /\ requests' = requests + 1

\* baseMiddleware, authorized and wrap turn a request away before the handler sees it: a
\* host that is not allowed, a wrong token, another method, a malformed parameter.
TurnedAway == {403, 401, 405, 400}

TurnAway(status) ==
    /\ requests < MaxRequests /\ Answers(status)
    /\ UNCHANGED <<hits, now, started, told, misled>>

\* testHandler: tests may be for local clients only; a request that is refused for its
\* rate is not counted, and one for a task that is not registered is.
Remote(c) ==
    /\ requests < MaxRequests /\ c \notin Local /\ ~AllowRemoteTests
    /\ Answers(403)
    /\ UNCHANGED <<hits, now, started, told, misled>>

Test(c, task, ok) ==
    LET key == <<c, task>>
        kept == InWindow(key)
    IN /\ c \in Local \/ AllowRemoteTests
       /\ requests < MaxRequests
       /\ IF Len(kept) >= Limit
          THEN /\ Answers(429)
               /\ told' = Assign(told, key, now + RetryAfter(kept))
               /\ misled' = (misled \/ (key \in DOMAIN told /\ now >= told[key]))
               /\ UNCHANGED <<hits, started>>
          ELSE /\ Answers(IF task \notin Registered THEN 404 ELSE IF ok THEN 200 ELSE 500)
               /\ hits' = Bounded(Assign(hits, key, Append(kept, now)), key)
               /\ started' = Append(started, [key |-> key, at |-> now])
               /\ told' = Without(told, {key})
               /\ UNCHANGED misled
       /\ UNCHANGED now

Tick == now < MaxTime /\ now' = now + 1 /\ UNCHANGED <<hits, requests, answer, started, told, misled>>

Next ==
    \/ Tick
    \/ \E status \in TurnedAway : TurnAway(status)
    \/ \E c \in Clients : Remote(c) \/ \E task \in Tasks, ok \in BOOLEAN : Test(c, task, ok)

Spec == Init /\ [][Next]_vars

TypeOK == \A k \in DOMAIN hits : k \in Clients \X Tasks /\ Len(hits[k]) \in 1..Limit

-----------------------------------------------------------------------------
\* However the requests fall into the windows, and whichever keys the limiter has
\* forgotten meanwhile, no client starts the test of one task more than Limit times within
\* any window, whatever it starts of the others; and one that comes back after the time it
\* was told is not refused again.
\* (rateLimiter.allow, testHandler)
TestsAreLimited ==
    /\ ~misled
    /\ \A i, j \in DOMAIN started :
          LET between == {n \in i..j : started[n].key = started[i].key}
          IN (i < j /\ started[j].at - started[i].at < Window) => Cardinality(between) <= Limit
=============================================================================
