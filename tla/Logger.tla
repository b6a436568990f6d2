------------------------------- MODULE Logger -------------------------------
(***************************************************************************)
(* The logging engine (internal/logging/logger.go): emitters on any        *)
(* goroutine, the bounded queue, the one goroutine that fans each event    *)
(* out to the sinks and to a subscriber, and Close, which flushes, stops   *)
(* and joins that goroutine before it closes the sinks.                    *)
(*                                                                         *)
(* An event is its number, in the order of emission, with its severity and *)
(* whether it is suppressed.  A sink that fails keeps no other sink from   *)
(* the event: its failures are only counted, and are left out.             *)
(***************************************************************************)
EXTENDS Naturals, Sequences

CONSTANTS Sinks,         \* the sinks; Database is one of them
          Database,      \* the searchable events table
          QueueDepth,    \* capacity of the queue
          SubDepth,      \* capacity of the subscriber's channel
          Severities,
          MaxEvents,     \* bound on the events emitted
          MayTimeOut     \* whether a flush can run into its timeouts

ASSUME LoggerAssumption ==
    /\ QueueDepth \in Nat \ {0} /\ SubDepth \in Nat \ {0}
    /\ Severities \subseteq Nat
    /\ MaxEvents \in Nat
    /\ MayTimeOut \in BOOLEAN

VARIABLES
    queue,      \* Logger.queue: events and flush requests
    worker,     \* run: in its select, draining, returned
    minSev,     \* Logger.minSev
    sub,        \* a subscriber's channel
    written,    \* sink -> the events it was given
    close,      \* progress of Close
    flushed,    \* the flush request's channel has been closed
    dropped,    \* Logger.dropped
    \* history
    emitted,    \* events emitted so far
    accepted,   \* events accepted before the stop
    barrier     \* events accepted before the flush request

flushVars == <<flushed, barrier>>
vars == <<queue, worker, minSev, sub, written, close, flushVars, dropped, emitted, accepted>>

FlushRequest == [n |-> 0, sev |-> 0, suppressed |-> FALSE]
Events == [n : 1..MaxEvents, sev : Severities, suppressed : BOOLEAN]

CloseSteps == {"open", "flushing", "waiting", "stopped", "closed"}

TypeOK ==
    /\ queue \in Seq(Events \cup {FlushRequest}) /\ Len(queue) <= QueueDepth
    /\ worker \in {"selecting", "draining", "returned"}
    /\ minSev \in Severities
    /\ sub \in Seq(1..MaxEvents) /\ Len(sub) <= SubDepth
    /\ written \in [Sinks -> SUBSET (1..MaxEvents)]
    /\ close \in CloseSteps
    /\ flushed \in BOOLEAN
    /\ emitted \in 0..MaxEvents
    /\ dropped \subseteq 1..MaxEvents
    /\ barrier \subseteq accepted /\ accepted \subseteq Events

Init ==
    /\ queue = <<>>
    /\ worker = "selecting"
    /\ minSev \in Severities
    /\ sub = <<>>
    /\ written = [s \in Sinks |-> {}]
    /\ close = "open"
    /\ flushed = FALSE
    /\ dropped = {}
    /\ emitted = 0
    /\ accepted = {} /\ barrier = {}

-----------------------------------------------------------------------------
Stopped == close \in {"stopped", "closed"}

\* The select of Emit: queued if there is room, otherwise dropped and counted.
Enqueue(ev) ==
    \/ /\ Len(queue) < QueueDepth
       /\ queue' = Append(queue, ev)
       /\ accepted' = IF Stopped THEN accepted ELSE accepted \cup {ev}
       /\ UNCHANGED dropped
    \/ /\ Len(queue) = QueueDepth
       /\ dropped' = dropped \cup {ev.n}
       /\ UNCHANGED <<queue, accepted>>

\* Emit never blocks; it does not know about Close either.
Emit(sev, suppressed) ==
    /\ emitted < MaxEvents
    /\ emitted' = emitted + 1
    /\ Enqueue([n |-> emitted', sev |-> sev, suppressed |-> suppressed])
    /\ UNCHANGED <<worker, minSev, sub, written, close, flushVars>>

\* Configuration reload.  (The code writes minSev without synchronisation; the
\* goroutine reads the old or the new level.)
SetLevel(sev) ==
    /\ minSev' = sev
    /\ sev # minSev
    /\ UNCHANGED <<queue, worker, sub, written, close, flushVars, dropped, emitted, accepted>>

-----------------------------------------------------------------------------
\* The goroutine.

\* The sinks that process hands an event to.
Receivers(ev) ==
    IF ev.sev < minSev THEN {}
    ELSE IF ev.suppressed THEN Sinks \cap {Database}
    ELSE Sinks

\* process and publish.  The subscriber is given every event it has room for.
Process(ev) ==
    /\ written' = [s \in Sinks |->
                     IF s \in Receivers(ev) THEN written[s] \cup {ev.n} ELSE written[s]]
    /\ sub' = IF Len(sub) < SubDepth THEN Append(sub, ev.n) ELSE sub
    /\ UNCHANGED flushed

AnswerFlush == flushed' = TRUE /\ UNCHANGED <<written, sub>>

\* One item of the queue, from the select or from the drain.
Handle ==
    /\ worker # "returned"
    /\ queue # <<>>
    /\ IF Head(queue) = FlushRequest THEN AnswerFlush ELSE Process(Head(queue))
    /\ queue' = Tail(queue)
    /\ UNCHANGED <<worker, minSev, close, barrier, dropped, emitted, accepted>>

\* Mutant: the goroutine returns at once when it is stopped.
SeeStop_Returns ==
    /\ worker = "selecting"
    /\ Stopped
    /\ worker' = "returned"
    /\ UNCHANGED <<queue, minSev, sub, written, close, flushVars, dropped, emitted, accepted>>

\* The select takes <-l.stop.
SeeStop ==
    /\ worker = "selecting"
    /\ Stopped
    /\ worker' = "draining"
    /\ UNCHANGED <<queue, minSev, sub, written, close, flushVars, dropped, emitted, accepted>>

\* Mutant: the drain goes on until the log is closed.
Drained_WaitsForClose ==
    /\ worker = "draining"
    /\ queue = <<>>
    /\ close = "closed"
    /\ worker' = "returned"
    /\ UNCHANGED <<queue, minSev, sub, written, close, flushVars, dropped, emitted, accepted>>

\* The drain finds the queue empty.
Drained ==
    /\ worker = "draining"
    /\ queue = <<>>
    /\ worker' = "returned"
    /\ UNCHANGED <<queue, minSev, sub, written, close, flushVars, dropped, emitted, accepted>>

\* The subscriber takes an event.
Consume ==
    /\ sub # <<>>
    /\ sub' = Tail(sub)
    /\ UNCHANGED <<queue, worker, minSev, written, close, flushVars, dropped, emitted, accepted>>

-----------------------------------------------------------------------------
\* Close, which runs once.

CloseStep(from, to) ==
    /\ close = from
    /\ close' = to
    /\ UNCHANGED <<worker, minSev, sub, written, flushed, dropped, emitted, accepted>>

BeginClose == CloseStep("open", "flushing") /\ UNCHANGED <<queue, barrier>>

\* Flush: the request is queued behind every event accepted so far...
RequestFlush ==
    /\ CloseStep("flushing", "waiting")
    /\ Len(queue) < QueueDepth
    /\ queue' = Append(queue, FlushRequest)
    /\ barrier' = accepted

\* ... and answered when the goroutine has come to it; then close(l.stop).
FlushAnswered ==
    /\ flushed
    /\ CloseStep("waiting", "stopped")
    /\ UNCHANGED <<queue, barrier>>

\* Either wait of Flush times out: 2 seconds to queue, 5 to be answered.
FlushTimesOut ==
    /\ MayTimeOut
    /\ \/ CloseStep("flushing", "stopped")
       \/ CloseStep("waiting", "stopped")
    /\ UNCHANGED <<queue, barrier>>

\* wg.Wait returns; the sinks and the subscribers' channels are closed.
CloseSinks ==
    /\ worker = "returned"
    /\ CloseStep("stopped", "closed")
    /\ UNCHANGED <<queue, barrier>>

Close == BeginClose \/ RequestFlush \/ FlushAnswered \/ FlushTimesOut \/ CloseSinks

\* What Close does once it has begun, when no wait times out.
FinishClose == RequestFlush \/ FlushAnswered \/ CloseSinks

Next ==
    \/ \E sev \in Severities : SetLevel(sev) \/ \E x \in BOOLEAN : Emit(sev, x)
    \/ Handle \/ SeeStop \/ Drained
    \/ Consume
    \/ Close

Spec == Init /\ [][Next]_vars

\* The goroutine keeps running, and so does the one that closes.  The timeouts of
\* Flush are not relied on.
FairSpec ==
    /\ Spec
    /\ WF_vars(Handle) /\ SF_vars(SeeStop) /\ SF_vars(Drained)
    /\ SF_vars(FinishClose)

-----------------------------------------------------------------------------
\* The sinks that an event reaches whatever the level is set to meanwhile.
Certain(ev) ==
    IF \E sev \in Severities : ev.sev < sev THEN {}
    ELSE IF ev.suppressed THEN Sinks \cap {Database}
    ELSE Sinks

AllWritten(evs) == \A ev \in evs : \A s \in Certain(ev) : ev.n \in written[s]

\* Close loses nothing that was accepted before the stop, however full the queue was,
\* whichever case the select took, and although Flush may have given up.
AcceptedIsWritten == close = "closed" => AllWritten(accepted)

\* No sink is written after it was closed, although events may still be emitted.
NoWriteAfterClose == [][close = "closed" => written' = written]_vars

\* The answer to a flush is a barrier: what was accepted before it is written.
FlushIsABarrier == flushed => AllWritten(barrier)

\* What the run checks of both.  (Logger.Flush, Logger.Close)
AcceptedIsKept == AcceptedIsWritten /\ FlushIsABarrier

\* Close returns although emitters go on, and even if no wait ever timed out.
CloseReturns == (close = "flushing") ~> (close = "closed")

\* What the run checks of the end of the log.  (Logger.Close)
CloseIsFinal == NoWriteAfterClose /\ CloseReturns
=============================================================================
