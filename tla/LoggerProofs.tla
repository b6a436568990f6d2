---------------------------- MODULE LoggerProofs ----------------------------
(***************************************************************************)
(* Proofs about the logging engine, for every set of sinks and severities, *)
(* every depth of the queues and number of events, with and without        *)
(* timeouts of the flush.                                                  *)
(*                                                                         *)
(* Kept says where an accepted event is: in the queue, or with every sink  *)
(* it must reach.  Ahead says the same of the events before a flush        *)
(* request, which are ahead of it in the queue.  Ended is the handshake of *)
(* Close with the goroutine: by the time it returns nothing is owed.       *)
(***************************************************************************)
EXTENDS Logger, SequenceTheorems, TLAPS

Items == Events \cup {FlushRequest}

InQueue(item) == \E i \in 1..Len(queue) : queue[i] = item

IsWritten(ev) == \A s \in Certain(ev) : ev.n \in written[s]

Kept == \A ev \in accepted : InQueue(ev) \/ IsWritten(ev)

\* Accepted before the flush request: written, or ahead of the request.
Ahead ==
    \A i \in 1..Len(queue) : queue[i] = FlushRequest =>
        \A ev \in barrier : IsWritten(ev) \/ \E j \in 1..(i - 1) : queue[j] = ev

\* Flush asks once, and its request is answered after it was made.
Requested ==
    /\ close \in {"open", "flushing"} => ~flushed /\ ~InQueue(FlushRequest)
    /\ flushed => AllWritten(barrier)

\* The goroutine leaves its select after the stop, and returns with nothing owed.
Ended ==
    /\ worker # "selecting" => Stopped
    /\ worker = "returned" => AllWritten(accepted)
    /\ close = "closed" => worker = "returned"

IInv == TypeOK /\ Kept /\ Ahead /\ Requested /\ Ended

-----------------------------------------------------------------------------
\* The request of a flush is no event.
LEMMA RequestIsNoEvent == \A ev \in Events : ev # FlushRequest
  <1>1. \A ev \in Events : ev.n # 0
    BY LoggerAssumption DEF Events
  <1> QED
    BY <1>1 DEF FlushRequest

\* The items of a queue, after one is taken from its head.
LEMMA TailItems ==
  ASSUME NEW S, NEW q \in Seq(S), q # <<>>
  PROVE  /\ Len(q) \in Nat \ {0} /\ Tail(q) \in Seq(S) /\ Len(Tail(q)) = Len(q) - 1
         /\ Head(q) \in S /\ Head(q) = q[1]
         /\ \A i \in 1..Len(Tail(q)) : Tail(q)[i] = q[i + 1]
         /\ \A i \in 1..Len(q) : i = 1 \/ (i - 1 \in 1..Len(Tail(q)) /\ Tail(q)[i - 1] = q[i])
  <1>1. /\ Len(q) \in Nat \ {0} /\ Tail(q) \in Seq(S) /\ Len(Tail(q)) = Len(q) - 1
        /\ Head(q) \in S /\ Head(q) = q[1]
        /\ \A i \in 1..Len(Tail(q)) : Tail(q)[i] = q[i + 1]
    BY HeadTailProperties, EmptySeq
  <1>2. ASSUME NEW i \in 1..Len(q), i # 1
        PROVE  i - 1 \in 1..Len(Tail(q)) /\ Tail(q)[i - 1] = q[i]
    <2>1. i - 1 \in 1..Len(Tail(q)) /\ (i - 1) + 1 = i
      BY <1>1, <1>2
    <2> QED
      BY <1>1, <2>1
  <1> QED
    BY <1>1, <1>2

\* The items of a queue, after one is added at its end.
LEMMA AppendItems ==
  ASSUME NEW S, NEW q \in Seq(S), NEW e \in S
  PROVE  /\ Len(q) \in Nat /\ Append(q, e) \in Seq(S) /\ Len(Append(q, e)) = Len(q) + 1
         /\ \A i \in 1..Len(q) : i \in 1..Len(Append(q, e)) /\ Append(q, e)[i] = q[i]
         /\ Len(q) + 1 \in 1..Len(Append(q, e)) /\ Append(q, e)[Len(q) + 1] = e
         /\ \A i \in 1..Len(Append(q, e)) : i \in 1..Len(q) \/ i = Len(q) + 1
  <1>1. Len(q) \in Nat
    BY LenProperties
  <1>2. /\ Append(q, e) \in Seq(S) /\ Len(Append(q, e)) = Len(q) + 1
        /\ \A i \in 1..Len(q) : Append(q, e)[i] = q[i]
        /\ Append(q, e)[Len(q) + 1] = e
    BY AppendProperties
  <1> QED
    BY <1>1, <1>2

\* The sinks that an event certainly reaches are among those process hands it to.
LEMMA CertainReceivers ==
  ASSUME minSev \in Severities, NEW ev \in Events
  PROVE  Certain(ev) \subseteq Receivers(ev) /\ Certain(ev) \subseteq Sinks
  BY DEF Certain, Receivers

-----------------------------------------------------------------------------
\* The types of the queue and of the subscriber's channel.
QueueType ==
    /\ queue \in Seq(Items) /\ Len(queue) <= QueueDepth
    /\ sub \in Seq(1..MaxEvents) /\ Len(sub) <= SubDepth

\* The types of everything else.
RestType ==
    /\ worker \in {"selecting", "draining", "returned"}
    /\ minSev \in Severities
    /\ written \in [Sinks -> SUBSET (1..MaxEvents)]
    /\ close \in CloseSteps
    /\ flushed \in BOOLEAN
    /\ emitted \in 0..MaxEvents
    /\ dropped \subseteq 1..MaxEvents
    /\ barrier \subseteq accepted /\ accepted \subseteq Events

\* TypeOK in these two parts.
LEMMA TypeParts == TypeOK <=> QueueType /\ RestType
  BY DEF TypeOK, QueueType, RestType, Items

\* The initial state: an empty log.
LEMMA InitIInv == Init => IInv
  <1> SUFFICES ASSUME Init PROVE IInv
    OBVIOUS
  <1>1. QueueType
    BY EmptySeq, LoggerAssumption DEF Init, QueueType
  <1>2. RestType
    <2>1. 0 \in 0..MaxEvents
      BY LoggerAssumption
    <2> QED
      BY <2>1 DEF Init, RestType, CloseSteps
  <1>3. Len(queue) = 0
    BY EmptySeq DEF Init
  <1>4. Kept /\ Ahead
    BY <1>3 DEF Init, Kept, Ahead
  <1>5. Requested /\ Ended
    BY <1>3 DEF Init, Requested, Ended, InQueue, AllWritten
  <1> QED
    BY <1>1, <1>2, <1>4, <1>5, TypeParts DEF IInv

-----------------------------------------------------------------------------
\* What is written stays written while written grows.
LEMMA WrittenStays ==
  ASSUME \A s \in Sinks : written[s] \subseteq written'[s], NEW ev
  PROVE  IsWritten(ev) => IsWritten(ev)'
  BY DEF IsWritten, Certain

\* Steps that leave the queue, the sinks and the history alone keep every event
\* where it is.
LEMMA Frame ==
  ASSUME IInv, RestType', Ended',
         UNCHANGED <<queue, written, flushed, accepted, barrier>>,
         QueueType',
         close' \in {"open", "flushing"} => close \in {"open", "flushing"}
  PROVE  IInv'
  <1>1. \A ev : IsWritten(ev)' <=> IsWritten(ev)
    BY DEF IsWritten, Certain
  <1>2. \A item : InQueue(item)' <=> InQueue(item)
    BY DEF InQueue
  <1>3. Kept'
    BY <1>1, <1>2 DEF IInv, Kept
  <1>4. Ahead'
    BY <1>1 DEF IInv, Ahead
  <1>5. Requested'
    BY <1>2 DEF IInv, Requested, AllWritten
  <1> QED
    BY <1>3, <1>4, <1>5, TypeParts DEF IInv, TypeOK, QueueType, RestType, Items

\* SetLevel and the subscriber touch neither the queue nor the sinks.
LEMMA BystanderIInv ==
  ASSUME IInv, (\E sev \in Severities : SetLevel(sev)) \/ Consume
  PROVE  IInv'
  <1>1. UNCHANGED <<queue, worker, written, close, flushed, barrier, dropped, emitted, accepted>>
    BY DEF SetLevel, Consume, flushVars
  <1>2. QueueType /\ RestType
    BY TypeParts DEF IInv
  <1>3. minSev' \in Severities
    BY <1>2 DEF SetLevel, Consume, RestType
  <1>4. RestType'
    BY <1>1, <1>2, <1>3 DEF RestType
  <1>5. sub' \in Seq(1..MaxEvents) /\ Len(sub') <= SubDepth
    <2>1. CASE Consume
      <3>1. sub # <<>> /\ sub' = Tail(sub) /\ sub \in Seq(1..MaxEvents) /\ Len(sub) <= SubDepth
        BY <1>2, <2>1 DEF Consume, QueueType
      <3>2. Len(sub) \in Nat \ {0} /\ Len(Tail(sub)) = Len(sub) - 1
            /\ Tail(sub) \in Seq(1..MaxEvents)
        BY <3>1, TailItems
      <3> QED
        BY <3>1, <3>2, LoggerAssumption
    <2>2. CASE UNCHANGED sub
      BY <1>2, <2>2 DEF QueueType
    <2> QED
      BY <2>1, <2>2 DEF SetLevel
  <1>6. QueueType'
    BY <1>1, <1>2, <1>5 DEF QueueType
  <1>7. Ended'
    BY <1>1 DEF IInv, Ended, Stopped, AllWritten, Certain
  <1> QED
    BY <1>1, <1>4, <1>6, <1>7, Frame

\* The goroutine leaves its select, and returns when the drain finds the queue
\* empty: by Kept, everything accepted is then written.
LEMMA WorkerIInv ==
  ASSUME IInv, SeeStop \/ Drained
  PROVE  IInv'
  <1>1. UNCHANGED <<queue, minSev, sub, written, close, flushed, barrier, dropped, emitted,
                    accepted>>
    BY DEF SeeStop, Drained, flushVars
  <1>2. QueueType /\ RestType
    BY TypeParts DEF IInv
  <1>3. QueueType' /\ RestType'
    BY <1>1, <1>2 DEF QueueType, RestType, SeeStop, Drained
  <1>4. AllWritten(accepted)' <=> AllWritten(accepted)
    BY <1>1 DEF AllWritten, Certain
  <1>5. CASE SeeStop
    <2>1. worker = "selecting" /\ worker' = "draining" /\ Stopped
      BY <1>5 DEF SeeStop
    <2>2. Ended'
      BY <1>1, <2>1 DEF IInv, Ended, Stopped
    <2> QED
      BY <1>1, <1>3, <2>2, Frame
  <1>6. CASE Drained
    <2>1. worker = "draining" /\ worker' = "returned" /\ queue = <<>>
      BY <1>6 DEF Drained
    <2>2. \A item : ~InQueue(item)
      BY <2>1, EmptySeq DEF InQueue
    <2>3. AllWritten(accepted)
      BY <2>2 DEF IInv, Kept, IsWritten, AllWritten
    <2>4. Ended'
      BY <1>1, <1>4, <2>1, <2>3 DEF IInv, Ended, Stopped
    <2> QED
      BY <1>1, <1>3, <2>4, Frame
  <1> QED
    BY <1>5, <1>6

\* The steps of Close other than its flush request.
LEMMA CloseIInv ==
  ASSUME IInv, BeginClose \/ FlushAnswered \/ FlushTimesOut \/ CloseSinks
  PROVE  IInv'
  <1>1. UNCHANGED <<queue, worker, minSev, sub, written, flushed, barrier, dropped, emitted,
                    accepted>>
    BY DEF BeginClose, FlushAnswered, FlushTimesOut, CloseSinks, CloseStep
  <1>2. /\ close' \in CloseSteps
        /\ close' \in {"open", "flushing"} => close \in {"open", "flushing"}
        /\ Stopped => Stopped'
        /\ close' = "closed" => worker = "returned"
    BY DEF BeginClose, FlushAnswered, FlushTimesOut, CloseSinks, CloseStep, CloseSteps, Stopped
  <1>3. QueueType' /\ RestType'
    BY <1>1, <1>2, TypeParts DEF IInv, QueueType, RestType
  <1>4. Ended'
    BY <1>1, <1>2 DEF IInv, Ended, AllWritten, Certain
  <1> QED
    BY <1>1, <1>2, <1>3, <1>4, Frame

-----------------------------------------------------------------------------
\* An item joins the queue behind the others: what was ahead of a request still is.
LEMMA Joined ==
  ASSUME QueueType, NEW item \in Items, queue' = Append(queue, item)
  PROVE  /\ \A other : InQueue(other) => InQueue(other)'
         /\ InQueue(item)'
         /\ \A other : InQueue(other)' => InQueue(other) \/ other = item
         /\ \A i \in 1..Len(queue') : \/ i \in 1..Len(queue) /\ queue'[i] = queue[i]
                                      \/ i = Len(queue) + 1 /\ queue'[i] = item
  <1>1. /\ Len(queue) \in Nat /\ Len(queue') = Len(queue) + 1
        /\ \A i \in 1..Len(queue) : i \in 1..Len(queue') /\ queue'[i] = queue[i]
        /\ Len(queue) + 1 \in 1..Len(queue') /\ queue'[Len(queue) + 1] = item
        /\ \A i \in 1..Len(queue') : i \in 1..Len(queue) \/ i = Len(queue) + 1
    BY AppendItems DEF QueueType
  <1>2. \A other : InQueue(other) => InQueue(other)'
    BY <1>1 DEF InQueue
  <1>3. InQueue(item)'
    BY <1>1 DEF InQueue
  <1>4. \A other : InQueue(other)' => InQueue(other) \/ other = item
    BY <1>1 DEF InQueue
  <1> QED
    BY <1>1, <1>2, <1>3, <1>4

\* Emit: the event joins the queue, or is dropped and counted.
LEMMA EmitIInv ==
  ASSUME IInv, NEW sev \in Severities, NEW x \in BOOLEAN, Emit(sev, x)
  PROVE  IInv'
  <1> DEFINE ev == [n |-> emitted + 1, sev |-> sev, suppressed |-> x]
  <1>1. /\ emitted < MaxEvents /\ emitted' = emitted + 1 /\ Enqueue(ev)
        /\ UNCHANGED <<worker, minSev, sub, written, close, flushed, barrier>>
    BY DEF Emit, flushVars
  <1>2. QueueType /\ RestType
    BY TypeParts DEF IInv
  <1>3. emitted + 1 \in 1..MaxEvents /\ emitted' \in 0..MaxEvents
    <2>1. emitted \in 0..MaxEvents
      BY <1>2 DEF RestType
    <2> QED
      BY <1>1, <2>1, LoggerAssumption
  <1>4. ev \in Events /\ ev \in Items /\ ev.n = emitted + 1
    BY <1>3 DEF Events, Items
  <1> HIDE DEF ev
  <1>5. \A e : IsWritten(e)' <=> IsWritten(e)
    BY <1>1 DEF IsWritten, Certain
  <1>6. CASE Len(queue) < QueueDepth /\ queue' = Append(queue, ev) /\ UNCHANGED dropped
             /\ accepted' = IF Stopped THEN accepted ELSE accepted \cup {ev}
    <2>1. QueueType'
      <3>1. queue' \in Seq(Items) /\ Len(queue') = Len(queue) + 1 /\ Len(queue) \in Nat
        BY <1>2, <1>4, <1>6, AppendItems DEF QueueType
      <3> QED
        BY <1>1, <1>2, <1>6, <3>1, LoggerAssumption DEF QueueType
    <2>2. RestType'
      BY <1>1, <1>2, <1>3, <1>4, <1>6 DEF RestType
    <2>3. Kept'
      BY <1>2, <1>4, <1>5, <1>6, Joined DEF IInv, Kept
    <2>4. Ahead'
      <3> SUFFICES ASSUME NEW i \in 1..Len(queue'), queue'[i] = FlushRequest, NEW e \in barrier
                   PROVE  IsWritten(e) \/ \E j \in 1..(i - 1) : queue'[j] = e
        BY <1>1, <1>5 DEF Ahead
      <3>1. i \in 1..Len(queue) /\ queue[i] = FlushRequest
        BY <1>2, <1>4, <1>6, Joined, RequestIsNoEvent
      <3>2. IsWritten(e) \/ \E j \in 1..(i - 1) : queue[j] = e
        BY <3>1 DEF IInv, Ahead
      <3>3. \A j \in 1..(i - 1) : queue'[j] = queue[j]
        <4>1. Len(queue) \in Nat /\ \A j \in 1..Len(queue) : queue'[j] = queue[j]
          BY <1>2, <1>4, <1>6, AppendItems DEF QueueType
        <4> QED
          BY <3>1, <4>1
      <3> QED
        BY <3>2, <3>3
    <2>5. Requested'
      BY <1>1, <1>2, <1>4, <1>6, Joined, RequestIsNoEvent
      DEF IInv, Requested, AllWritten, Certain
    <2>6. Ended'
      BY <1>1, <1>6 DEF IInv, Ended, Stopped, AllWritten, Certain
    <2> QED
      BY <2>1, <2>2, <2>3, <2>4, <2>5, <2>6, TypeParts
      DEF IInv, TypeOK, QueueType, RestType, Items
  <1>7. CASE dropped' = dropped \cup {ev.n} /\ UNCHANGED <<queue, accepted>>
    <2>1. QueueType' /\ RestType'
      BY <1>1, <1>2, <1>3, <1>4, <1>7 DEF QueueType, RestType
    <2>2. Ended'
      BY <1>1, <1>7 DEF IInv, Ended, Stopped, AllWritten, Certain
    <2> QED
      BY <1>1, <1>7, <2>1, <2>2, Frame
  <1> QED
    BY <1>1, <1>6, <1>7 DEF Enqueue

\* Flush's request joins the queue: every event accepted so far is ahead of it.
LEMMA RequestFlushIInv ==
  ASSUME IInv, RequestFlush
  PROVE  IInv'
  <1>1. /\ close = "flushing" /\ close' = "waiting"
        /\ Len(queue) < QueueDepth /\ queue' = Append(queue, FlushRequest)
        /\ barrier' = accepted
        /\ UNCHANGED <<worker, minSev, sub, written, flushed, dropped, emitted, accepted>>
    BY DEF RequestFlush, CloseStep
  <1>2. QueueType /\ RestType /\ FlushRequest \in Items
    BY TypeParts DEF IInv, Items
  <1>3. ~flushed /\ ~InQueue(FlushRequest)
    BY <1>1 DEF IInv, Requested
  <1>4. \A e : IsWritten(e)' <=> IsWritten(e)
    BY <1>1 DEF IsWritten, Certain
  <1>5. QueueType'
    <2>1. queue' \in Seq(Items) /\ Len(queue') = Len(queue) + 1 /\ Len(queue) \in Nat
      BY <1>1, <1>2, AppendItems DEF QueueType
    <2> QED
      BY <1>1, <1>2, <2>1, LoggerAssumption DEF QueueType
  <1>6. RestType'
    BY <1>1, <1>2 DEF RestType, CloseSteps
  <1>7. Kept'
    BY <1>1, <1>2, <1>4, Joined DEF IInv, Kept
  <1>8. Ahead'
    <2> SUFFICES ASSUME NEW i \in 1..Len(queue'), queue'[i] = FlushRequest, NEW e \in accepted
                 PROVE  IsWritten(e) \/ \E j \in 1..(i - 1) : queue'[j] = e
      BY <1>1, <1>4 DEF Ahead
    <2>1. i = Len(queue) + 1
      BY <1>1, <1>2, <1>3, Joined DEF InQueue
    <2>2. Len(queue) \in Nat /\ \A j \in 1..Len(queue) : queue'[j] = queue[j]
      BY <1>1, <1>2, AppendItems DEF QueueType
    <2>3. IsWritten(e) \/ \E j \in 1..Len(queue) : queue[j] = e
      BY DEF IInv, Kept, InQueue
    <2> QED
      BY <2>1, <2>2, <2>3
  <1>9. Requested' /\ Ended'
    BY <1>1, <1>3 DEF IInv, Requested, Ended, Stopped, AllWritten, Certain
  <1> QED
    BY <1>5, <1>6, <1>7, <1>8, <1>9, TypeParts DEF IInv, TypeOK, QueueType, RestType, Items

-----------------------------------------------------------------------------
\* process gives the event to every sink it certainly reaches, and no step of the
\* goroutine takes one back.
LEMMA HandleWrites ==
  ASSUME QueueType, RestType, Handle
  PROVE  /\ written' \in [Sinks -> SUBSET (1..MaxEvents)]
         /\ \A s \in Sinks : written[s] \subseteq written'[s]
         /\ \A e \in Events : e = Head(queue) => IsWritten(e)'
         /\ sub' \in Seq(1..MaxEvents) /\ Len(sub') <= SubDepth
  <1> DEFINE ev == Head(queue)
  <1>1. queue # <<>> /\ ev \in Items
    BY TailItems DEF Handle, QueueType
  <1>2. CASE ev = FlushRequest
    <2>1. UNCHANGED <<written, sub>>
      BY <1>2 DEF Handle, AnswerFlush
    <2> QED
      BY <1>2, <2>1, RequestIsNoEvent DEF QueueType, RestType
  <1>3. CASE ev # FlushRequest
    <2>1. ev \in Events /\ ev.n \in 1..MaxEvents
      BY <1>1, <1>3 DEF Items, Events
    <2>2. /\ written' = [s \in Sinks |->
                          IF s \in Receivers(ev) THEN written[s] \cup {ev.n} ELSE written[s]]
          /\ sub' = IF Len(sub) < SubDepth THEN Append(sub, ev.n) ELSE sub
      BY <1>3 DEF Handle, Process
    <2> HIDE DEF ev
    <2>3. written' \in [Sinks -> SUBSET (1..MaxEvents)]
      BY <2>1, <2>2 DEF RestType
    <2>4. \A s \in Sinks : written[s] \subseteq written'[s]
      BY <2>2
    <2>5. \A e \in Events : e = ev => IsWritten(e)'
      <3>1. Certain(ev) \subseteq Receivers(ev) /\ Certain(ev) \subseteq Sinks
        BY <2>1, CertainReceivers DEF RestType
      <3>2. \A s \in Certain(ev) : ev.n \in written'[s]
        BY <2>2, <3>1
      <3> QED
        BY <3>2 DEF IsWritten, Certain
    <2>6. sub' \in Seq(1..MaxEvents) /\ Len(sub') <= SubDepth
      <3>1. sub \in Seq(1..MaxEvents) /\ Len(sub) <= SubDepth
        BY DEF QueueType
      <3>2. /\ Append(sub, ev.n) \in Seq(1..MaxEvents) /\ Len(sub) \in Nat
            /\ Len(Append(sub, ev.n)) = Len(sub) + 1
        BY <2>1, <3>1, AppendItems
      <3>3. CASE Len(sub) < SubDepth
        BY <2>2, <3>2, <3>3, LoggerAssumption
      <3>4. CASE ~(Len(sub) < SubDepth)
        BY <2>2, <3>1, <3>4
      <3> QED
        BY <3>3, <3>4
    <2> QED
      BY <2>3, <2>4, <2>5, <2>6 DEF ev
  <1> QED
    BY <1>2, <1>3

\* One item of the queue is handled: what leaves the queue is written, and a flush is
\* answered with nothing ahead of it.
LEMMA HandleIInv ==
  ASSUME IInv, Handle
  PROVE  IInv'
  <1>1. /\ worker # "returned" /\ queue # <<>> /\ queue' = Tail(queue)
        /\ UNCHANGED <<worker, minSev, close, barrier, dropped, emitted, accepted>>
    BY DEF Handle
  <1>2. QueueType /\ RestType
    BY TypeParts DEF IInv
  <1>3. /\ written' \in [Sinks -> SUBSET (1..MaxEvents)]
        /\ \A s \in Sinks : written[s] \subseteq written'[s]
        /\ \A e \in Events : e = Head(queue) => IsWritten(e)'
        /\ sub' \in Seq(1..MaxEvents) /\ Len(sub') <= SubDepth
    BY <1>2, HandleWrites
  <1>4. /\ Len(queue) \in Nat \ {0} /\ queue' \in Seq(Items) /\ Len(queue') = Len(queue) - 1
        /\ Head(queue) \in Items /\ Head(queue) = queue[1]
        /\ \A i \in 1..Len(queue') : queue'[i] = queue[i + 1]
        /\ \A i \in 1..Len(queue) : i = 1 \/ (i - 1 \in 1..Len(queue') /\ queue'[i - 1] = queue[i])
    BY <1>1, <1>2, TailItems DEF QueueType
  <1>5. QueueType'
    BY <1>2, <1>3, <1>4, LoggerAssumption DEF QueueType
  <1>6. flushed' \in BOOLEAN
    BY <1>2 DEF Handle, AnswerFlush, Process, RestType
  <1>7. RestType'
    BY <1>1, <1>2, <1>3, <1>6 DEF RestType
  <1>8. \A e \in Events : IsWritten(e) => IsWritten(e)'
    BY <1>3, WrittenStays
  <1>9. \A item : InQueue(item) => item = Head(queue) \/ InQueue(item)'
    BY <1>4 DEF InQueue
  <1>10. accepted \subseteq Events /\ barrier \subseteq Events
    BY <1>2 DEF RestType
  <1>11. Kept'
    <2> SUFFICES ASSUME NEW e \in accepted
                 PROVE  InQueue(e)' \/ IsWritten(e)'
      BY <1>1 DEF Kept
    <2>1. InQueue(e) \/ IsWritten(e)
      BY DEF IInv, Kept
    <2>2. CASE e = Head(queue)
      BY <1>3, <1>10, <2>2
    <2>3. CASE e # Head(queue)
      BY <1>8, <1>9, <1>10, <2>1, <2>3
    <2> QED
      BY <2>2, <2>3
  <1>12. Ahead'
    <2> SUFFICES ASSUME NEW i \in 1..Len(queue'), queue'[i] = FlushRequest, NEW e \in barrier
                 PROVE  IsWritten(e)' \/ \E j \in 1..(i - 1) : queue'[j] = e
      BY <1>1 DEF Ahead
    <2>1. i + 1 \in 1..Len(queue) /\ queue[i + 1] = FlushRequest
      BY <1>4
    <2>2. IsWritten(e) \/ \E j \in 1..i : queue[j] = e
      <3>1. IsWritten(e) \/ \E j \in 1..((i + 1) - 1) : queue[j] = e
        BY <2>1 DEF IInv, Ahead
      <3> QED
        BY <3>1, <1>4
    <2>3. CASE e = Head(queue)
      BY <1>3, <1>10, <2>3
    <2>4. CASE e # Head(queue)
      <3>1. ASSUME NEW j \in 1..i, queue[j] = e
            PROVE  j - 1 \in 1..(i - 1) /\ queue'[j - 1] = e
        <4>1. j \in 1..Len(queue) /\ j # 1
          BY <1>4, <2>4, <3>1
        <4>2. queue'[j - 1] = queue[j]
          BY <1>4, <4>1
        <4> QED
          BY <1>4, <3>1, <4>1, <4>2
      <3> QED
        BY <1>8, <1>10, <2>2, <3>1
    <2> QED
      BY <2>3, <2>4
  <1>13. Requested'
    <2>1. close \in {"open", "flushing"} => Head(queue) # FlushRequest /\ ~InQueue(FlushRequest)'
      BY <1>4 DEF IInv, Requested, InQueue
    <2>2. close' \in {"open", "flushing"} => ~flushed' /\ ~InQueue(FlushRequest)'
      BY <1>1, <2>1 DEF IInv, Requested, Handle, Process
    <2>3. flushed' => \A e \in barrier : IsWritten(e)'
      <3>1. CASE flushed
        BY <1>8, <1>10, <3>1 DEF IInv, Requested, AllWritten, IsWritten
      <3>2. CASE ~flushed /\ flushed'
        <4>1. Head(queue) = FlushRequest
          BY <3>2 DEF Handle, Process
        <4>2. \A e \in barrier : IsWritten(e) \/ \E j \in 1..(1 - 1) : queue[j] = e
          BY <1>4, <4>1 DEF IInv, Ahead
        <4>3. \A e \in barrier : IsWritten(e)
          BY <4>2
        <4> QED
          BY <1>8, <1>10, <4>3
      <3> QED
        BY <3>1, <3>2
    <2>4. flushed' => AllWritten(barrier)'
      BY <1>1, <2>3 DEF AllWritten, IsWritten, Certain
    <2> QED
      BY <2>2, <2>4 DEF Requested
  <1>14. Ended'
    BY <1>1 DEF IInv, Ended, Stopped
  <1> QED
    BY <1>5, <1>7, <1>11, <1>12, <1>13, <1>14, TypeParts
    DEF IInv, TypeOK, QueueType, RestType, Items

-----------------------------------------------------------------------------
\* Every step of the log preserves the inductive invariant.
LEMMA NextIInv == IInv /\ [Next]_vars => IInv'
  <1> SUFFICES ASSUME IInv, [Next]_vars PROVE IInv'
    OBVIOUS
  <1>1. ASSUME NEW sev \in Severities, NEW x \in BOOLEAN, Emit(sev, x) PROVE IInv'
    BY <1>1, EmitIInv
  <1>2. CASE (\E sev \in Severities : SetLevel(sev)) \/ Consume
    BY <1>2, BystanderIInv
  <1>3. CASE Handle
    BY <1>3, HandleIInv
  <1>4. CASE SeeStop \/ Drained
    BY <1>4, WorkerIInv
  <1>5. CASE RequestFlush
    BY <1>5, RequestFlushIInv
  <1>6. CASE BeginClose \/ FlushAnswered \/ FlushTimesOut \/ CloseSinks
    BY <1>6, CloseIInv
  <1>7. CASE UNCHANGED vars
    <2>1. UNCHANGED <<queue, worker, minSev, sub, written, close, flushed, barrier, dropped,
                      emitted, accepted>>
      BY <1>7 DEF vars, flushVars
    <2>2. QueueType' /\ RestType'
      BY <2>1, TypeParts DEF IInv, QueueType, RestType
    <2>3. Ended'
      BY <2>1 DEF IInv, Ended, Stopped, AllWritten, Certain
    <2> QED
      BY <2>1, <2>2, <2>3, Frame
  <1> QED
    BY <1>1, <1>2, <1>3, <1>4, <1>5, <1>6, <1>7 DEF Next, Close

\* The inductive invariant holds throughout.
LEMMA SpecIInv == Spec => []IInv
  BY InitIInv, NextIInv, PTL DEF Spec

\* Every variable of the log keeps its type; neither queue outgrows its capacity.
THEOREM SpecTypeOK == Spec => []TypeOK
  BY SpecIInv, PTL DEF IInv

\* Nothing that was accepted before the stop is missing from a sink once the log is
\* closed, and the answer to a flush is a barrier.  (Logger.Flush, Logger.Close, run)
THEOREM SpecAcceptedIsKept == Spec => []AcceptedIsKept
  <1>1. IInv => AcceptedIsKept
    BY DEF IInv, Ended, Requested, AcceptedIsKept, AcceptedIsWritten, FlushIsABarrier
  <1> QED
    BY <1>1, SpecIInv, PTL

\* No sink is written once it is closed, although emitters go on.
\* (Logger.Close, wg.Wait before the sinks are closed)
THEOREM SpecNoWriteAfterClose == Spec => NoWriteAfterClose
  <1>1. ASSUME IInv, [Next]_vars, close = "closed"
        PROVE  written' = written
    <2>1. ~Handle
      BY <1>1 DEF IInv, Ended, Handle
    <2> QED
      BY <1>1, <2>1 DEF Next, SetLevel, Emit, SeeStop, Drained, Consume, Close, BeginClose,
         RequestFlush, FlushAnswered, FlushTimesOut, CloseSinks, CloseStep, vars
  <1>2. IInv /\ [Next]_vars => [close = "closed" => written' = written]_vars
    BY <1>1
  <1> QED
    BY <1>2, SpecIInv, PTL DEF Spec, NoWriteAfterClose
=============================================================================
