-------------------------- MODULE SchedulerProofs --------------------------
(***************************************************************************)
(* Proofs about one task of the scheduler, for every set of calls of       *)
(* Trigger and every kind of task.                                         *)
(*                                                                         *)
(* Marking ties the running mark to the goroutine's position: it is set    *)
(* exactly while a run is in progress, which is why no run is refused.     *)
(* Answering follows a call from the channel of requests to its reply: a   *)
(* call is queued or served at most once and before it has an answer, so   *)
(* that the buffered reply channel is written at most once.                *)
(***************************************************************************)
EXTENDS Scheduler, TLAPS

\* The mark, the job and the position of the goroutine go together.
Marking ==
    /\ ~refused
    /\ marked <=> worker = "executing"
    /\ serving = Nobody <=> worker # "executing"

Queued(c) == queue = <<c>>

\* Where a call can be, and that its answer comes after both.
Answering ==
    \A c \in Calls :
        /\ Queued(c) => serving # c
        /\ (Queued(c) \/ serving = c) => call[c] \notin {"not made", "sending"}
        /\ (Queued(c) \/ serving = c) => reply[c] = NoReply
        /\ call[c] \in {"not made", "sending"} => reply[c] = NoReply
        /\ call[c] = "waiting" => Queued(c) \/ serving = c \/ reply[c] # NoReply

IInv == TypeOK /\ Marking /\ ScheduleIsKept /\ Answering

\* The send on a reply channel never finds it full, so it never holds the
\* goroutine: a call gets one answer, which no later step replaces.
AnsweredOnce == [][\A c \in Calls : reply[c] # NoReply => reply'[c] = reply[c]]_vars

\* No call is forgotten: one that waits is in the channel, in a run, or answered.
NoCallIsForgotten ==
    \A c \in Calls : call[c] = "waiting" => Queued(c) \/ serving = c \/ reply[c] # NoReply

USE SchedulerAssumption, CallsAssumption DEF QueueDepth, Nobody, Tick, NoReply, AlreadyRunning

-----------------------------------------------------------------------------
\* taskState.manual: a channel of capacity 1 is empty or holds one call.
LEMMA QueueShape ==
  ASSUME TypeOK
  PROVE  queue = <<>> \/ \E c \in Calls : queue = <<c>>
  <1>1. PICK n \in 0..1 : queue \in [1..n -> Calls]
    BY DEF TypeOK
  <1>2. CASE n = 0
    BY <1>1, <1>2
  <1>3. CASE n = 1
    <2>1. queue = <<queue[1]>> /\ queue[1] \in Calls
      BY <1>1, <1>3
    <2> QED
      BY <2>1
  <1> QED
    BY <1>1, <1>2, <1>3

\* An empty queue and a queue of one call have the type of the channel.
LEMMA QueueTypes ==
  /\ <<>> \in UNION {[1..n -> Calls] : n \in 0..QueueDepth}
  /\ \A c \in Calls : <<c>> \in UNION {[1..n -> Calls] : n \in 0..QueueDepth}
  <1>1. <<>> \in [1..0 -> Calls]
    OBVIOUS
  <1>2. \A c \in Calls : <<c>> \in [1..1 -> Calls]
    OBVIOUS
  <1> QED
    BY <1>1, <1>2

\* The initial state: nothing queued, nothing running, the timer armed.
LEMMA InitIInv == Init => IInv
  <1> SUFFICES ASSUME Init PROVE IInv
    OBVIOUS
  <1>1. TypeOK
    BY QueueTypes DEF Init, TypeOK, Outcomes
  <1>2. Marking /\ ScheduleIsKept
    BY DEF Init, Marking, ScheduleIsKept
  <1>3. Answering
    BY DEF Init, Answering, Queued
  <1> QED
    BY <1>1, <1>2, <1>3 DEF IInv

-----------------------------------------------------------------------------
\* Trigger: the steps that move only one caller.
LEMMA CallerIInv ==
  ASSUME IInv, NEW c \in Calls, Trigger(c) \/ Busy(c) \/ Receive(c) \/ GiveUp(c)
  PROVE  IInv'
  <1>1. /\ UNCHANGED <<kind, ctx, worker, serving, refused, marked, timer, queue, reply>>
        /\ \E s \in {"sending", "busy", "answered", "gave up"} :
              /\ call' = [call EXCEPT ![c] = s]
              /\ s = "sending" => call[c] = "not made"
              /\ s = "busy" => call[c] = "sending"
    BY DEF Trigger, Busy, Receive, GiveUp
  <1>2. PICK s \in {"sending", "busy", "answered", "gave up"} :
              /\ call' = [call EXCEPT ![c] = s]
              /\ s = "sending" => call[c] = "not made"
              /\ s = "busy" => call[c] = "sending"
    BY <1>1
  <1>3. TypeOK'
    BY <1>1, <1>2 DEF IInv, TypeOK, Returned
  <1>4. Marking' /\ ScheduleIsKept'
    BY <1>1 DEF IInv, Marking, ScheduleIsKept
  <1>5. Answering'
    <2>1. \A d \in Calls : call'[d] = IF d = c THEN s ELSE call[d]
      BY <1>2 DEF IInv, TypeOK
    <2>2. \A d \in Calls : call'[d] \in {"not made", "sending"} => call[d] \in {"not made", "sending"}
      BY <1>2, <2>1
    <2>3. \A d \in Calls : call'[d] = "waiting" => call[d] = "waiting"
      BY <1>2, <2>1
    <2> QED
      BY <1>1, <2>2, <2>3 DEF IInv, Answering, Queued
  <1> QED
    BY <1>3, <1>4, <1>5 DEF IInv

\* Trigger's send on the channel of requests.
LEMMA SendIInv ==
  ASSUME IInv, NEW c \in Calls, Send(c)
  PROVE  IInv'
  <1>1. queue = <<>>
    BY QueueShape DEF IInv, Send
  <1>2. /\ queue' = <<c>>
        /\ call[c] = "sending" /\ call' = [call EXCEPT ![c] = "waiting"]
        /\ UNCHANGED <<kind, ctx, worker, serving, refused, marked, timer, reply>>
    BY <1>1 DEF Send
  <1>3. TypeOK'
    BY <1>2, QueueTypes DEF IInv, TypeOK
  <1>4. Marking' /\ ScheduleIsKept'
    BY <1>2 DEF IInv, Marking, ScheduleIsKept
  <1>5. Answering'
    <2>1. \A d \in Calls : call'[d] = IF d = c THEN "waiting" ELSE call[d]
      BY <1>2 DEF IInv, TypeOK
    <2>2. ASSUME NEW d \in Calls, queue' = <<d>> PROVE d = c
      <3>1. <<c>> = <<d>>
        BY <1>2, <2>2
      <3>2. <<c>>[1] = c /\ <<d>>[1] = d
        OBVIOUS
      <3> QED
        BY <3>1, <3>2
    <2>3. serving # c /\ reply[c] = NoReply
      BY <1>2 DEF IInv, Answering
    <2>4. \A d \in Calls : queue # <<d>>
      BY <1>1
    <2> QED
      <3> SUFFICES ASSUME NEW d \in Calls
                   PROVE  /\ queue' = <<d>> => serving' # d
                          /\ queue' = <<d>> \/ serving' = d =>
                                call'[d] \notin {"not made", "sending"} /\ reply'[d] = NoReply
                          /\ call'[d] \in {"not made", "sending"} => reply'[d] = NoReply
                          /\ call'[d] = "waiting" =>
                                queue' = <<d>> \/ serving' = d \/ reply'[d] # NoReply
        BY DEF Answering, Queued
      <3>1. CASE d = c
        <4>1. queue' = <<d>>
          BY <1>2, <3>1
        <4>2. call'[d] = "waiting" /\ reply'[d] = NoReply /\ serving' # d
          BY <1>2, <2>1, <2>3, <3>1
        <4> QED
          BY <4>1, <4>2
      <3>2. CASE d # c
        BY <1>2, <2>1, <2>2, <2>4, <3>2 DEF IInv, Answering, Queued
      <3> QED
        BY <3>1, <3>2
  <1> QED
    BY <1>3, <1>4, <1>5 DEF IInv

\* The select takes a manual request: the call moves from the queue to the run.
LEMMA ServeCallIInv ==
  ASSUME IInv, ServeCall
  PROVE  IInv'
  <1>1. PICK c \in Calls : queue = <<c>>
    BY QueueShape DEF IInv, ServeCall
  <1>2. /\ queue' = <<>> /\ serving' = c
        /\ worker = "selecting" /\ worker' = "executing"
        /\ refused' = marked /\ marked' = TRUE
        /\ UNCHANGED <<kind, ctx, timer, call, reply>>
    BY <1>1 DEF ServeCall, Execute
  <1>3. TypeOK'
    BY <1>2, QueueTypes DEF IInv, TypeOK
  <1>4. Marking' /\ ScheduleIsKept'
    BY <1>2 DEF IInv, TypeOK, Marking, ScheduleIsKept
  <1>5. Answering'
    <2>1. \A d \in Calls : ~Queued(d)' /\ (Queued(d) <=> d = c)
      BY <1>1, <1>2 DEF Queued
    <2>2. \A d \in Calls : serving # d
      BY <1>2 DEF IInv, Marking
    <2> QED
      BY <1>2, <2>1, <2>2 DEF IInv, Answering
  <1> QED
    BY <1>3, <1>4, <1>5 DEF IInv

\* Steps that leave the requests and their answers alone, and the job or its end
\* at the timer.
LEMMA FrameAnswering ==
  ASSUME Answering, UNCHANGED callVars,
         serving' \notin Calls,
         serving \notin Calls
  PROVE  Answering'
  BY DEF Answering, Queued, callVars

\* The select takes the timer's tick.
LEMMA ServeTickIInv ==
  ASSUME IInv, ServeTick
  PROVE  IInv'
  <1>1. TypeOK'
    BY DEF IInv, TypeOK, ServeTick, Execute, callVars
  <1>2. Marking' /\ ScheduleIsKept'
    BY DEF IInv, TypeOK, Marking, ScheduleIsKept, ServeTick, Execute
  <1>3. Answering'
    BY FrameAnswering DEF IInv, Marking, ServeTick, Execute
  <1> QED
    BY <1>1, <1>2, <1>3 DEF IInv

\* The end of a run: of the timer's, or of a call that now has its answer.
LEMMA FinishIInv ==
  ASSUME IInv, NEW outcome \in Outcomes \cup {AlreadyRunning}, Finish(outcome)
  PROVE  IInv'
  <1>1. /\ worker = "executing" /\ ~refused
        /\ serving # Nobody /\ serving \in Calls \cup {Tick}
    BY DEF IInv, TypeOK, Marking, Finish
  <1>2. /\ outcome \in Outcomes /\ outcome # NoReply
        /\ marked' = FALSE /\ refused' = FALSE /\ serving' = Nobody
        /\ UNCHANGED <<kind, ctx, queue, call>>
    BY <1>1 DEF Finish, Outcomes
  <1>3. CASE serving = Tick
    <2>1. AfterTick(outcome) /\ UNCHANGED reply
      BY <1>3 DEF Finish
    <2>2. TypeOK'
      BY <1>2, <2>1 DEF IInv, TypeOK, AfterTick
    <2>3. Marking' /\ ScheduleIsKept'
      BY <1>2, <2>1 DEF IInv, TypeOK, Marking, ScheduleIsKept, AfterTick
    <2>4. Answering'
      BY <1>2, <1>3, <2>1, FrameAnswering DEF IInv, callVars
    <2> QED
      BY <2>2, <2>3, <2>4 DEF IInv
  <1>4. CASE serving \in Calls
    <2>1. /\ reply' = [reply EXCEPT ![serving] = outcome]
          /\ worker' = "selecting" /\ UNCHANGED timer
      BY <1>4 DEF Finish
    <2>2. TypeOK'
      BY <1>2, <2>1 DEF IInv, TypeOK
    <2>3. Marking' /\ ScheduleIsKept'
      BY <1>1, <1>2, <1>4, <2>1 DEF IInv, Marking, ScheduleIsKept
    <2>4. \A d \in Calls : reply'[d] = IF d = serving THEN outcome ELSE reply[d]
      BY <1>4, <2>1 DEF IInv, TypeOK
    <2>5. Answering'
      BY <1>2, <1>4, <2>4 DEF IInv, Answering, Queued
    <2> QED
      BY <2>2, <2>3, <2>5 DEF IInv
  <1> QED
    BY <1>1, <1>3, <1>4

\* Every step of the task and of its callers preserves the inductive invariant.
LEMMA NextIInv == IInv /\ [Next]_vars => IInv'
  <1> SUFFICES ASSUME IInv, [Next]_vars PROVE IInv'
    OBVIOUS
  <1>1. ASSUME NEW c \in Calls, Trigger(c) \/ Busy(c) \/ Receive(c) \/ GiveUp(c) PROVE IInv'
    BY <1>1, CallerIInv
  <1>2. ASSUME NEW c \in Calls, Send(c) PROVE IInv'
    BY <1>2, SendIInv
  <1>3. CASE ServeCall
    BY <1>3, ServeCallIInv
  <1>4. CASE ServeTick
    BY <1>4, ServeTickIInv
  <1>5. CASE FinishSome
    BY <1>5, FinishIInv DEF FinishSome
  <1>6. CASE Stop
    <2>1. TypeOK' /\ Marking' /\ ScheduleIsKept'
      BY <1>6 DEF IInv, TypeOK, Marking, ScheduleIsKept, Stop, callVars
    <2>2. Answering'
      BY <1>6 DEF IInv, Answering, Queued, Stop, callVars
    <2> QED
      BY <2>1, <2>2 DEF IInv
  <1>7. CASE TimerFires \/ Cancel
    <2>1. UNCHANGED <<kind, worker, serving, refused, marked, queue, call, reply>>
      BY <1>7 DEF TimerFires, Cancel, callVars
    <2>2. TypeOK'
      BY <1>7, <2>1 DEF IInv, TypeOK, TimerFires, Cancel
    <2>3. Marking' /\ ScheduleIsKept'
      BY <1>7, <2>1 DEF IInv, Marking, ScheduleIsKept, TimerFires, Cancel
    <2>4. Answering'
      BY <2>1 DEF IInv, Answering, Queued
    <2> QED
      BY <2>2, <2>3, <2>4 DEF IInv
  <1>8. CASE UNCHANGED vars
    BY <1>8 DEF IInv, TypeOK, Marking, ScheduleIsKept, Answering, Queued, vars, callVars
  <1> QED
    BY <1>1, <1>2, <1>3, <1>4, <1>5, <1>6, <1>7, <1>8 DEF Next

\* The inductive invariant holds throughout.
LEMMA SpecIInv == Spec => []IInv
  BY InitIInv, NextIInv, PTL DEF Spec

-----------------------------------------------------------------------------
\* Every variable of the task keeps its type; the channel of requests never holds
\* more than its capacity.
THEOREM SpecTypeOK == Spec => []TypeOK
  BY SpecIInv, PTL DEF IInv

\* The scheduler goes on: no run is refused, whatever the outcomes of earlier ones,
\* and a periodic task always has its timer, a tick or a run.  (runTask, execute)
THEOREM SpecRunsGoOn == Spec => []RunsGoOn
  <1>1. IInv => RunsGoOn
    BY DEF IInv, Marking, ScheduleIsKept, RunsGoOn, NeverRefused
  <1> QED
    BY <1>1, SpecIInv, PTL

\* A call that waits is queued, served or answered, whenever its caller, the timer
\* and the agent's context move.  (Scheduler.Trigger, runTask)
THEOREM SpecNoCallIsForgotten == Spec => []NoCallIsForgotten
  <1>1. IInv => NoCallIsForgotten
    BY DEF IInv, Answering, NoCallIsForgotten
  <1> QED
    BY <1>1, SpecIInv, PTL

\* The answer to a call is sent once: the buffered reply channel never blocks the
\* goroutine, even when its caller has gone.  (Scheduler.Trigger, runTask)
THEOREM SpecAnsweredOnce == Spec => AnsweredOnce
  <1>1. ASSUME IInv, [Next]_vars, NEW c \in Calls, reply[c] # NoReply
        PROVE  reply'[c] = reply[c]
    <2>1. CASE FinishSome
      <3>1. serving # c
        BY <1>1 DEF IInv, Answering
      <3>2. UNCHANGED reply \/ \E outcome : reply' = [reply EXCEPT ![serving] = outcome]
        BY <2>1 DEF FinishSome, Finish
      <3> QED
        BY <1>1, <3>1, <3>2 DEF IInv, TypeOK
    <2>2. CASE UNCHANGED reply
      BY <2>2
    <2> QED
      BY <1>1, <2>1, <2>2 DEF Next, Trigger, Send, Busy, Receive, GiveUp, ServeCall,
         ServeTick, Stop, TimerFires, Cancel, Execute, vars, callVars
  <1>2. IInv /\ [Next]_vars => [\A c \in Calls : reply[c] # NoReply => reply'[c] = reply[c]]_vars
    BY <1>1
  <1> QED
    BY <1>2, SpecIInv, PTL DEF Spec, AnsweredOnce
=============================================================================
