----------------------------- MODULE Scheduler -----------------------------
(***************************************************************************)
(* One task of the agent's scheduler (internal/agent/scheduler.go): the    *)
(* goroutine runTask, its timer, and the callers of Trigger (the API's     *)
(* test endpoints), each on a goroutine of its own.  Tasks share only the  *)
(* agent's context, so one task shows them all.                            *)
(*                                                                         *)
(* The goroutine selects between the context, the channel of manual        *)
(* requests (capacity 1) and the timer.  A Go select picks any of the      *)
(* cases that are ready.  Registration (Add) ends before Start and is not  *)
(* modelled; neither are the statistics and events of a run.                *)
(***************************************************************************)
EXTENDS Naturals, Sequences

CONSTANTS Calls,      \* calls of Trigger
          Kinds,      \* kinds of task to consider
          CanCancel   \* whether the agent's context can be cancelled

ASSUME SchedulerAssumption ==
    /\ Kinds \subseteq {"periodic", "one-shot", "manual"}
    /\ CanCancel \in BOOLEAN

VARIABLES
    kind,      \* Task.Interval > 0, = 0, or Task.ManualOnly
    ctx,       \* the agent's context: "live" or "done"
    worker,    \* the goroutine: in its select, in execute, or returned
    serving,   \* what it runs for: the timer, or a call
    refused,   \* this execution found the task marked as running
    marked,    \* TaskStat.Running
    timer,     \* "armed", "fired" (its channel holds a tick), or "off"
    queue,     \* taskState.manual
    call,      \* call -> its progress in Trigger
    reply      \* call -> content of its reply channel (capacity 1)

callVars == <<queue, call, reply>>
vars == <<kind, ctx, worker, serving, refused, marked, timer, callVars>>

Nobody == "nobody"
Tick == "tick"
NoReply == "none"
Outcomes == {"ok", "failed", "timeout", "panic"}
AlreadyRunning == "already running"
Returned == {"answered", "busy", "gave up"}

QueueDepth == 1

\* The timer and "nobody" are not calls.
ASSUME CallsAssumption == Tick \notin Calls /\ Nobody \notin Calls

TypeOK ==
    /\ kind \in Kinds
    /\ ctx \in {"live", "done"}
    /\ worker \in {"selecting", "executing", "returned"}
    /\ serving \in Calls \cup {Tick, Nobody}
    /\ refused \in BOOLEAN /\ marked \in BOOLEAN
    /\ timer \in {"armed", "fired", "off"}
    /\ queue \in UNION {[1..n -> Calls] : n \in 0..QueueDepth}
    /\ call \in [Calls -> {"not made", "sending", "waiting"} \cup Returned]
    /\ reply \in [Calls -> Outcomes \cup {NoReply, AlreadyRunning}]

Init ==
    /\ kind \in Kinds
    /\ ctx = "live"
    /\ worker = "selecting"
    /\ serving = Nobody
    /\ refused = FALSE
    /\ marked = FALSE
    /\ timer = IF kind = "manual" THEN "off" ELSE "armed"
    /\ queue = <<>>
    /\ call = [c \in Calls |-> "not made"]
    /\ reply = [c \in Calls |-> NoReply]

-----------------------------------------------------------------------------
\* Trigger, on the caller's goroutine.

Trigger(c) ==
    /\ call[c] = "not made"
    /\ call' = [call EXCEPT ![c] = "sending"]
    /\ UNCHANGED <<kind, ctx, worker, serving, refused, marked, timer, queue, reply>>

Send(c) ==
    /\ call[c] = "sending"
    /\ Len(queue) < QueueDepth
    /\ queue' = Append(queue, c)
    /\ call' = [call EXCEPT ![c] = "waiting"]
    /\ UNCHANGED <<kind, ctx, worker, serving, refused, marked, timer, reply>>

\* The channel stayed full for two seconds.
Busy(c) ==
    /\ call[c] = "sending"
    /\ Len(queue) = QueueDepth
    /\ call' = [call EXCEPT ![c] = "busy"]
    /\ UNCHANGED <<kind, ctx, worker, serving, refused, marked, timer, queue, reply>>

Receive(c) ==
    /\ call[c] = "waiting"
    /\ reply[c] # NoReply
    /\ call' = [call EXCEPT ![c] = "answered"]
    /\ UNCHANGED <<kind, ctx, worker, serving, refused, marked, timer, queue, reply>>

\* The caller's own context ends: an HTTP client that disconnects.  Its request
\* stays queued.
GiveUp(c) ==
    /\ call[c] \in {"sending", "waiting"}
    /\ call' = [call EXCEPT ![c] = "gave up"]
    /\ UNCHANGED <<kind, ctx, worker, serving, refused, marked, timer, queue, reply>>

-----------------------------------------------------------------------------
\* The entry of execute: a task marked as running is refused.
Execute(job) ==
    /\ worker = "selecting"
    /\ worker' = "executing"
    /\ serving' = job
    /\ refused' = marked
    /\ marked' = TRUE

\* The select takes a manual request.
ServeCall ==
    /\ queue # <<>>
    /\ Execute(Head(queue))
    /\ queue' = Tail(queue)
    /\ UNCHANGED <<kind, ctx, timer, call, reply>>

\* The select takes the timer's tick.
ServeTick ==
    /\ timer = "fired"
    /\ Execute(Tick)
    /\ timer' = "off"
    /\ UNCHANGED <<kind, ctx, callVars>>

\* After a scheduled run: re-arm the timer, or return from a one-shot task.
AfterTick(outcome) ==
    /\ timer' = IF kind = "periodic" THEN "armed" ELSE "off"
    /\ worker' = IF kind = "periodic" THEN "selecting" ELSE "returned"

\* Mutant: the reply channel has no buffer, so the reply waits for its receiver.
Finish_Unbuffered(outcome) ==
    /\ worker = "executing"
    /\ outcome \in IF refused THEN {AlreadyRunning} ELSE Outcomes
    /\ serving \in Calls => call[serving] = "waiting"
    /\ IF refused THEN UNCHANGED marked
                  ELSE marked' = FALSE
    /\ IF serving = Tick
       THEN AfterTick(outcome) /\ UNCHANGED reply
       ELSE /\ reply' = [reply EXCEPT ![serving] = outcome]
            /\ worker' = "selecting"
            /\ UNCHANGED timer
    /\ serving' = Nobody
    /\ refused' = FALSE
    /\ UNCHANGED <<kind, ctx, queue, call>>

\* Mutant: a panic skips the bookkeeping after the task's function.
Finish_PanicLeavesRunning(outcome) ==
    /\ worker = "executing"
    /\ outcome \in IF refused THEN {AlreadyRunning} ELSE Outcomes
    /\ IF refused \/ outcome = "panic" THEN UNCHANGED marked
                                       ELSE marked' = FALSE
    /\ IF serving = Tick
       THEN AfterTick(outcome) /\ UNCHANGED reply
       ELSE /\ reply' = [reply EXCEPT ![serving] = outcome]
            /\ worker' = "selecting"
            /\ UNCHANGED timer
    /\ serving' = Nobody
    /\ refused' = FALSE
    /\ UNCHANGED <<kind, ctx, queue, call>>

\* The end of execute -- the function returned, panicked, or was cut off by its
\* timeout -- and of the branch of the select that called it.
Finish(outcome) ==
    /\ worker = "executing"
    /\ outcome \in IF refused THEN {AlreadyRunning} ELSE Outcomes
    /\ IF refused THEN UNCHANGED marked
                  ELSE marked' = FALSE
    /\ IF serving = Tick
       THEN AfterTick(outcome) /\ UNCHANGED reply
       ELSE /\ reply' = [reply EXCEPT ![serving] = outcome]
            /\ worker' = "selecting"
            /\ UNCHANGED timer
    /\ serving' = Nobody
    /\ refused' = FALSE
    /\ UNCHANGED <<kind, ctx, queue, call>>

\* The select takes ctx.Done().
Stop ==
    /\ worker = "selecting"
    /\ ctx = "done"
    /\ worker' = "returned"
    /\ timer' = "off"
    /\ UNCHANGED <<kind, ctx, serving, refused, marked, callVars>>

TimerFires ==
    /\ timer = "armed"
    /\ timer' = "fired"
    /\ UNCHANGED <<kind, ctx, worker, serving, refused, marked, callVars>>

Cancel ==
    /\ CanCancel
    /\ ctx = "live"
    /\ ctx' = "done"
    /\ UNCHANGED <<kind, worker, serving, refused, marked, timer, callVars>>

FinishSome == \E outcome \in Outcomes \cup {AlreadyRunning} : Finish(outcome)

Next ==
    \/ \E c \in Calls : Trigger(c) \/ Send(c) \/ Busy(c) \/ Receive(c) \/ GiveUp(c)
    \/ ServeCall \/ ServeTick \/ FinishSome \/ Stop
    \/ TimerFires \/ Cancel

Spec == Init /\ [][Next]_vars

\* Runs are bounded by their context, timers fire, goroutines run; a select that is
\* entered again and again takes each case that stays ready (strong fairness).
\* Callers need not make calls, and need not give up.
FairSpec ==
    /\ Spec
    /\ WF_vars(FinishSome) /\ WF_vars(TimerFires)
    /\ SF_vars(ServeCall) /\ SF_vars(ServeTick) /\ SF_vars(Stop)
    /\ \A c \in Calls : WF_vars(Send(c)) /\ WF_vars(Receive(c))

-----------------------------------------------------------------------------
\* Whatever a run does, timing out and panicking included, the task is not left
\* marked as running, which would refuse every later run.
NeverRefused == ~refused /\ (worker = "selecting" => ~marked)

\* The schedule survives every outcome and every manual run: a periodic task that
\* has not been stopped has its timer armed, a tick pending, or a scheduled run in
\* progress.
ScheduleIsKept ==
    kind = "periodic" /\ worker # "returned" => timer \in {"armed", "fired"} \/ serving = Tick

\* What the run checks of both.  (Scheduler.runTask, execute)
RunsGoOn == NeverRefused /\ ScheduleIsKept

\* And it is honoured: with manual requests and callers that walk away in between,
\* a tick is followed by its run unless the agent stops.
TicksAreRun == (timer = "fired") ~> (serving = Tick \/ ctx = "done")

\* A call that reaches the task is answered, unless its caller gives up or the
\* goroutine returns: because the agent stops, or after the run of a one-shot task.
CallsAreAnswered ==
    \A c \in Calls : (call[c] = "waiting") ~> (call[c] \in Returned \/ worker = "returned")

\* Wait returns after the context is cancelled: no caller can hold the goroutine.
GoroutineStops == (ctx = "done") ~> (worker = "returned")

\* What the run checks of the three.  (Scheduler.runTask, Trigger)
EveryoneIsServed == TicksAreRun /\ CallsAreAnswered /\ GoroutineStops
=============================================================================
