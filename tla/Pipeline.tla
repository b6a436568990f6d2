------------------------------ MODULE Pipeline ------------------------------
(***************************************************************************)
(* The sample bus (internal/agent/bus.go) from the collectors to the       *)
(* analysis goroutine, and the agent's shutdown around it (Agent.Run and   *)
(* Agent.Shutdown of internal/agent/agent.go).                             *)
(*                                                                         *)
(* Four kinds of goroutine share the agent's context and the channel of    *)
(* samples: the tasks (module Scheduler shows one in detail), the analysis *)
(* goroutine, the main goroutine that joins them, and an HTTP handler that *)
(* waits for a task it has triggered.                                      *)
(***************************************************************************)
EXTENDS Naturals, Sequences

CONSTANTS Tasks,        \* tasks that publish samples
          Depth,        \* sampleQueueDepth
          MaxBatches,   \* bound on the batches published
          MayRequest    \* whether the API may trigger a task

ASSUME PipelineAssumption ==
    /\ Depth \in Nat \ {0}
    /\ MaxBatches \in Nat
    /\ MayRequest \in BOOLEAN

VARIABLES
    ctx,        \* the context of Run: "live" or "done"
    tasks,      \* task -> its goroutine: in its select, in a run, returned
    samples,    \* Agent.samples
    analysis,   \* the analysis goroutine: in its select, draining, returned
    inHand,     \* the batch that dispatch hands to the consumers
    handler,    \* the task that an HTTP handler waits for
    main,       \* progress of Run and Shutdown
    expired,    \* the shutdown timeout has passed
    \* history
    published,  \* batches published; a batch is its number
    folded,     \* batches that the consumers have seen
    newest,     \* the last of them
    cutoff,     \* the last batch published before the context was done
    dropped     \* batches counted by samplesDropped

busVars == <<samples, inHand, published, folded, newest, dropped>>
vars == <<ctx, tasks, analysis, handler, main, expired, cutoff, busVars>>

NoBatch == 0
NoTask == "no task"

TypeOK ==
    /\ ctx \in {"live", "done"}
    /\ tasks \in [Tasks -> {"selecting", "running", "returned"}]
    /\ samples \in Seq(1..MaxBatches) /\ Len(samples) <= Depth
    /\ analysis \in {"selecting", "draining", "returned"}
    /\ inHand \in 0..MaxBatches
    /\ handler \in Tasks \cup {NoTask}
    /\ main \in {"serving", "closing server", "joining tasks", "joining analysis", "closed"}
    /\ expired \in BOOLEAN
    /\ published \in 0..MaxBatches /\ folded \in 0..MaxBatches /\ newest \in 0..MaxBatches
    /\ cutoff \in 0..MaxBatches
    /\ dropped \subseteq 1..MaxBatches

Init ==
    /\ ctx = "live"
    /\ tasks = [t \in Tasks |-> "selecting"]
    /\ samples = <<>>
    /\ analysis = "selecting"
    /\ inHand = NoBatch
    /\ handler = NoTask
    /\ main = "serving"
    /\ expired = FALSE
    /\ published = 0 /\ folded = 0 /\ newest = 0 /\ cutoff = 0
    /\ dropped = {}

-----------------------------------------------------------------------------
\* A task's goroutine.

\* The select takes the timer or a manual request, even when ctx is done as well.
StartRun(t) ==
    /\ tasks[t] = "selecting"
    /\ tasks' = [tasks EXCEPT ![t] = "running"]
    /\ UNCHANGED <<ctx, analysis, handler, main, expired, cutoff, busVars>>

\* Mutant: a full channel makes room by discarding what it holds.
PublishSamples_DiscardsQueue(t) ==
    /\ tasks[t] = "running"
    /\ published < MaxBatches
    /\ published' = published + 1
    /\ IF Len(samples) < Depth
       THEN samples' = Append(samples, published') /\ UNCHANGED dropped
       ELSE samples' = <<published'>> /\ dropped' = dropped \cup {samples[1]}
    /\ UNCHANGED <<ctx, tasks, analysis, handler, main, expired, cutoff, inHand, folded, newest>>

PublishSamples(t) ==
    /\ tasks[t] = "running"
    /\ published < MaxBatches
    /\ published' = published + 1
    /\ IF Len(samples) < Depth
       THEN samples' = Append(samples, published') /\ UNCHANGED dropped
       ELSE dropped' = dropped \cup {published'} /\ UNCHANGED samples
    /\ UNCHANGED <<ctx, tasks, analysis, handler, main, expired, cutoff, inHand, folded, newest>>

\* The run ends; a handler that waited for a run of this task may be answered by it.
EndRun(t) ==
    /\ tasks[t] = "running"
    /\ tasks' = [tasks EXCEPT ![t] = "selecting"]
    /\ handler' \in IF handler = t THEN {t, NoTask} ELSE {handler}
    /\ UNCHANGED <<ctx, analysis, main, expired, cutoff, busVars>>

StopTask(t) ==
    /\ tasks[t] = "selecting"
    /\ ctx = "done"
    /\ tasks' = [tasks EXCEPT ![t] = "returned"]
    /\ UNCHANGED <<ctx, analysis, handler, main, expired, cutoff, busVars>>

-----------------------------------------------------------------------------
\* The analysis goroutine.

TakeBatch ==
    /\ analysis \in {"selecting", "draining"}
    /\ inHand = NoBatch
    /\ samples # <<>>
    /\ inHand' = Head(samples)
    /\ samples' = Tail(samples)
    /\ UNCHANGED <<ctx, tasks, analysis, handler, main, expired, cutoff, published, folded,
                   newest, dropped>>

\* dispatch returns; a panic of a consumer has been recovered.
Dispatch ==
    /\ inHand # NoBatch
    /\ folded' = folded + 1
    /\ newest' = inHand
    /\ inHand' = NoBatch
    /\ UNCHANGED <<ctx, tasks, analysis, handler, main, expired, cutoff, samples, published, dropped>>

\* Mutant: the goroutine returns as soon as the context is done.
SeeDone_Returns ==
    /\ analysis = "selecting"
    /\ inHand = NoBatch
    /\ ctx = "done"
    /\ analysis' = "returned"
    /\ UNCHANGED <<ctx, tasks, handler, main, expired, cutoff, busVars>>

\* The select takes ctx.Done().
SeeDone ==
    /\ analysis = "selecting"
    /\ inHand = NoBatch
    /\ ctx = "done"
    /\ analysis' = "draining"
    /\ UNCHANGED <<ctx, tasks, handler, main, expired, cutoff, busVars>>

\* The drain finds the channel empty, which it is for now.
Drained ==
    /\ analysis = "draining"
    /\ inHand = NoBatch
    /\ samples = <<>>
    /\ analysis' = "returned"
    /\ UNCHANGED <<ctx, tasks, handler, main, expired, cutoff, busVars>>

-----------------------------------------------------------------------------
\* The API: a handler triggers a task while the server accepts requests.
Request(t) ==
    /\ MayRequest
    /\ main = "serving"
    /\ handler = NoTask
    /\ handler' = t
    /\ UNCHANGED <<ctx, tasks, analysis, main, expired, cutoff, busVars>>

-----------------------------------------------------------------------------
\* The main goroutine: Run until the context is done, then Shutdown.

Signal ==
    /\ ctx = "live"
    /\ ctx' = "done"
    /\ cutoff' = published
    /\ UNCHANGED <<tasks, analysis, handler, main, expired, busVars>>

Advance(from, to) ==
    /\ main = from
    /\ main' = to
    /\ UNCHANGED <<ctx, tasks, analysis, handler, expired, cutoff, busVars>>

BeginShutdown == ctx = "done" /\ Advance("serving", "closing server")

\* Mutant: the server is shut down without the timeout.
ServerClosed_NoTimeout == handler = NoTask /\ Advance("closing server", "joining tasks")

\* http.Server.Shutdown waits for the handlers, up to the timeout.
ServerClosed == (handler = NoTask \/ expired) /\ Advance("closing server", "joining tasks")

\* Scheduler.Wait, up to the timeout.
TasksJoined ==
    /\ expired \/ \A t \in Tasks : tasks[t] = "returned"
    /\ Advance("joining tasks", "joining analysis")

\* <-analysisDone, up to the timeout; then the closers, the log and the database.
AnalysisJoined ==
    /\ expired \/ analysis = "returned"
    /\ Advance("joining analysis", "closed")

Deadline ==
    /\ main \notin {"serving", "closed"}
    /\ ~expired
    /\ expired' = TRUE
    /\ UNCHANGED <<ctx, tasks, analysis, handler, main, cutoff, busVars>>

Shutdown == BeginShutdown \/ ServerClosed \/ TasksJoined \/ AnalysisJoined

Next ==
    \/ \E t \in Tasks :
         StartRun(t) \/ PublishSamples(t) \/ EndRun(t) \/ StopTask(t) \/ Request(t)
    \/ TakeBatch \/ Dispatch \/ SeeDone \/ Drained
    \/ Signal \/ Shutdown \/ Deadline

Spec == Init /\ [][Next]_vars

\* Runs are bounded by their context, consumers return, goroutines run, and a select
\* entered again and again takes each case that stays ready (strong fairness).
\* The shutdown timeout is a timer: it passes.
FairSpec ==
    /\ Spec
    /\ \A t \in Tasks : WF_vars(EndRun(t)) /\ SF_vars(StopTask(t))
    /\ WF_vars(TakeBatch) /\ WF_vars(Dispatch) /\ SF_vars(SeeDone) /\ WF_vars(Drained)
    /\ WF_vars(Shutdown) /\ WF_vars(Deadline)

-----------------------------------------------------------------------------
InHand == IF inHand = NoBatch THEN <<>> ELSE <<inHand>>

Stream == INSTANCE SampleStream WITH waiting <- InHand \o samples, lost <- dropped

\* The detectors see the batches once, in order, and lose one only when the channel
\* is full.
ImplementsStream == Stream!Spec

\* The log and the database are closed after the last task and the analysis
\* goroutine have returned, unless the timeout passed.
NothingRunsAfterClose ==
    main = "closed" /\ ~expired =>
      /\ \A t \in Tasks : tasks[t] = "returned"
      /\ analysis = "returned" /\ inHand = NoBatch

\* The drain keeps every batch published before the context was cancelled: when a
\* shutdown within the timeout is over, only batches of later runs can be left.
EarlierSamplesAreKept ==
    main = "closed" /\ ~expired => \A i \in 1..Len(samples) : samples[i] > cutoff

\* What the run checks of both.  (Agent.Shutdown, runAnalysis)
ShutdownIsOrderly == NothingRunsAfterClose /\ EarlierSamplesAreKept

\* Shutdown ends, whatever hangs.
ShutdownCompletes == (ctx = "done") ~> (main = "closed")
=============================================================================
