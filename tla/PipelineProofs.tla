--------------------------- MODULE PipelineProofs ---------------------------
(***************************************************************************)
(* Proofs about the sample bus and the shutdown around it, for every set   *)
(* of tasks, depth of the channel and number of batches.                   *)
(*                                                                         *)
(* Accounting relates what the bus holds to what was published: the        *)
(* batches that wait are the newest accepted ones, in order, and every     *)
(* batch is folded, waiting or dropped.  Joining says what each stage of   *)
(* the shutdown may rely on while the timeout has not passed.              *)
(***************************************************************************)
EXTENDS Pipeline, FiniteSetTheorems, SequenceTheorems, TLAPS

Waiting == InHand \o samples

\* A sequence of batches that is increasing, above n and not above p.
Ascending(w, n, p) ==
    \A i \in 1..Len(w) :
        /\ n < w[i] /\ w[i] <= p
        /\ \A j \in 1..Len(w) : i < j => w[i] < w[j]

\* The detectors see each batch once and in order: what waits is newer than what
\* they have seen, and in the order of its publication.
InOrder ==
    /\ newest <= published
    /\ Ascending(Waiting, newest, published)

\* Nothing vanishes: a batch is folded, waits, or is counted as dropped.
NothingVanishes ==
    /\ dropped \subseteq 1..published
    /\ published = folded + Len(Waiting) + Cardinality(dropped)

\* How far the goroutines are, by the stage of the shutdown.
Joining ==
    /\ main # "serving" => ctx = "done"
    /\ analysis # "selecting" => ctx = "done"
    /\ analysis = "returned" => inHand = NoBatch
    /\ ~expired /\ main \in {"joining analysis", "closed"} =>
          \A t \in Tasks : tasks[t] = "returned"
    /\ ~expired /\ main = "closed" => analysis = "returned"

\* What the drain leaves behind was published after the context was cancelled.
Left ==
    /\ cutoff <= published
    /\ analysis = "returned" => \A i \in 1..Len(samples) : samples[i] > cutoff

IInv == TypeOK /\ InOrder /\ NothingVanishes /\ Joining /\ Left

\* The detectors move forward only: a batch folded is newer than the last one.
FoldsForward ==
    [][folded' # folded => folded' = folded + 1 /\ newest' > newest]_vars

USE PipelineAssumption DEF NoBatch

-----------------------------------------------------------------------------
\* A batch that is published is newer than all that wait.
LEMMA AppendAscending ==
  ASSUME NEW w \in Seq(Nat), NEW n \in Nat, NEW p \in Nat, n <= p, Ascending(w, n, p)
  PROVE  Ascending(Append(w, p + 1), n, p + 1)
  <1> DEFINE v == Append(w, p + 1)
  <1>1. /\ v \in Seq(Nat) /\ Len(v) = Len(w) + 1 /\ Len(w) \in Nat
        /\ \A i \in 1..Len(w) : v[i] = w[i] /\ w[i] \in Nat
        /\ v[Len(w) + 1] = p + 1
    BY AppendProperties
  <1> HIDE DEF v
  <1>2. \A i \in 1..Len(v) : i \in 1..Len(w) \/ i = Len(w) + 1
    BY <1>1
  <1>3. ASSUME NEW i \in 1..Len(v)
        PROVE  /\ n < v[i] /\ v[i] <= p + 1
               /\ \A j \in 1..Len(v) : i < j => v[i] < v[j]
    <2>1. CASE i = Len(w) + 1
      BY <1>1, <2>1
    <2>2. CASE i \in 1..Len(w)
      <3>1. n < w[i] /\ w[i] <= p /\ v[i] = w[i] /\ w[i] \in Nat
        BY <1>1, <2>2 DEF Ascending
      <3>2. ASSUME NEW j \in 1..Len(v), i < j PROVE v[i] < v[j]
        <4>1. CASE j = Len(w) + 1
          BY <1>1, <3>1, <4>1
        <4>2. CASE j \in 1..Len(w)
          <5>1. w[i] < w[j]
            BY <2>2, <3>2, <4>2 DEF Ascending
          <5> QED
            BY <1>1, <2>2, <4>2, <5>1
        <4> QED
          BY <1>2, <4>1, <4>2
      <3> QED
        BY <3>1, <3>2
    <2> QED
      BY <1>2, <2>1, <2>2
  <1> QED
    BY <1>3 DEF v, Ascending

\* Taking the oldest batch leaves newer ones.
LEMMA TailAscending ==
  ASSUME NEW w \in Seq(Nat), NEW n \in Nat, NEW p \in Nat, w # <<>>, Ascending(w, n, p)
  PROVE  /\ Head(w) \in Nat /\ n < Head(w) /\ Head(w) <= p
         /\ Ascending(Tail(w), Head(w), p)
  <1>1. /\ Tail(w) \in Seq(Nat) /\ Len(Tail(w)) = Len(w) - 1
        /\ Len(w) \in Nat \ {0} /\ Head(w) = w[1] /\ Head(w) \in Nat
        /\ \A i \in 1..Len(Tail(w)) : Tail(w)[i] = w[i + 1]
    BY HeadTailProperties, EmptySeq
  <1>2. \A i \in 1..Len(Tail(w)) : i + 1 \in 1..Len(w) /\ 1 < i + 1 /\ 1 \in 1..Len(w)
    BY <1>1
  <1>3. n < Head(w) /\ Head(w) <= p
    BY <1>1 DEF Ascending
  <1>4. Ascending(Tail(w), Head(w), p)
    BY <1>1, <1>2 DEF Ascending
  <1> QED
    BY <1>1, <1>3, <1>4

\* What waits is a sequence of batches.
LEMMA WaitingType ==
  ASSUME TypeOK
  PROVE  /\ InHand \in Seq(1..MaxBatches) /\ Waiting \in Seq(1..MaxBatches)
         /\ Waiting \in Seq(Nat)
         /\ Len(InHand) \in Nat /\ Len(samples) \in Nat
         /\ Len(Waiting) = Len(InHand) + Len(samples)
  <1>1. InHand \in Seq(1..MaxBatches)
    <2>1. CASE inHand = NoBatch
      BY <2>1, EmptySeq DEF InHand
    <2>2. CASE inHand # NoBatch
      <3>0. inHand \in 0..MaxBatches
        BY DEF TypeOK
      <3>1. inHand \in 1..MaxBatches
        BY <2>2, <3>0
      <3>2. Append(<<>>, inHand) \in Seq(1..MaxBatches)
        BY <3>1, EmptySeq, AppendProperties
      <3> QED
        BY <2>2, <3>2 DEF InHand
    <2> QED
      BY <2>1, <2>2
  <1>2. samples \in Seq(1..MaxBatches)
    BY DEF TypeOK
  <1>3. /\ Waiting \in Seq(1..MaxBatches)
        /\ Len(Waiting) = Len(InHand) + Len(samples)
    BY <1>1, <1>2, ConcatProperties DEF Waiting
  <1>4. 1..MaxBatches \subseteq Nat
    OBVIOUS
  <1>5. Waiting \in Seq(Nat)
    BY <1>3, <1>4, SeqMonotonic
  <1> QED
    BY <1>1, <1>2, <1>3, <1>5, LenProperties

\* A set of batches is finite.
LEMMA DroppedFinite ==
  ASSUME NEW p \in Nat, NEW d \in SUBSET (1..p)
  PROVE  IsFiniteSet(d) /\ Cardinality(d) \in Nat
  <1>1. IsFiniteSet(1..p)
    BY FS_Interval
  <1> QED
    BY <1>1, FS_Subset, FS_CardinalityType

-----------------------------------------------------------------------------
\* The initial state: nothing published, nothing cancelled.
LEMMA InitIInv == Init => IInv
  <1> SUFFICES ASSUME Init PROVE IInv
    OBVIOUS
  <1>1. TypeOK
    <2>1. samples \in Seq(1..MaxBatches) /\ Len(samples) <= Depth
      BY EmptySeq DEF Init
    <2>2. tasks \in [Tasks -> {"selecting", "running", "returned"}]
      BY DEF Init
    <2>3. 0 \in 0..MaxBatches
      OBVIOUS
    <2>4. /\ inHand \in 0..MaxBatches /\ cutoff \in 0..MaxBatches
          /\ published \in 0..MaxBatches /\ folded \in 0..MaxBatches /\ newest \in 0..MaxBatches
      BY <2>3 DEF Init
    <2>5. /\ ctx \in {"live", "done"} /\ analysis \in {"selecting", "draining", "returned"}
          /\ handler \in Tasks \cup {NoTask} /\ expired \in BOOLEAN /\ dropped \subseteq 1..MaxBatches
          /\ main \in {"serving", "closing server", "joining tasks", "joining analysis", "closed"}
      BY DEF Init
    <2> QED
      BY <2>1, <2>2, <2>4, <2>5 DEF TypeOK
  <1>2. Waiting = <<>>
    BY DEF Init, Waiting, InHand
  <1>3. InOrder
    BY <1>2 DEF Init, InOrder, Ascending
  <1>4. NothingVanishes
    BY <1>2, FS_EmptySet DEF Init, NothingVanishes
  <1>5. Joining /\ Left
    BY DEF Init, Joining, Left
  <1> QED
    BY <1>1, <1>3, <1>4, <1>5 DEF IInv

-----------------------------------------------------------------------------
\* Steps that leave the bus alone keep its accounts.
LEMMA BusFrame ==
  ASSUME IInv, UNCHANGED busVars
  PROVE  InOrder' /\ NothingVanishes'
  <1>1. Waiting' = Waiting
    BY DEF Waiting, InHand, busVars
  <1> QED
    BY <1>1 DEF IInv, InOrder, NothingVanishes, Ascending, busVars

\* The types of the bus, where it is left alone.
BusType ==
    /\ samples \in Seq(1..MaxBatches) /\ Len(samples) <= Depth
    /\ inHand \in 0..MaxBatches
    /\ published \in 0..MaxBatches /\ folded \in 0..MaxBatches /\ newest \in 0..MaxBatches
    /\ dropped \subseteq 1..MaxBatches

\* The types of everything else.
ControlType ==
    /\ ctx \in {"live", "done"}
    /\ tasks \in [Tasks -> {"selecting", "running", "returned"}]
    /\ analysis \in {"selecting", "draining", "returned"}
    /\ handler \in Tasks \cup {NoTask}
    /\ main \in {"serving", "closing server", "joining tasks", "joining analysis", "closed"}
    /\ expired \in BOOLEAN
    /\ cutoff \in 0..MaxBatches

\* TypeOK in these two parts.
LEMMA TypeParts == TypeOK <=> BusType /\ ControlType
  BY DEF TypeOK, BusType, ControlType

\* A step that leaves the bus alone is judged by the rest of the state.
LEMMA ControlStep ==
  ASSUME IInv, UNCHANGED busVars, ControlType', Joining', Left'
  PROVE  IInv'
  <1>1. BusType'
    BY TypeParts DEF IInv, BusType, busVars
  <1>2. TypeOK'
    BY <1>1 DEF TypeOK, BusType, ControlType
  <1> QED
    BY <1>2, BusFrame DEF IInv

\* StartRun, EndRun, StopTask and Request move one task or the handler.  A task
\* that has returned stays so.
LEMMA TaskIInv ==
  ASSUME IInv, NEW t \in Tasks, StartRun(t) \/ EndRun(t) \/ StopTask(t) \/ Request(t)
  PROVE  IInv'
  <1>1. UNCHANGED <<ctx, analysis, main, expired, cutoff, busVars>>
    BY DEF StartRun, EndRun, StopTask, Request
  <1>2. ControlType
    BY TypeParts DEF IInv
  <1>3. \/ UNCHANGED tasks
        \/ /\ tasks[t] # "returned"
           /\ \E s \in {"selecting", "running", "returned"} : tasks' = [tasks EXCEPT ![t] = s]
    BY DEF StartRun, EndRun, StopTask, Request
  <1>4. handler' \in Tasks \cup {NoTask}
    BY <1>2 DEF StartRun, EndRun, StopTask, Request, ControlType
  <1>5. ControlType'
    BY <1>1, <1>2, <1>3, <1>4 DEF ControlType
  <1>6. \A u \in Tasks : tasks[u] = "returned" => tasks'[u] = "returned"
    BY <1>2, <1>3 DEF ControlType
  <1>7. Joining' /\ Left'
    BY <1>1, <1>6 DEF IInv, Joining, Left, busVars
  <1> QED
    BY <1>1, <1>5, <1>7, ControlStep

\* The select takes ctx.Done(), and the drain finds the channel empty.
LEMMA AnalysisIInv ==
  ASSUME IInv, SeeDone \/ Drained
  PROVE  IInv'
  <1>1. UNCHANGED <<ctx, tasks, handler, main, expired, cutoff, busVars>>
    BY DEF SeeDone, Drained
  <1>2. ControlType'
    BY <1>1, TypeParts DEF IInv, ControlType, SeeDone, Drained
  <1>3. Joining'
    BY <1>1 DEF IInv, Joining, SeeDone, Drained, busVars
  <1>4. analysis' = "returned" => \A i \in 1..Len(samples) : samples[i] > cutoff
    BY DEF SeeDone, Drained
  <1>5. Left'
    BY <1>1, <1>4 DEF IInv, Left, busVars
  <1> QED
    BY <1>1, <1>2, <1>3, <1>5, ControlStep

\* The context is cancelled: from here on, cutoff is what had been published.
LEMMA SignalIInv ==
  ASSUME IInv, Signal
  PROVE  IInv'
  <1>1. /\ ctx = "live" /\ ctx' = "done" /\ cutoff' = published
        /\ UNCHANGED <<tasks, analysis, handler, main, expired, busVars>>
    BY DEF Signal
  <1>2. published \in 0..MaxBatches /\ ControlType
    BY TypeParts DEF IInv, BusType
  <1>3. ControlType'
    BY <1>1, <1>2 DEF ControlType
  <1>4. analysis = "selecting"
    BY <1>1 DEF IInv, Joining
  <1>5. Joining'
    BY <1>1 DEF IInv, Joining, busVars
  <1>6. Left'
    BY <1>1, <1>2, <1>4 DEF Left, busVars
  <1> QED
    BY <1>1, <1>3, <1>5, <1>6, ControlStep

\* Shutdown advances to a stage only with what the stage relies on.
LEMMA ShutdownIInv ==
  ASSUME IInv, Shutdown \/ Deadline
  PROVE  IInv'
  <1>1. UNCHANGED <<ctx, tasks, analysis, handler, cutoff, busVars>>
    BY DEF Shutdown, Deadline, BeginShutdown, ServerClosed, TasksJoined, AnalysisJoined, Advance
  <1>2. ControlType
    BY TypeParts DEF IInv
  <1>3. ControlType'
    BY <1>1, <1>2 DEF ControlType, Shutdown, Deadline, BeginShutdown, ServerClosed,
                      TasksJoined, AnalysisJoined, Advance
  <1>4. Joining'
    <2>1. CASE BeginShutdown
      BY <2>1 DEF IInv, Joining, BeginShutdown, Advance, busVars
    <2>2. CASE ServerClosed
      BY <2>2 DEF IInv, Joining, ServerClosed, Advance, busVars
    <2>3. CASE TasksJoined
      BY <2>3 DEF IInv, Joining, TasksJoined, Advance, busVars
    <2>4. CASE AnalysisJoined
      BY <2>4 DEF IInv, Joining, AnalysisJoined, Advance, busVars
    <2>5. CASE Deadline
      BY <2>5 DEF IInv, Joining, Deadline, busVars
    <2> QED
      BY <2>1, <2>2, <2>3, <2>4, <2>5 DEF Shutdown
  <1>5. Left'
    BY <1>1 DEF IInv, Left, busVars
  <1> QED
    BY <1>1, <1>3, <1>4, <1>5, ControlStep

-----------------------------------------------------------------------------
\* A sequence is its head before its tail.
LEMMA HeadAndTail ==
  ASSUME NEW S, NEW s \in Seq(S), s # <<>>
  PROVE  <<Head(s)>> \o Tail(s) = s
  <1>1. Len(s) \in Nat \ {0} /\ Head(s) = s[1]
    BY EmptySeq
  <1>2. SubSeq(s, 1, Len(s)) = <<s[1]>> \o SubSeq(s, 2, Len(s))
    BY <1>1, SubSeqRecursiveFirst
  <1>3. SubSeq(s, 1, Len(s)) = s /\ Tail(s) = SubSeq(s, 2, Len(s))
    BY SubSeqFull, TailIsSubSeq
  <1> QED
    BY <1>1, <1>2, <1>3

\* An element before a sequence is its head.
LEMMA Prefixed ==
  ASSUME NEW S, NEW e \in S, NEW s \in Seq(S)
  PROVE  /\ <<e>> \o s \in Seq(S) /\ <<e>> \o s # <<>>
         /\ Head(<<e>> \o s) = e
         /\ Tail(<<e>> \o s) = s
  <1> DEFINE w == <<e>> \o s
  <1>1. <<e>> \in Seq(S) /\ Len(<<e>>) = 1 /\ <<e>>[1] = e
    BY EmptySeq, AppendProperties
  <1>2. /\ w \in Seq(S) /\ Len(w) = 1 + Len(s)
        /\ \A i \in 1..(1 + Len(s)) : w[i] = IF i <= 1 THEN <<e>>[i] ELSE s[i - 1]
    BY <1>1, ConcatProperties
  <1>3. Len(s) \in Nat
    BY LenProperties
  <1>4. w # <<>>
    BY <1>2, <1>3, EmptySeq
  <1>5. w[1] = e /\ \A i \in 1..Len(s) : w[i + 1] = s[i]
    BY <1>1, <1>2, <1>3
  <1> HIDE DEF w
  <1>6. /\ Head(w) = w[1] /\ Tail(w) \in Seq(S) /\ Len(Tail(w)) = Len(s)
        /\ \A i \in 1..Len(s) : Tail(w)[i] = w[i + 1]
    BY <1>2, <1>3, <1>4, HeadTailProperties
  <1>7. Tail(w) = s
    BY <1>5, <1>6, SeqEqual
  <1> QED
    BY <1>2, <1>4, <1>5, <1>6, <1>7 DEF w

\* What waits, by whether a batch is in hand.
LEMMA WaitingShape ==
  ASSUME TypeOK
  PROVE  /\ inHand = NoBatch => Waiting = samples
         /\ inHand # NoBatch => /\ Waiting # <<>>
                                /\ Head(Waiting) = inHand
                                /\ Tail(Waiting) = samples
  <1>1. samples \in Seq(1..MaxBatches)
    BY DEF TypeOK
  <1>2. CASE inHand = NoBatch
    BY <1>1, <1>2, ConcatEmptySeq DEF Waiting, InHand
  <1>3. CASE inHand # NoBatch
    <2>1. inHand \in 0..MaxBatches
      BY DEF TypeOK
    <2>2. inHand \in 1..MaxBatches
      BY <1>3, <2>1
    <2>3. Waiting = <<inHand>> \o samples
      BY <1>3 DEF Waiting, InHand
    <2> QED
      BY <1>1, <1>3, <2>2, <2>3, Prefixed
  <1> QED
    BY <1>2, <1>3

\* What an accepted batch does to what waits.
LEMMA AcceptShape ==
  ASSUME TypeOK, NEW b \in 1..MaxBatches
  PROVE  /\ InHand \o Append(samples, b) = Append(Waiting, b)
         /\ Append(samples, b) \in Seq(1..MaxBatches)
         /\ Len(Append(samples, b)) = Len(samples) + 1
         /\ Len(Append(Waiting, b)) = Len(Waiting) + 1
  <1>1. /\ samples \in Seq(1..MaxBatches) /\ InHand \in Seq(1..MaxBatches)
        /\ Waiting \in Seq(1..MaxBatches) /\ Waiting = InHand \o samples
    BY WaitingType DEF TypeOK, Waiting
  <1>2. <<b>> \in Seq(1..MaxBatches)
    BY EmptySeq, AppendProperties
  <1>3. Append(samples, b) = samples \o <<b>> /\ Append(Waiting, b) = Waiting \o <<b>>
    BY <1>1, AppendIsConcat
  <1>4. (InHand \o samples) \o <<b>> = InHand \o (samples \o <<b>>)
    BY <1>1, <1>2, ConcatAssociative
  <1>5. InHand \o Append(samples, b) = Append(Waiting, b)
    BY <1>1, <1>3, <1>4
  <1> QED
    BY <1>1, <1>5, AppendProperties

-----------------------------------------------------------------------------
\* PublishSamples: the batch joins the queue, or is dropped when it is full.
LEMMA PublishIInv ==
  ASSUME IInv, NEW t \in Tasks, PublishSamples(t)
  PROVE  IInv'
  <1>0. BusType /\ ControlType /\ published \in Nat /\ cutoff \in Nat /\ newest \in Nat
        /\ published + 1 \in 1..MaxBatches /\ TypeOK
    <2>1. TypeOK /\ BusType /\ ControlType
      BY TypeParts DEF IInv
    <2>2. /\ published \in 0..MaxBatches /\ newest \in 0..MaxBatches
          /\ cutoff \in 0..MaxBatches /\ published < MaxBatches
      BY <2>1 DEF BusType, ControlType, PublishSamples
    <2> QED
      BY <2>1, <2>2
  <1>1. /\ published' = published + 1
        /\ UNCHANGED <<ctx, tasks, analysis, handler, main, expired, cutoff, inHand, folded,
                       newest>>
    BY DEF PublishSamples
  <1>2. ControlType' /\ Joining'
    BY <1>0, <1>1 DEF IInv, ControlType, Joining
  <1>3. InHand' = InHand
    BY <1>1 DEF InHand
  <1>4. newest <= published /\ Ascending(Waiting, newest, published)
    BY DEF IInv, InOrder
  <1>5. /\ dropped \subseteq 1..published /\ IsFiniteSet(dropped) /\ Cardinality(dropped) \in Nat
        /\ published = folded + Len(Waiting) + Cardinality(dropped)
        /\ Len(Waiting) \in Nat /\ folded \in Nat
    <2>1. published \in Nat /\ dropped \subseteq 1..published
      BY <1>0 DEF IInv, NothingVanishes
    <2>2. folded \in 0..MaxBatches
      BY <1>0 DEF BusType
    <2>3. IsFiniteSet(dropped) /\ Cardinality(dropped) \in Nat
      BY <2>1, DroppedFinite
    <2>4. Len(Waiting) \in Nat
      BY <1>0, WaitingType
    <2> QED
      BY <2>1, <2>2, <2>3, <2>4 DEF IInv, NothingVanishes
  <1>6. CASE Len(samples) < Depth
    <2>1. samples' = Append(samples, published + 1) /\ UNCHANGED dropped
      BY <1>1, <1>6 DEF PublishSamples
    <2>2. Waiting' = Append(Waiting, published + 1)
      BY <1>0, <1>3, <2>1, AcceptShape DEF Waiting
    <2>3. BusType'
      <3>1. /\ samples' \in Seq(1..MaxBatches) /\ Len(samples') = Len(samples) + 1
            /\ Len(samples) \in Nat
        BY <1>0, <2>1, AcceptShape, WaitingType
      <3>2. Len(samples') <= Depth
        BY <1>6, <3>1
      <3>3. published' \in 0..MaxBatches
        BY <1>0, <1>1
      <3> QED
        BY <1>0, <1>1, <2>1, <3>1, <3>2, <3>3 DEF BusType
    <2>4. InOrder'
      <3>1. Ascending(Append(Waiting, published + 1), newest, published + 1)
        BY <1>0, <1>4, WaitingType, AppendAscending
      <3> QED
        BY <1>0, <1>1, <1>4, <2>2, <3>1 DEF InOrder
    <2>5. NothingVanishes'
      <3>1. Len(Waiting') = Len(Waiting) + 1
        BY <1>0, <2>2, AcceptShape
      <3>2. dropped' \subseteq 1..published'
        BY <1>0, <1>1, <1>5, <2>1
      <3>3. published' = folded' + Len(Waiting') + Cardinality(dropped')
        BY <1>0, <1>1, <1>5, <2>1, <3>1
      <3> QED
        BY <3>2, <3>3 DEF NothingVanishes
    <2>6. Left'
      <3>1. cutoff <= published
        BY DEF IInv, Left
      <3>2. \A i \in 1..Len(samples') :
               samples'[i] = published + 1 \/ (i \in 1..Len(samples) /\ samples'[i] = samples[i])
        <4>1. samples \in Seq(1..MaxBatches) /\ Len(samples) \in Nat
          BY <1>0, WaitingType DEF BusType
        <4>2. /\ Len(samples') = Len(samples) + 1
              /\ samples'[Len(samples) + 1] = published + 1
              /\ \A i \in 1..Len(samples) : samples'[i] = samples[i]
          BY <1>0, <2>1, <4>1, AppendProperties
        <4> QED
          BY <4>1, <4>2
      <3>3. analysis' = "returned" => \A i \in 1..Len(samples') : samples'[i] > cutoff'
        BY <1>0, <1>1, <3>1, <3>2 DEF IInv, Left
      <3> QED
        BY <1>0, <1>1, <3>1, <3>3 DEF Left
    <2> QED
      BY <1>2, <2>3, <2>4, <2>5, <2>6 DEF IInv, TypeOK, BusType, ControlType
  <1>7. CASE ~(Len(samples) < Depth)
    <2>1. dropped' = dropped \cup {published + 1} /\ UNCHANGED samples
      BY <1>1, <1>7 DEF PublishSamples
    <2>2. Waiting' = Waiting
      BY <1>3, <2>1 DEF Waiting
    <2>3. BusType'
      BY <1>0, <1>1, <2>1 DEF BusType
    <2>4. InOrder'
      <3>1. Ascending(Waiting, newest, published + 1)
        <4>1. Len(Waiting) \in Nat /\ \A i \in 1..Len(Waiting) : Waiting[i] \in Nat
          BY <1>0, WaitingType, ElementOfSeq
        <4> QED
          BY <1>0, <1>4, <4>1 DEF Ascending
      <3> QED
        BY <1>0, <1>1, <1>4, <2>2, <3>1 DEF InOrder
    <2>5. NothingVanishes'
      <3>1. published + 1 \notin dropped
        <4>1. published \in Nat /\ dropped \subseteq 1..published
          BY <1>0, <1>5
        <4>2. published + 1 \notin 1..published
          BY <4>1
        <4> QED
          BY <4>1, <4>2
      <3>2. Cardinality(dropped \cup {published + 1}) = Cardinality(dropped) + 1
        BY <1>5, <3>1, FS_AddElement
      <3>3. dropped' \subseteq 1..published'
        <4>1. published \in Nat /\ dropped \subseteq 1..published
          BY <1>0, <1>5
        <4>2. 1..published \subseteq 1..(published + 1) /\ published + 1 \in 1..(published + 1)
          BY <4>1
        <4>3. dropped \cup {published + 1} \subseteq 1..(published + 1)
          BY <4>1, <4>2
        <4> QED
          BY <1>1, <2>1, <4>3
      <3>4. published' = folded' + Len(Waiting') + Cardinality(dropped')
        BY <1>0, <1>1, <1>5, <2>1, <2>2, <3>2
      <3> QED
        BY <3>3, <3>4 DEF NothingVanishes
    <2>6. Left'
      BY <1>0, <1>1, <2>1 DEF IInv, Left
    <2> QED
      BY <1>2, <2>3, <2>4, <2>5, <2>6 DEF IInv, TypeOK, BusType, ControlType
  <1> QED
    BY <1>6, <1>7

\* The select, or the drain, takes a batch into its hand: nothing is lost between.
LEMMA TakeBatchIInv ==
  ASSUME IInv, TakeBatch
  PROVE  IInv'
  <1>1. /\ inHand = NoBatch /\ samples # <<>> /\ analysis # "returned"
        /\ inHand' = Head(samples) /\ samples' = Tail(samples)
        /\ UNCHANGED <<ctx, tasks, analysis, handler, main, expired, cutoff, published,
                       folded, newest, dropped>>
    BY DEF TakeBatch
  <1>2. BusType /\ ControlType /\ TypeOK
    BY TypeParts DEF IInv
  <1>3. /\ Head(samples) \in 1..MaxBatches /\ Tail(samples) \in Seq(1..MaxBatches)
        /\ Len(Tail(samples)) = Len(samples) - 1 /\ Len(samples) \in Nat
    BY <1>1, <1>2, HeadTailProperties, WaitingType DEF BusType
  <1>4. Waiting' = Waiting
    <2>1. Waiting = samples
      BY <1>1, <1>2, WaitingShape
    <2>2. InHand' = <<Head(samples)>>
      BY <1>1, <1>3 DEF InHand
    <2>3. <<Head(samples)>> \o Tail(samples) = samples
      BY <1>1, <1>2, HeadAndTail DEF BusType
    <2> QED
      BY <1>1, <2>1, <2>2, <2>3 DEF Waiting
  <1>5. BusType' /\ ControlType'
    <2>1. Len(samples') <= Depth /\ inHand' \in 0..MaxBatches
      BY <1>1, <1>2, <1>3 DEF BusType
    <2> QED
      BY <1>1, <1>2, <1>3, <2>1 DEF BusType, ControlType
  <1>6. InOrder' /\ NothingVanishes'
    BY <1>1, <1>4 DEF IInv, InOrder, NothingVanishes, Ascending
  <1>7. Joining' /\ Left'
    BY <1>1 DEF IInv, Joining, Left
  <1> QED
    BY <1>5, <1>6, <1>7 DEF IInv, TypeOK, BusType, ControlType

\* dispatch returns: the oldest batch that waited is the newest that was folded.
LEMMA DispatchIInv ==
  ASSUME IInv, Dispatch
  PROVE  /\ IInv'
         /\ Waiting # <<>> /\ newest' = Head(Waiting) /\ Waiting' = Tail(Waiting)
         /\ newest' > newest
  <1>1. /\ inHand # NoBatch /\ inHand' = NoBatch
        /\ folded' = folded + 1 /\ newest' = inHand
        /\ UNCHANGED <<ctx, tasks, analysis, handler, main, expired, cutoff, samples,
                       published, dropped>>
    BY DEF Dispatch
  <1>2. BusType /\ ControlType /\ TypeOK /\ newest \in Nat /\ published \in Nat /\ folded \in Nat
    BY TypeParts DEF IInv, BusType
  <1>3. Waiting # <<>> /\ newest' = Head(Waiting) /\ Waiting' = Tail(Waiting)
    <2>1. Waiting' = samples
      BY <1>1, <1>2, ConcatEmptySeq DEF Waiting, InHand, BusType
    <2> QED
      BY <1>1, <1>2, <2>1, WaitingShape
  <1>4. /\ newest < Head(Waiting) /\ Head(Waiting) <= published /\ Head(Waiting) \in Nat
        /\ Ascending(Tail(Waiting), Head(Waiting), published)
    BY <1>2, <1>3, WaitingType, TailAscending DEF IInv, InOrder
  <1>5. InOrder'
    BY <1>1, <1>3, <1>4 DEF InOrder
  <1>6. Len(Tail(Waiting)) = Len(Waiting) - 1 /\ Len(Waiting) \in Nat \ {0}
    BY <1>2, <1>3, WaitingType, HeadTailProperties, EmptySeq
  <1>7. NothingVanishes' /\ folded' <= published
    <2>1. Cardinality(dropped) \in Nat /\ published = folded + Len(Waiting) + Cardinality(dropped)
      BY <1>2, DroppedFinite DEF IInv, NothingVanishes
    <2>2. published' = folded' + Len(Waiting') + Cardinality(dropped')
      BY <1>1, <1>2, <1>3, <1>6, <2>1
    <2>3. folded' <= published
      BY <1>1, <1>2, <1>6, <2>1
    <2> QED
      BY <1>1, <2>2, <2>3 DEF IInv, NothingVanishes
  <1>8. BusType' /\ ControlType'
    <2>1. folded' \in 0..MaxBatches /\ newest' \in 0..MaxBatches /\ inHand' \in 0..MaxBatches
      BY <1>1, <1>2, <1>7 DEF BusType
    <2> QED
      BY <1>1, <1>2, <2>1 DEF BusType, ControlType
  <1>9. Joining' /\ Left'
    BY <1>1 DEF IInv, Joining, Left
  <1> QED
    BY <1>3, <1>4, <1>5, <1>7, <1>8, <1>9 DEF IInv, TypeOK, BusType, ControlType

-----------------------------------------------------------------------------
\* Every step of the agent preserves the inductive invariant.
LEMMA NextIInv == IInv /\ [Next]_vars => IInv'
  <1> SUFFICES ASSUME IInv, [Next]_vars PROVE IInv'
    OBVIOUS
  <1>1. ASSUME NEW t \in Tasks, StartRun(t) \/ EndRun(t) \/ StopTask(t) \/ Request(t)
        PROVE  IInv'
    BY <1>1, TaskIInv
  <1>2. ASSUME NEW t \in Tasks, PublishSamples(t) PROVE IInv'
    BY <1>2, PublishIInv
  <1>3. CASE TakeBatch
    BY <1>3, TakeBatchIInv
  <1>4. CASE Dispatch
    BY <1>4, DispatchIInv
  <1>5. CASE SeeDone \/ Drained
    BY <1>5, AnalysisIInv
  <1>6. CASE Signal
    BY <1>6, SignalIInv
  <1>7. CASE Shutdown \/ Deadline
    BY <1>7, ShutdownIInv
  <1>8. CASE UNCHANGED vars
    <2>1. UNCHANGED busVars /\ UNCHANGED <<ctx, tasks, analysis, handler, main, expired, cutoff>>
      BY <1>8 DEF vars
    <2>2. ControlType' /\ Joining' /\ Left'
      BY <2>1, TypeParts DEF IInv, ControlType, Joining, Left, busVars
    <2> QED
      BY <2>1, <2>2, ControlStep
  <1> QED
    BY <1>1, <1>2, <1>3, <1>4, <1>5, <1>6, <1>7, <1>8 DEF Next

\* The inductive invariant holds throughout.
LEMMA SpecIInv == Spec => []IInv
  BY InitIInv, NextIInv, PTL DEF Spec

\* Every variable of the bus and of the shutdown keeps its type; the channel never
\* holds more than its depth.
THEOREM SpecTypeOK == Spec => []TypeOK
  BY SpecIInv, PTL DEF IInv

\* A shutdown within its timeout closes the log and the database after every task
\* and the analysis goroutine, and leaves only batches published after the cancel.
\* (Agent.Shutdown, runAnalysis)
THEOREM SpecShutdownIsOrderly == Spec => []ShutdownIsOrderly
  <1>1. IInv => NothingRunsAfterClose
    BY DEF IInv, Joining, NothingRunsAfterClose
  <1>2. IInv => EarlierSamplesAreKept
    BY DEF IInv, Joining, Left, EarlierSamplesAreKept
  <1>3. IInv => ShutdownIsOrderly
    BY <1>1, <1>2 DEF ShutdownIsOrderly
  <1> QED
    BY <1>3, SpecIInv, PTL

\* No batch vanishes between a collector and the detectors: each is folded, waits,
\* or is counted.  (publishSamples, runAnalysis)
THEOREM SpecNothingVanishes == Spec => []NothingVanishes
  BY SpecIInv, PTL DEF IInv

\* What waits is newer than what was folded, and in the order of publication.
\* (publishSamples, runAnalysis)
THEOREM SpecInOrder == Spec => []InOrder
  BY SpecIInv, PTL DEF IInv

\* The detectors only move forward: a batch folded is newer than the one before it.
\* (runAnalysis, dispatch)
THEOREM SpecFoldsForward == Spec => FoldsForward
  <1>1. ASSUME IInv, [Next]_vars, folded' # folded
        PROVE  folded' = folded + 1 /\ newest' > newest
    <2>1. Dispatch
      BY <1>1 DEF Next, StartRun, PublishSamples, EndRun, StopTask, Request, TakeBatch, SeeDone,
         Drained, Signal, Shutdown, BeginShutdown, ServerClosed, TasksJoined, AnalysisJoined,
         Advance, Deadline, vars, busVars
    <2> QED
      BY <1>1, <2>1, DispatchIInv DEF Dispatch
  <1>2. IInv /\ [Next]_vars =>
           [folded' # folded => folded' = folded + 1 /\ newest' > newest]_vars
    BY <1>1
  <1> QED
    BY <1>2, SpecIInv, PTL DEF Spec, FoldsForward

-----------------------------------------------------------------------------
\* Steps of the agent that leave the bus alone are stutters of the stream.
LEMMA StreamStutter == UNCHANGED busVars => UNCHANGED Stream!vars
  BY DEF busVars, Stream!vars, InHand

\* Every step of the bus is a step of the stream, or none.
LEMMA StepImplementsStream ==
  ASSUME IInv, [Next]_vars
  PROVE  [Stream!Next]_(Stream!vars)
  <1>0. TypeOK
    BY DEF IInv
  <1>1. ASSUME NEW t \in Tasks, PublishSamples(t)
        PROVE  Stream!Accept \/ Stream!Lose
    <2>1. /\ published' = published + 1 /\ UNCHANGED <<inHand, folded, newest>>
          /\ published + 1 \in 1..MaxBatches
      <3>1. published \in 0..MaxBatches /\ published < MaxBatches
        BY <1>0, <1>1 DEF TypeOK, PublishSamples
      <3> QED
        BY <1>1, <3>1 DEF PublishSamples
    <2>2. CASE Len(samples) < Depth
      <3>1. samples' = Append(samples, published + 1) /\ UNCHANGED dropped
        BY <1>1, <2>1, <2>2 DEF PublishSamples
      <3>2. (InHand \o samples)' = Append(InHand \o samples, published + 1)
        BY <1>0, <2>1, <3>1, AcceptShape DEF Waiting, InHand
      <3> QED
        BY <2>1, <3>1, <3>2 DEF Stream!Accept
    <2>3. CASE ~(Len(samples) < Depth)
      <3>1. dropped' = dropped \cup {published + 1} /\ UNCHANGED samples
        BY <1>1, <2>1, <2>3 DEF PublishSamples
      <3>2. Len(InHand \o samples) >= Depth
        BY <1>0, <2>3, WaitingType DEF Waiting
      <3>3. UNCHANGED (InHand \o samples)
        BY <2>1, <3>1 DEF InHand
      <3> QED
        BY <2>1, <3>1, <3>2, <3>3 DEF Stream!Lose
    <2> QED
      BY <2>2, <2>3
  <1>2. CASE TakeBatch
    <2>1. inHand = NoBatch /\ samples # <<>> /\ samples \in Seq(1..MaxBatches)
          /\ inHand' = Head(samples) /\ samples' = Tail(samples)
          /\ UNCHANGED <<published, folded, newest, dropped>>
      BY <1>0, <1>2 DEF TypeOK, TakeBatch
    <2>2. (InHand \o samples)' = samples
      <3>1. inHand' # NoBatch
        BY <2>1, HeadTailProperties
      <3> QED
        BY <2>1, <3>1, HeadAndTail DEF InHand
    <2>3. InHand \o samples = samples
      BY <1>0, <2>1, WaitingShape DEF Waiting
    <2> QED
      BY <2>1, <2>2, <2>3 DEF Stream!vars
  <1>3. CASE Dispatch
    <2>1. Waiting # <<>> /\ newest' = Head(Waiting) /\ Waiting' = Tail(Waiting)
      BY <1>3, DispatchIInv
    <2> QED
      BY <1>3, <2>1 DEF Waiting, Dispatch, Stream!Next, Stream!Fold
  <1>4. CASE UNCHANGED busVars
    BY <1>4, StreamStutter
  <1> QED
    BY <1>1, <1>2, <1>3, <1>4 DEF Next, StartRun, EndRun, StopTask, Request, SeeDone,
       Drained, Signal, Shutdown, BeginShutdown, ServerClosed, TasksJoined, AnalysisJoined,
       Advance, Deadline, vars, Stream!Next

\* The bus implements the stream that the detectors are promised.
\* (publishSamples, runAnalysis, dispatch)
THEOREM SpecImplementsStream == Spec => ImplementsStream
  <1>1. Init => Stream!Init
    BY ConcatEmptySeq, EmptySeq DEF Init, InHand, Stream!Init
  <1>2. IInv /\ [Next]_vars => [Stream!Next]_(Stream!vars)
    BY StepImplementsStream
  <1> QED
    BY <1>1, <1>2, SpecIInv, PTL DEF Spec, ImplementsStream, Stream!Spec
=============================================================================
