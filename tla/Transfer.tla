------------------------------ MODULE Transfer ------------------------------
(***************************************************************************)
(* One transfer of a speed test (speedtest/http_provider.go): the streams  *)
(* that request, read, are refused and retry, the meter they all report    *)
(* to, and its clock, which discards the warm-up and ends at the duration, *)
(* at the cap, when every stream has ended or when the context is done.    *)
(*                                                                         *)
(* A stream moves at most one buffer per tick of the clock, a unit of      *)
(* data; what the clock's goroutine can do it does before the next tick.   *)
(***************************************************************************)
EXTENDS Integers, FiniteSets

CONSTANTS Streams,     \* the streams of the transfer
          Warmup, Duration, MaxBytes,
          Chunk,       \* units per request
          MaxRetries

VARIABLES
    upload,      \* the direction
    now, start,  \* the clock, and when the measurement began
    phase,       \* of meter.run: "warmup", "measuring", "stopped", or "returned"
    stream,      \* what each stream is doing
    moved,       \* streams that have moved a buffer since the last tick
    total, counted, capHit,   \* the meter
    result,
    \* history
    atStart, atEnd,   \* total when the measurement began and ended
    reached           \* when the cap was reached

meter == <<total, counted, capHit>>
vars == <<upload, now, start, phase, stream, moved, meter, result, atStart, atEnd, reached>>

Never == -1
NoResult == [bytes |-> 0, duration |-> 0, capped |-> FALSE, failed |-> FALSE]

\* left is what remains of the request; full, that its last addition met the cap; error is
\* an error for the errs channel.
NewStream == [step |-> "requesting", left |-> 0, retries |-> 0, full |-> FALSE, error |-> FALSE]

Ended == \A i \in Streams : stream[i].step = "ended"
Cancelled == phase = "stopped"

Init ==
    /\ upload \in BOOLEAN /\ now = 0
    /\ start = IF Warmup > 0 THEN Never ELSE 0
    /\ phase = IF Warmup > 0 THEN "warmup" ELSE "measuring"
    /\ stream = [i \in Streams |-> NewStream] /\ moved = {}
    /\ total = 0 /\ counted = 0 /\ capHit = FALSE
    /\ result = NoResult /\ atStart = 0 /\ atEnd = 0 /\ reached = Never

TypeOK ==
    /\ phase \in {"warmup", "measuring", "stopped", "returned"}
    /\ \A i \in Streams : /\ stream[i].step \in {"requesting", "moving", "adding", "answering", "waiting", "ended"}
                          /\ stream[i].left \in 0..Chunk /\ stream[i].retries \in 0..MaxRetries + 1
    /\ capHit = (reached # Never)

-----------------------------------------------------------------------------
Step(i, s) == stream' = [stream EXCEPT ![i] = s]

Go(i, step) == Step(i, [stream[i] EXCEPT !.step = step])

End(i, error) == Step(i, [stream[i] EXCEPT !.step = "ended", !.error = error])

\* A request is sent.  An upload sends its body before it is answered.
Request(i) ==
    /\ stream[i].step = "requesting" /\ ~Cancelled
    /\ IF upload THEN Step(i, [stream[i] EXCEPT !.step = "moving", !.left = Chunk])
                 ELSE Go(i, "answering")
    /\ UNCHANGED <<upload, now, start, phase, moved, meter, result, atStart, atEnd, reached>>

\* 429 and 503 are tried again, unless nothing was transferred at all or too often.
GivesUp(i) == total = 0 \/ stream[i].retries + 1 > MaxRetries

Answer(i) ==
    /\ stream[i].step = "answering" /\ ~Cancelled
    /\ \/ IF upload THEN Go(i, "requesting")
                    ELSE Step(i, [stream[i] EXCEPT !.step = "moving", !.left = Chunk])
       \/ IF GivesUp(i) THEN End(i, TRUE)
          ELSE Step(i, [stream[i] EXCEPT !.step = "waiting", !.retries = @ + 1])
       \/ End(i, TRUE)     \* another status, or no answer
    /\ UNCHANGED <<upload, now, start, phase, moved, meter, result, atStart, atEnd, reached>>

Retry(i) ==
    /\ stream[i].step = "waiting" /\ i \notin moved
    /\ Go(i, "requesting") /\ moved' = moved \cup {i}
    /\ UNCHANGED <<upload, now, start, phase, meter, result, atStart, atEnd, reached>>

\* meter.add, its first half: the total.
Move(i) ==
    /\ stream[i].step = "moving" /\ i \notin moved /\ ~Cancelled
    /\ moved' = moved \cup {i}
    /\ total' = total + 1
    /\ Step(i, [stream[i] EXCEPT !.step = "adding", !.left = @ - 1,
                                !.full = (MaxBytes > 0 /\ total' >= MaxBytes)])
    /\ UNCHANGED <<upload, now, start, phase, counted, capHit, result, atStart, atEnd, reached>>

\* Its second half: what arrives while measuring is set, and the cap.
Add(i) ==
    /\ stream[i].step = "adding"
    /\ counted' = IF phase = "measuring" THEN counted + 1 ELSE counted
    /\ capHit' = (capHit \/ stream[i].full)
    /\ reached' = IF capHit' /\ ~capHit THEN now ELSE reached
    /\ Go(i, IF stream[i].left > 0 THEN "moving" ELSE IF upload THEN "answering" ELSE "requesting")
    /\ UNCHANGED <<upload, now, start, phase, moved, total, result, atStart, atEnd>>

\* The connection breaks, or the measurement was cancelled, which is no error.
Break(i) ==
    /\ stream[i].step \in {"requesting", "moving", "answering", "waiting"}
    /\ \/ Cancelled /\ End(i, FALSE)
       \/ ~Cancelled /\ stream[i].step = "moving" /\ End(i, TRUE)
    /\ UNCHANGED <<upload, now, start, phase, moved, meter, result, atStart, atEnd, reached>>

-----------------------------------------------------------------------------
\* meter.run returns: the streams are cancelled.
Stop(r) ==
    /\ phase' = "stopped" /\ result' = r /\ atEnd' = total
    /\ UNCHANGED <<upload, now, stream, moved, meter, start, atStart, reached>>

\* Mutant: the warm-up counts as well.
Measured_All == [bytes |-> total, duration |-> now - start, capped |-> capHit, failed |-> FALSE]

Measured == [bytes |-> counted, duration |-> now - start, capped |-> capHit, failed |-> FALSE]

\* A cap met during the warm-up is reported over the whole of it.
WarmUpCapped == [bytes |-> total, duration |-> Warmup, capped |-> TRUE, failed |-> FALSE]

StopInWarmUp ==
    /\ phase = "warmup"
    /\ \/ Ended /\ Stop(NoResult)
       \/ capHit /\ Stop(WarmUpCapped)
       \/ Stop(NoResult)            \* the context is done

EndWarmUp ==
    /\ phase = "warmup" /\ now >= Warmup
    /\ phase' = "measuring" /\ start' = now /\ counted' = 0 /\ atStart' = total
    /\ UNCHANGED <<upload, now, stream, moved, total, capHit, result, atEnd, reached>>

Over == Ended \/ capHit \/ now >= start + Duration

StopMeasuring ==
    /\ phase = "measuring"
    /\ \/ Over /\ Stop(Measured)
       \/ Stop([Measured EXCEPT !.capped = FALSE])     \* the context is done

Tick ==
    /\ \/ phase = "warmup" /\ now < Warmup /\ ~capHit /\ ~Ended
       \/ phase = "measuring" /\ ~Over
    /\ \A i \in Streams : stream[i].step # "adding"      \* an addition takes no time
    /\ now' = now + 1 /\ moved' = {}
    /\ UNCHANGED <<upload, start, phase, stream, meter, result, atStart, atEnd, reached>>

\* Download and Upload return once every stream has ended.
Return ==
    /\ phase = "stopped" /\ Ended
    /\ phase' = "returned" /\ result' = [result EXCEPT !.failed = (result.bytes = 0)]
    /\ UNCHANGED <<upload, now, start, stream, moved, meter, atStart, atEnd, reached>>

Next ==
    \/ \E i \in Streams : Request(i) \/ Answer(i) \/ Retry(i) \/ Move(i) \/ Add(i) \/ Break(i)
    \/ StopInWarmUp \/ EndWarmUp \/ StopMeasuring \/ Tick \/ Return

Spec == Init /\ [][Next]_vars

-----------------------------------------------------------------------------
(***************************************************************************)
(* A measurement that was begun reports what was transferred while it ran, *)
(* to within the buffer that each stream was adding when it began or       *)
(* ended, however the streams failed and retried; and no transfer moves    *)
(* more beyond its cap than the buffers that were on their way.            *)
(***************************************************************************)
MeasurementsAreTrue ==
    /\ phase \in {"stopped", "returned"} /\ start # Never =>
         LET transferred == atEnd - atStart IN
         /\ result.bytes <= transferred + Cardinality(Streams)
         /\ result.bytes >= transferred - Cardinality(Streams)
    /\ MaxBytes > 0 => total <= MaxBytes + Cardinality(Streams)

(***************************************************************************)
(* http_provider.go, of a cap reached during the warm-up: "report what the *)
(* warm-up itself measured", which is what was transferred until then, in  *)
(* the time that took.                                                     *)
(***************************************************************************)
CappedRatesAreTrue ==
    phase = "returned" /\ result.capped /\ start = Never => result.duration <= reached + 1
=============================================================================
