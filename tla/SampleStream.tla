---------------------------- MODULE SampleStream ----------------------------
(***************************************************************************)
(* What the sample bus promises to the detectors, whatever the collectors, *)
(* the analysis goroutine and a shutdown do: batches are folded once, in   *)
(* the order they were published, and one is lost only when Depth batches  *)
(* were waiting.  Module Pipeline is shown to implement this.              *)
(***************************************************************************)
EXTENDS Naturals, Sequences

CONSTANT Depth

VARIABLES published,   \* batches published so far; a batch is its number
          waiting,     \* batches accepted and not folded yet
          folded,      \* the number of batches folded
          newest,      \* the last batch folded
          lost         \* batches dropped

vars == <<published, waiting, folded, newest, lost>>

Init ==
    /\ published = 0
    /\ waiting = <<>>
    /\ folded = 0
    /\ newest = 0
    /\ lost = {}

Accept ==
    /\ waiting' = Append(waiting, published + 1)
    /\ published' = published + 1
    /\ UNCHANGED <<folded, newest, lost>>

Lose ==
    /\ Len(waiting) >= Depth
    /\ lost' = lost \cup {published + 1}
    /\ published' = published + 1
    /\ UNCHANGED <<waiting, folded, newest>>

Fold ==
    /\ waiting # <<>>
    /\ newest' = Head(waiting)
    /\ folded' = folded + 1
    /\ waiting' = Tail(waiting)
    /\ UNCHANGED <<published, lost>>

Next == Accept \/ Lose \/ Fold

Spec == Init /\ [][Next]_vars
=============================================================================
