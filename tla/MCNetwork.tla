----------------------------- MODULE MCNetwork ------------------------------
(***************************************************************************)
(* The instance of Network that the run explores.                          *)
(***************************************************************************)
EXTENDS Network

MCSockets == {[host |-> 1, port |-> 22], [host |-> 2, port |-> 22], [host |-> 2, port |-> 80]}
=============================================================================
