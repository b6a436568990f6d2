---------------------------- MODULE MCThreatIntel ----------------------------
(***************************************************************************)
(* Documents for module ThreatIntel: a feed without a valid line, and one  *)
(* with two addresses, of which a limit of one keeps the first.            *)
(***************************************************************************)
EXTENDS ThreatIntel

Served == {<<"junk">>, <<"a", "junk", "b">>}
=============================================================================
