---------------------------- MODULE MCDetection -----------------------------
(***************************************************************************)
(* The instance of Detection that the run explores: three components of    *)
(* the health score, with the scale of each, the last of them better when  *)
(* higher.                                                                 *)
(***************************************************************************)
EXTENDS Detection

MCWeight == <<20, 10, 15>>
MCGood == <<0, 0, 10000>>
MCBad == <<10000, 10000, 1000>>
=============================================================================
