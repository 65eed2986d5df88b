-------------------------- MODULE MCStrengthScorer --------------------------
(***************************************************************************)
(* Two request threads, two calls each, over at most three children: long  *)
(* enough for a call to time out, its answer to come late, and two more    *)
(* children to serve the calls that follow.                                *)
(***************************************************************************)
EXTENDS StrengthScorer

CONSTANTS t1, t2
=============================================================================
