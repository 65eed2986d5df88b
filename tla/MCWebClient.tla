----------------------------- MODULE MCWebClient ----------------------------
(***************************************************************************)
(* A weak password and a strong one; the operator may have set the gate *)
(* lower, or off.                                                          *)
(***************************************************************************)
EXTENDS WebClient, TLC

CONSTANTS feeble, sturdy

MCLocalScore == feeble :> 1 @@ sturdy :> 4
MCServerSettings ==
    {[enabled |-> FALSE, min_score |-> 3], [enabled |-> TRUE, min_score |-> 4]}
=============================================================================
