---------------------------- MODULE MCDigestCache ---------------------------
(***************************************************************************)
(* Texts for DigestCache: two dictionaries, rules, and rules that expand   *)
(* the second dictionary too far.                                          *)
(***************************************************************************)
EXTENDS DigestCache, TLC

CONSTANTS w1, w2, old, new, plain, wide

MCRefused == {[dictionary |-> new, rules |-> wide]}
=============================================================================
