------------------------------ MODULE MCFanOut ------------------------------
(***************************************************************************)
(* A small deployment for FanOut: two SHA-1 digests that share a HIBP      *)
(* prefix and not a weakpass prefix (five and six characters), and an NTLM *)
(* digest whose prefixes are those of the first.                           *)
(***************************************************************************)
EXTENDS FanOut

CONSTANTS c1, c2, d1, d2, n1, p1, p2

MCDigests == {d1, d2, n1}
MCPrefixes == {p1, p2}
MCAlgorithmOf == [d \in MCDigests |-> IF d = n1 THEN "ntlm" ELSE "sha1"]
MCPrefixOf ==
    [b \in Backends |->
        [d \in MCDigests |-> IF b = "weakpass" /\ d = d2 THEN p2 ELSE p1]]

\* d1 is on a cracking list and on the denylist, d2 is clean, n1 is on a
\* cracking list and has leaked.
MCCorpus == [hibp |-> {n1}, weakpass |-> {d1, n1}, denylist |-> {d1}]

Single(a, d) == [kind |-> "single", algorithm |-> a, items |-> <<d>>]
Batch(a, ds) == [kind |-> "batch", algorithm |-> a, items |-> ds]

MCRequests == {Batch("sha1", <<d1, d2>>), Single("sha1", d1), Single("ntlm", n1)}

\* The operator lets HIBP fail, and nothing else.
MCOnError == [hibp |-> "fail_open", weakpass |-> "fail_closed", denylist |-> "fail_closed"]

-----------------------------------------------------------------------------
(* One call: three backends, every outcome, an algorithm nobody supports.  *)

SHA1Only == [b \in Backends |-> {"sha1"}]
=============================================================================
