----------------------------- MODULE MCCheckFlow ----------------------------
(***************************************************************************)
(* A small deployment for CheckFlow: SHA-1 only, two digests that share a  *)
(* HIBP prefix and not a weakpass prefix, and one NTLM digest that nobody  *)
(* is asked about.                                                         *)
(***************************************************************************)
EXTENDS CheckFlow, TLC

CONSTANTS c1, c2, d1, d2, n1, p1, p2

MCDigests == {d1, d2, n1}
MCPrefixes == {p1, p2}
MCAlgorithmOf == [d \in MCDigests |-> IF d = n1 THEN "ntlm" ELSE "sha1"]
MCPrefixOf ==
    [b \in Backends |->
        [d \in MCDigests |-> IF b = "weakpass" /\ d = d2 THEN p2 ELSE p1]]
MCSupported == [b \in Backends |-> {"sha1"}]

\* d1 is on a cracking list and on the denylist, d2 is clean.
MCCorpus == [hibp |-> {n1}, weakpass |-> {d1}, denylist |-> {d1}]

\* The operator lets HIBP fail, and nothing else.
MCOnError == [hibp |-> "fail_open", weakpass |-> "fail_closed", denylist |-> "fail_closed"]

WellFormed(route, a, ds) ==
    [route |-> route, valid |-> TRUE, algorithm |-> a, items |-> ds,
     weak |-> FALSE, short |-> FALSE, matched |-> FALSE]

Garbled(r) == [r EXCEPT !.valid = FALSE]

Password == WellFormed("check", "sha1", <<d2>>)
Hash == WellFormed("hash", "sha1", <<d2>>)
Audit == WellFormed("batch", "sha1", <<d1, d2>>)

\* A password that passes, one no gate would pass, a short one and one that
\* only the plaintext denylist knows; a digest of a supported algorithm and of
\* another; a batch; and a body that does not parse, on each route.
MCRequests ==
    {Password,
     [Password EXCEPT !.weak = TRUE, !.short = TRUE],
     [Password EXCEPT !.weak = TRUE],
     [Password EXCEPT !.matched = TRUE],
     Hash, WellFormed("hash", "ntlm", <<n1>>),
     Audit,
     Garbled(Password), Garbled(Hash), Garbled(Audit)}

\* One single check at a time, and a batch that may be too expensive.
MCCapacity == [n \in Namespaces |-> IF n = "policy" THEN 1 ELSE 3]

CallSymmetry == Permutations(Calls)
=============================================================================
