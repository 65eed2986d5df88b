--------------------------- MODULE MCCachedFanOut ---------------------------
(***************************************************************************)
(* Two calls over one cache, in the deployment of MCFanOut: an audit       *)
(* beside a single check.  The calls share nothing but the cache, so a     *)
(* second batch would only add more of what the single check does.         *)
(***************************************************************************)
EXTENDS MCFanOut, CachedFanOut

\* weakpass for two algorithms, which share a prefix, and the denylist, whose
\* ranges are not cached.
WeakpassBoth ==
    [hibp |-> {"sha1"}, weakpass |-> {"sha1", "ntlm"}, denylist |-> {"sha1"}]

\* The operator lets weakpass fail, and nothing else.
PairOnError == [MCOnError EXCEPT !["hibp"] = "fail_closed", !["weakpass"] = "fail_open"]

PairInit == CachedInit /\ req[c1].kind = "batch" /\ req[c2].kind = "single"

PairSpec == PairInit /\ [][CachedNext]_cachedVars
=============================================================================
