------------------------------ MODULE MCStartup -----------------------------
(***************************************************************************)
(* Every variable on its own over every document, and the environments in  *)
(* which one variable bears on another.                                    *)
(***************************************************************************)
EXTENDS Startup, TLC

CONSTANTS k1, k2, k3, r1, r2, t1, t2

Doc(sets) == [kind |-> "mapping", sets |-> sets]
Broken(kind) == [kind |-> kind, sets |-> <<>>]

MCFiles ==
    {Broken("absent"), Broken("scalar"), Broken("malformed"), Doc([x \in {"chekcs"} |-> Text(1)])}
    \cup {Doc(k :> v) : k \in {"cache.ttl_seconds"}, v \in {Whole(1), Float(2), NaN, Float(0), Bool(TRUE)}}
    \cup {Doc("cache" :> None), Doc("denylist" :> Text(1)), Doc("checks.hibp.timeout" :> Whole(2)),
          Doc("http.timeout" :> None), Doc("checks.hibp.timeout" :> Text(1)),
          Doc("denylist.path" :> Text(0)), Doc("denylist.path" :> Text(1)),
          Doc("cache.enabled" :> Bool(FALSE)), Doc("cache.max_entries" :> Whole(1)),
          Doc("cache.max_entries" :> Whole(0)),
          Doc("checks.denylist.enabled" :> Bool(FALSE) @@ "denylist.path" :> Text(1))}

Var(name, raw) == [name |-> name, raw |-> raw]

MCEnvironments ==
    {<<>>}
    \cup {<<Var(name, raw)>> : name \in Keys \cup {"chekcs", "AMIWEAK_WORKERS"}, raw \in Raws}
    \cup {<<Var("cache", raw), Var("cache.enabled", "0")>> : raw \in {"", "word"}}
    \cup {<<Var("checks.hibp.timeout", "1"), Var("checks.hibp.timeout", raw)>> : raw \in Raws}
    \cup {<<Var("checks.hibp.enabled", "0"), Var("http.timeout", "nan")>>}

\* The cache treats keys, ranges and threads alike, and a load knows none.
Symmetry == Permutations(CacheKeys) \cup Permutations(Ranges) \cup Permutations(Threads)
=============================================================================
