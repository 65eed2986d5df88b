------------------------------- MODULE Startup ------------------------------
(***************************************************************************)
(* A worker process from its start: create_app (amiweak/app.py) loads the  *)
(* configuration, wires the backends it enables, and hands its settings to *)
(* the prefix cache, which then serves the request threads.  Whatever the  *)
(* validation lets through, the cache has to live with.                    *)
(***************************************************************************)
EXTENDS Configuration, PrefixCache

VARIABLE wired  \* the checkers _build_runner made, while create_app runs

vars == <<configVars, wired, cacheVars>>

Nobody == {"nobody yet"}
NoCache == [enabled |-> FALSE, max_entries |-> 1, ttl |-> 1]

Init == ConfigInit /\ wired = Nobody /\ settings = NoCache /\ CacheInit

Backends == {"hibp", "denylist"}
EnabledKey(b) == IF b = "hibp" THEN "checks.hibp.enabled" ELSE "checks.denylist.enabled"

\* Of the two checks modelled: the denylist needs a dictionary to be loaded,
\* and there is one when there is a path.
Wires(b) ==
    /\ config[EnabledKey(b)] = Bool(TRUE)
    /\ b = "denylist" => config["denylist.path"] # None

\* CacheConfig.  The ttl is a positive number, or NaN, whose n is zero,
\* PrefixCache's Unordered.
CacheSettings ==
    [enabled |-> config["cache.enabled"] = Bool(TRUE),
     max_entries |-> config["cache.max_entries"].n,
     ttl |-> config["cache.ttl_seconds"].n]

\* Denylist.load ends the process on a dictionary it cannot read, as it
\* always does when the path is empty.
Wire ==
    /\ phase = "accepted"
    /\ wired = Nobody
    /\ config["denylist.path"] # Text(0)
    /\ wired' = {b \in Backends : Wires(b)}
    /\ settings' = CacheSettings
    /\ UNCHANGED <<configVars, clock, entries, order, callVars, observers>>

\* The application serves.  It never again looks at the file, the environment
\* or the merged mapping, nor asks which checkers there are: the model drops
\* them, so that only the settings tell processes apart.
Listen ==
    /\ phase = "accepted"
    /\ wired # Nobody
    /\ phase' = "serving"
    /\ wired' = Nobody
    /\ Dropped
    /\ UNCHANGED <<defaults, cacheVars>>

LoadFirst ==
    /\ wired = Nobody
    /\ LoadConfig \/ Forgotten
    /\ UNCHANGED <<wired, cacheVars>>

Use ==
    /\ phase = "serving"
    /\ Serve
    /\ UNCHANGED <<configVars, wired>>

Next == LoadFirst \/ Wire \/ Listen \/ Use

Spec == Init /\ [][Next]_vars

-----------------------------------------------------------------------------
(* Whatever configuration was accepted: *)

\* A check is reported as enabled exactly when there is a checker for it;
\* "reporting `enabled: true` ... would be a lie".  _build, _build_runner.
ReportedIsWired ==
    wired # Nobody => \A b \in Backends : b \in wired <=> config[EnabledKey(b)] = Bool(TRUE)

=============================================================================
