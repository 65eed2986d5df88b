------------------------------ MODULE Verdicts ------------------------------
(***************************************************************************)
(* From one answer per backend to one verdict: the pure half of the check  *)
(* runner (amiweak/checks/runner.py) over the two result types of          *)
(* amiweak/checks/base.py.  Nothing here keeps state.                      *)
(***************************************************************************)
EXTENDS Naturals

CONSTANTS
    Enabled,    \* the backends _build_runner put in the checker list
    OnError     \* config.checks[b].on_error of each backend

\* The three names checkers, config.checks and VERDICT_BY_CHECK share.
Backends == {"hibp", "weakpass", "denylist"}

ASSUME EnabledAssumption == Enabled \subseteq Backends
ASSUME OnErrorAssumption == OnError \in [Backends -> {"fail_open", "fail_closed"}]

-----------------------------------------------------------------------------
\* The closed vocabulary of reasons; "network" also stands for http_<status>.
ERROR_TIMEOUT == "timeout"
ERROR_NETWORK == "network"
ERROR_INTERNAL == "internal"
Errors == {ERROR_TIMEOUT, ERROR_NETWORK, ERROR_INTERNAL}

\* Python's three-valued CheckResult.hit: None, False, True.
Hits == {"none", "miss", "hit"}

CheckResult == [enabled : BOOLEAN, applicable : BOOLEAN, skipped : BOOLEAN,
                hit : Hits, error : Errors \cup {"none"}]

Verdict == {"safe", "leaked", "precomputed", "denylisted",
            "too_short", "weak", "error"}

\* A backend that answered, one that did not, one that cannot answer for the
\* algorithm, and a configured backend that is absent from the results.
Answered(found) ==
    [enabled |-> TRUE, applicable |-> TRUE, skipped |-> FALSE,
     hit |-> IF found THEN "hit" ELSE "miss", error |-> "none"]
Unanswered(reason) ==
    [enabled |-> TRUE, applicable |-> TRUE, skipped |-> FALSE,
     hit |-> "none", error |-> reason]
NotApplicable ==
    [enabled |-> TRUE, applicable |-> FALSE, skipped |-> FALSE,
     hit |-> "none", error |-> "none"]
Placeholder(b, skipped) ==
    [enabled |-> b \in Enabled, applicable |-> TRUE, skipped |-> skipped,
     hit |-> "none", error |-> "none"]

-----------------------------------------------------------------------------
\* The backends that should have answered and did not.
Failed(results) ==
    {b \in Backends : /\ results[b].enabled
                      /\ results[b].applicable
                      /\ results[b].hit = "none"
                      /\ results[b].error # "none"}

Hit(results, b) == results[b].hit = "hit"

\* Fault: every public hit is reported as a leak.
AnyHitIsALeak(results) ==
    CASE Hit(results, "hibp") \/ Hit(results, "weakpass") -> "leaked"
      [] OTHER -> IF Hit(results, "denylist") THEN "denylisted" ELSE "safe"

\* VERDICT_BY_CHECK: the worst hit wins, and a denylist hit loses to both.
WorstHit(results) ==
    CASE Hit(results, "hibp") -> "leaked"
      [] ~Hit(results, "hibp") /\ Hit(results, "weakpass") -> "precomputed"
      [] /\ ~Hit(results, "hibp")
         /\ ~Hit(results, "weakpass")
         /\ Hit(results, "denylist") -> "denylisted"
      [] OTHER -> "safe"

\* The two halves of what _resolve returns.
Degraded(results) == Failed(results) # {}

\* Fault: a failure that is let pass hides the hits beside it.
FailureHidesHits(results) ==
    CASE \E b \in Failed(results) : OnError[b] = "fail_closed" -> "error"
      [] OTHER -> IF Degraded(results) THEN "safe" ELSE WorstHit(results)

Resolve(results) ==
    IF \E b \in Failed(results) : OnError[b] = "fail_closed"
    THEN "error"
    ELSE WorstHit(results)

=============================================================================
