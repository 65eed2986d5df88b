------------------------------- MODULE Plans --------------------------------
(***************************************************************************)
(* What a check asks of the backends: CheckRunner._plan and its parts      *)
(* (amiweak/checks/runner.py), over what the backends are configured to    *)
(* answer for.  Pure definitions, shared by FanOut, which fetches a plan,  *)
(* and CheckFlow, which prices and requests one.                           *)
(***************************************************************************)
EXTENDS Verdicts, Sequences

CONSTANTS
    Digests,          \* the digests clients ask about
    Prefixes,         \* what checker.prefix_of returns
    AlgorithmOf,      \* the algorithm each digest was made with
    PrefixOf,         \* checker.prefix_of, per backend and digest
    Corpus,           \* the digests each backend lists
    Supported         \* config.checks[b].algorithms of each backend

Algorithms == {"sha1", "ntlm"}

ASSUME DigestAssumption ==
    /\ AlgorithmOf \in [Digests -> Algorithms]
    /\ PrefixOf \in [Backends -> [Digests -> Prefixes]]
    /\ Corpus \in [Backends -> SUBSET Digests]

\* DenylistChecker.supports refuses everything but SHA-1, whatever the config says.
ASSUME SupportedAssumption ==
    /\ Supported \in [Backends -> SUBSET Algorithms]
    /\ Supported["denylist"] \subseteq {"sha1"}

-----------------------------------------------------------------------------
CacheKey == [backend : Backends, algorithm : Algorithms, prefix : Prefixes]

\* Fault: a key that leaves the algorithm out.
KeyForSHA1(b, a, d) == [backend |-> b, algorithm |-> "sha1", prefix |-> PrefixOf[b][d]]

\* The key a digest needs from a backend.
KeyOf(b, a, d) == [backend |-> b, algorithm |-> a, prefix |-> PrefixOf[b][d]]

Applicable(a) == {b \in Enabled : a \in Supported[b]}

\* Every distinct key a request needs, from every backend that applies.
Plan(r) ==
    {KeyOf(b, r.algorithm, r.items[i]) : b \in Applicable(r.algorithm), i \in DOMAIN r.items}

\* DenylistChecker.cacheable is False, RangeChecker's is True.
Cacheable(k) == k.backend # "denylist"

\* What the backend lists under a key, and so what a fetch of it brings back.
Listed(k) ==
    {d \in Corpus[k.backend] : /\ AlgorithmOf[d] = k.algorithm
                               /\ PrefixOf[k.backend][d] = k.prefix}

-----------------------------------------------------------------------------
\* _evaluate_from: what a backend has to say of a digest when some of the
\* ranges of the plan went unanswered.  One error stands for all reasons.
ResultWhen(r, unanswered, b, d) ==
    CASE b \notin Enabled -> Placeholder(b, FALSE)
      [] b \in Enabled /\ b \notin Applicable(r.algorithm) -> NotApplicable
      [] b \in Applicable(r.algorithm) /\ KeyOf(b, r.algorithm, d) \in unanswered ->
            Unanswered(ERROR_TIMEOUT)
      [] OTHER -> Answered(d \in Listed(KeyOf(b, r.algorithm, d)))

=============================================================================
