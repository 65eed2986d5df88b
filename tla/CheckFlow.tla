------------------------------ MODULE CheckFlow -----------------------------
(***************************************************************************)
(* The three routes that check something (amiweak/routes/api.py), from the *)
(* request to the answer: /check takes a password, /check/hash one digest, *)
(* /check/batch many.  A call is charged, validated, led through the gates *)
(* of CheckRunner.evaluate, and looked up and fetched, in the order of its *)
(* route; calls share the prefix cache and the token buckets.              *)
(*                                                                         *)
(* A fetch is one step here: which keys were answered in time is any       *)
(* subset of those that were not cached.  FanOut is what happens inside.   *)
(* A live cache entry is what the backend lists (FanOut's CacheIsTruthful) *)
(* and a bucket is one number that grows by and by (RateLimit is the whole *)
(* of it).  All calls are of one client.                                   *)
(***************************************************************************)
EXTENDS Plans, FiniteSets

CONSTANTS
    Calls,            \* requests under way, each on a thread of its own
    Requests,         \* what the client may send
    Limited,          \* the limiters that are enabled
    Capacity,         \* the tokens of a full bucket
    BatchEnabled,     \* config.batch.enabled
    StrengthEnabled,  \* config.strength.enabled
    PlaintextGate,    \* a denylist is loaded and denylist.match_plaintext is set
    MaxRefills        \* bound: how many tokens come back

Routes == {"check", "hash", "batch"}
Namespaces == {"policy", "batch"}

\* A request: does its body parse, which digests does it come down to, and
\* what do the gates make of the password behind them.
Request == [route : Routes, valid : BOOLEAN, algorithm : Algorithms, items : Seq(Digests),
            weak : BOOLEAN, short : BOOLEAN, matched : BOOLEAN]

ASSUME RequestsAssumption ==
    /\ Requests \subseteq Request
    /\ \A r \in Requests :
          /\ r.items # <<>>
          /\ r.route # "batch" => Len(r.items) = 1
          /\ r.route = "check" => r.algorithm = "sha1"
          /\ \A i \in DOMAIN r.items : AlgorithmOf[r.items[i]] = r.algorithm

ASSUME ConfigAssumption ==
    /\ Limited \subseteq Namespaces
    /\ Capacity \in [Namespaces -> Nat \ {0}]
    /\ {BatchEnabled, StrengthEnabled, PlaintextGate} \subseteq BOOLEAN
    /\ MaxRefills \in Nat

\* Finitely many threads, and a bounded number of items (batch.max_items).
ASSUME FiniteAssumption ==
    /\ IsFiniteSet(Calls)
    /\ \A r \in Requests : IsFiniteSet(Plan(r))

VARIABLES
    cache,     \* the live keys of the PrefixCache
    tokens,    \* what each limiter's bucket of this client holds
    pc,        \* where each call is
    req,       \* its request
    cost,      \* what it will be charged
    degraded,  \* strength_degraded: the scorer gave no answer
    pending,   \* the keys it has to fetch
    answer,    \* the response
    refilled,  \* observer: tokens that came back
    charged,   \* observer: what each call paid
    priced,    \* observer: the keys its price left out as cached
    egress     \* observer: the keys it sent to an upstream

observers == <<refilled, charged, priced, egress>>
vars == <<cache, tokens, pc, req, cost, degraded, pending, answer, observers>>

Statuses == {200, 400, 404, 429, 500}

\* The evaluation of one digest, as the response carries it.
Evaluation == [verdict : Verdict, degraded : BOOLEAN, results : [Backends -> CheckResult]]

Items(r) == {r.items[i] : i \in DOMAIN r.items}

\* Nothing yet or an error, or the evaluations.
NoAnswer == [status |-> 0]
ResponseTo(r) ==
    [status : {0} \cup (Statuses \ {200})] \cup [status : {200}, of : [Items(r) -> Evaluation]]

-----------------------------------------------------------------------------
(* The order of the steps. *)

\* Fault: a hash is charged for before it is validated, as a password is.
ChargeFirst ==
    [check |-> <<"charge", "parse", "score">>,
     hash  |-> <<"charge", "parse", "lookup">>,
     batch |-> <<"parse", "price", "charge", "lookup">>]

\* /check charges and then validates, the others validate and then charge.
Order ==
    [check |-> <<"charge", "parse", "score">>,
     hash  |-> <<"parse", "charge", "lookup">>,
     batch |-> <<"parse", "price", "charge", "lookup">>]

Places == {"charge", "parse", "price", "score", "gates", "lookup", "fetch", "answered"}

PlaceAfter(c) ==
    LET order == Order[req[c].route]
        i == CHOOSE j \in DOMAIN order : order[j] = pc[c]
    IN  order[i + 1]

Proceed(c, place) == pc' = [pc EXCEPT ![c] = place]

Respond(c, response) ==
    /\ answer' = [answer EXCEPT ![c] = response]
    /\ Proceed(c, "answered")

\* Fault: a hash spends from the allowance of batches.
BucketOfDigests(r) == IF r.route = "check" THEN "policy" ELSE "batch"

\* The limiter of a route: /check/hash shares /check's bucket.
Bucket(r) == IF r.route = "batch" THEN "batch" ELSE "policy"

TypeOK ==
    /\ cache \subseteq {k \in CacheKey : Cacheable(k)}
    /\ tokens \in [Namespaces -> Nat]
    /\ \A n \in Namespaces : tokens[n] <= Capacity[n]
    /\ pc \in [Calls -> Places]
    /\ req \in [Calls -> Requests]
    /\ cost \in [Calls -> Nat \ {0}]
    /\ degraded \in [Calls -> BOOLEAN]
    /\ pending \in [Calls -> SUBSET CacheKey]
    /\ answer = [c \in Calls |-> answer[c]]
    /\ \A c \in Calls : answer[c] \in ResponseTo(req[c])
    /\ refilled \in [Namespaces -> 0..MaxRefills]
    /\ charged \in [Calls -> Nat]
    /\ priced \in [Calls -> SUBSET CacheKey]
    /\ egress \in [Calls -> SUBSET CacheKey]

Init ==
    /\ cache = {}
    /\ tokens = Capacity
    /\ req \in [Calls -> Requests]
    /\ pc = [c \in Calls |-> Order[req[c].route][1]]
    /\ cost = [c \in Calls |-> 1]
    /\ degraded = [c \in Calls |-> FALSE]
    /\ pending = [c \in Calls |-> {}]
    /\ answer = [c \in Calls |-> NoAnswer]
    /\ refilled = [n \in Namespaces |-> 0]
    /\ charged = [c \in Calls |-> 0]
    /\ priced = [c \in Calls |-> {}]
    /\ egress = [c \in Calls |-> {}]

-----------------------------------------------------------------------------
(* The routes. *)

\* _load_json, _parse_hash, _parse_batch, _require_supported.  A batch is
\* turned away first when batches are disabled.
Refusal(r) ==
    CASE r.route = "batch" /\ ~BatchEnabled -> 404
      [] OTHER -> IF r.valid /\ Applicable(r.algorithm) # {} THEN 200 ELSE 400

Parse(c) ==
    /\ pc[c] = "parse"
    /\ IF Refusal(req[c]) = 200
       THEN Proceed(c, PlaceAfter(c)) /\ UNCHANGED answer
       ELSE Respond(c, [status |-> Refusal(req[c])])
    /\ UNCHANGED <<cache, tokens, req, cost, degraded, pending, observers>>

\* Fault: a batch is charged by its items.
CostByItem(r) == Len(r.items)

AtLeastOne(n) == IF n = 0 THEN 1 ELSE n

\* max(1, prefix_cost): the keys of the plan an upstream would be asked for.
Cost(r) == AtLeastOne(Cardinality({k \in Plan(r) : Cacheable(k) /\ k \notin cache}))

Price(c) ==
    /\ pc[c] = "price"
    /\ cost' = [cost EXCEPT ![c] = Cost(req[c])]
    /\ priced' = [priced EXCEPT ![c] = Plan(req[c]) \cap cache]
    /\ Proceed(c, PlaceAfter(c))
    /\ UNCHANGED <<cache, tokens, req, degraded, pending, answer, refilled, charged, egress>>

Affordable(c) == tokens[Bucket(req[c])] >= cost[c]

\* The limiter lets the call pass, or is not enabled at all.
Charge(c) ==
    /\ pc[c] = "charge"
    /\ LET bucket == Bucket(req[c])
           paid == IF bucket \in Limited THEN cost[c] ELSE 0
       IN  /\ bucket \in Limited => Affordable(c)
           /\ tokens' = [tokens EXCEPT ![bucket] = @ - paid]
           /\ charged' = [charged EXCEPT ![c] = paid]
    /\ Proceed(c, PlaceAfter(c))
    /\ UNCHANGED <<cache, req, cost, degraded, pending, answer, refilled, priced, egress>>

TooMany(c) ==
    /\ pc[c] = "charge"
    /\ Bucket(req[c]) \in Limited
    /\ ~Affordable(c)
    /\ Respond(c, [status |-> 429])
    /\ UNCHANGED <<cache, tokens, req, cost, degraded, pending, observers>>

\* `except Exception`: a password that cannot be encoded, a pool that cannot
\* start a thread.  What was charged and sent stays so.
Raise(c) ==
    /\ pc[c] \in {"score", "gates", "lookup", "fetch"}
    /\ Respond(c, [status |-> 500])
    /\ UNCHANGED <<cache, tokens, req, cost, degraded, pending, observers>>

-----------------------------------------------------------------------------
(* The gates of evaluate(), which only a password passes through. *)

\* A 200 with one evaluation per digest.
Evaluated(c, evaluation) == Respond(c, [status |-> 200, of |-> evaluation])

Gated(c, verdict, limps, results) ==
    Evaluated(c, [d \in Items(req[c]) |->
                     [verdict |-> verdict, degraded |-> limps, results |-> results[d]]])

Placeholders == [d \in Digests |-> [b \in Backends |-> Placeholder(b, TRUE)]]

\* The scorer's answer: too weak ends the check, and is not degraded ...
Weak(c) ==
    /\ pc[c] = "score"
    /\ StrengthEnabled
    /\ req[c].weak
    /\ Gated(c, "weak", FALSE, Placeholders)
    /\ UNCHANGED <<cache, tokens, req, cost, degraded, pending, observers>>

\* ... good enough goes on ...
StrongEnough(c) ==
    /\ pc[c] = "score"
    /\ StrengthEnabled => ~req[c].weak
    /\ Proceed(c, "gates")
    /\ UNCHANGED <<cache, tokens, req, cost, degraded, pending, answer, observers>>

\* ... and no answer goes on too, remembered as a degradation.
ScorerFails(c) ==
    /\ pc[c] = "score"
    /\ StrengthEnabled
    /\ degraded' = [degraded EXCEPT ![c] = TRUE]
    /\ Proceed(c, "gates")
    /\ UNCHANGED <<cache, tokens, req, cost, pending, answer, observers>>

\* Fault: the digest checker is taken to agree with the plaintext gate.
HitForSure ==
    [d \in Digests |-> [b \in Backends |->
        IF b = "denylist" /\ b \in Applicable("sha1") THEN Answered(TRUE) ELSE Placeholder(b, TRUE)]]

\* _denylist_hit_results: the digest checker, which is local, answers for real.
DenylistHitResults ==
    [d \in Digests |-> [b \in Backends |->
        IF b = "denylist" /\ b \in Applicable("sha1")
        THEN Answered(d \in Corpus["denylist"])
        ELSE Placeholder(b, TRUE)]]

\* Fault: no length gate once the scorer has failed.
ShortAndScored(c) == req[c].short /\ ~degraded[c]

TooShort(c) == req[c].short

\* The length gate, and then the plaintext denylist.
Gates(c) ==
    /\ pc[c] = "gates"
    /\ CASE TooShort(c) -> Gated(c, "too_short", degraded[c], Placeholders)
         [] ~TooShort(c) /\ PlaintextGate /\ req[c].matched ->
               Gated(c, "denylisted", degraded[c], DenylistHitResults)
         [] OTHER -> Proceed(c, "lookup") /\ UNCHANGED answer
    /\ UNCHANGED <<cache, tokens, req, cost, degraded, pending, observers>>

-----------------------------------------------------------------------------
(* The lookup and the fetch: evaluate_digest and evaluate_batch. *)

LookUp(c) ==
    /\ pc[c] = "lookup"
    /\ LET missing == {k \in Plan(req[c]) : ~(Cacheable(k) /\ k \in cache)}
       IN  /\ pending' = [pending EXCEPT ![c] = missing]
           /\ egress' = [egress EXCEPT ![c] = {k \in missing : Cacheable(k)}]
    /\ Proceed(c, "fetch")
    /\ UNCHANGED <<cache, tokens, req, cost, degraded, answer, refilled, charged, priced>>

\* Fault: a scorer that failed is forgotten.
OnlyBackendsDegrade(c, results) == Degraded(results)

\* "if strength_degraded and not evaluation.degraded".
Degrades(c, results) == degraded[c] \/ Degraded(results)

Fetch(c) ==
    /\ pc[c] = "fetch"
    /\ \E answered \in SUBSET pending[c] :
          LET results == [d \in Items(req[c]) |-> [b \in Backends |->
                            ResultWhen(req[c], pending[c] \ answered, b, d)]]
          IN  /\ cache' = cache \cup {k \in answered : Cacheable(k)}
              /\ Evaluated(c, [d \in Items(req[c]) |->
                                  [verdict |-> Resolve(results[d]),
                                   degraded |-> Degrades(c, results[d]),
                                   results |-> results[d]]])
    /\ UNCHANGED <<tokens, req, cost, degraded, pending, observers>>

-----------------------------------------------------------------------------
(* What goes on beside the calls. *)

Expire(k) ==
    /\ k \in cache
    /\ cache' = cache \ {k}
    /\ UNCHANGED <<tokens, pc, req, cost, degraded, pending, answer, observers>>

Refill(n) ==
    /\ n \in Limited
    /\ tokens[n] < Capacity[n]
    /\ refilled[n] < MaxRefills
    /\ tokens' = [tokens EXCEPT ![n] = @ + 1]
    /\ refilled' = [refilled EXCEPT ![n] = @ + 1]
    /\ UNCHANGED <<cache, pc, req, cost, degraded, pending, answer, charged, priced, egress>>

Call(c) ==
    \/ Parse(c) \/ Price(c) \/ Charge(c) \/ TooMany(c)
    \/ Weak(c) \/ StrongEnough(c) \/ ScorerFails(c) \/ Gates(c)
    \/ LookUp(c) \/ Fetch(c) \/ Raise(c)

Next ==
    \/ \E c \in Calls : Call(c)
    \/ \E k \in CacheKey : Expire(k)
    \/ \E n \in Namespaces : Refill(n)

Spec == Init /\ [][Next]_vars

-----------------------------------------------------------------------------
(* What the routes promise. *)

\* A password beyond a gate has passed it, or the scorer could not say.
PassedGates(r, limps) ==
    /\ StrengthEnabled /\ r.weak => limps
    /\ ~r.short
    /\ ~(PlaintextGate /\ r.matched)

\* The evaluation e gives digest d of request r no all-clear it did not earn.
Earned(r, d, e) ==
    e.verdict = "safe" /\ ~e.degraded =>
        /\ Applicable(r.algorithm) # {}
        /\ \A b \in Applicable(r.algorithm) : d \notin Corpus[b]
        /\ r.route = "check" => PassedGates(r, FALSE)

\* The evaluation e says nothing of digest d that is not so.
Honest(d, e) ==
    \A b \in Backends :
        /\ e.results[b].hit = "hit" => b \in Enabled /\ d \in Corpus[b]
        /\ e.results[b].hit = "miss" => b \in Enabled /\ d \notin Corpus[b]

\* An all-clear that is not marked degraded was earned: a backend was there to
\* be asked, each that applies answered and does not list the digest, and a
\* password was found strong, long enough and off the plaintext denylist.
\* check, evaluate, _resolve.
SafeIsEarned ==
    \A c \in Calls : answer[c].status = 200 =>
        \A d \in Items(req[c]) : Earned(req[c], d, answer[c].of[d])

\* No result, a skipped or a gated one included, says of a backend what it did
\* not answer: a hit is one it lists, a miss one it does not.
\* _placeholder_results, _denylist_hit_results, _evaluate_from.
HonestResults ==
    \A c \in Calls : answer[c].status = 200 =>
        \A d \in Items(req[c]) : Honest(d, answer[c].of[d])

\* "it keeps the hash off the wire": a prefix only leaves the process for a
\* request that paid, is well-formed, and that no gate had a reason to reject.
HashStaysHome ==
    \A c \in Calls : egress[c] # {} =>
        /\ req[c].valid
        /\ Bucket(req[c]) \in Limited => charged[c] > 0
        /\ req[c].route = "check" => PassedGates(req[c], degraded[c])

\* A batch fetches nothing it did not pay for, but what was cached when it was
\* priced and no longer is when it is looked up.  prefix_cost, _fetch_plan.
PaidFor ==
    \A c \in Calls :
        req[c].route = "batch" /\ "batch" \in Limited =>
            Cardinality(egress[c] \ priced[c]) <= charged[c]

\* "a malformed body must not spend a token that a well-formed request from
\* the same client needs", and nothing that is refused reaches an upstream.
RefusedIsFree ==
    \A c \in Calls : answer[c].status \in {400, 404, 429} =>
        /\ egress[c] = {}
        /\ charged[c] > 0 => req[c].route = "check" /\ answer[c].status = 400

\* /check and /check/hash are one allowance: together they reach the upstreams
\* no more often than their one bucket allows.
InteractiveAllowance ==
    "policy" \in Limited =>
        Cardinality({c \in Calls : req[c].route # "batch" /\ egress[c] # {}})
            <= Capacity["policy"] + refilled["policy"]

\* An answer of the backends, and not of a gate before them: nothing in it was
\* skipped.
OfBackends(c) ==
    /\ answer[c].status = 200
    /\ \A d \in Items(req[c]) : ~answer[c].of[d].results["hibp"].skipped

\* To the backends the routes are the service that the fan-out implements:
\* whichever route a call came by, it is refused only when nobody applies, or
\* is answered in one step and for good with what the service may say, however
\* stale its price and whatever expired since.  What the limiter, a gate or an
\* exception ended has not been asked of them.
Phase ==
    [c \in Calls |->
        CASE answer[c].status = 400 /\ Applicable(req[c].algorithm) = {} -> "refused"
          [] OfBackends(c) -> "answered"
          [] OTHER -> "asked"]

Given(c) ==
    [d \in Items(req[c]) |-> [verdict |-> answer[c].of[d].verdict,
                             degraded |-> Degraded(answer[c].of[d].results)]]

Service == INSTANCE CheckService
           WITH phase <- Phase,
                request <- req,
                answer <- [c \in Calls |-> IF OfBackends(c) THEN Given(c) ELSE <<>>]

ImplementsService == Service!Spec

-----------------------------------------------------------------------------
(* What a call knows at each point of its route: the inductive invariant of *)
(* CheckFlowProofs, with TypeOK and the promises above.                     *)

\* Past its validation and its charge.
Admitted == {"score", "gates", "lookup", "fetch"}

\* Only passwords are scored and only batches are priced.
OnRoute(c) ==
    /\ pc[c] \in {"score", "gates"} => req[c].route = "check"
    /\ pc[c] = "price" => req[c].route = "batch"

\* Every call past Parse has a body that parses and a backend to ask.
Parsed(c) ==
    pc[c] \in Admitted \cup {"price"} \/ (pc[c] = "charge" /\ req[c].route # "check") =>
        req[c].valid /\ Applicable(req[c].algorithm) # {}

\* A call has paid its cost if it is past the charge, and nothing before.
Charged(c) ==
    IF pc[c] \in Admitted \/ (pc[c] = "parse" /\ req[c].route = "check")
    THEN Bucket(req[c]) \in Limited => charged[c] = cost[c]
    ELSE pc[c] # "answered" => charged[c] = 0

\* A single check costs one token.
SingleCost(c) == req[c].route # "batch" => cost[c] = 1

\* The keys a request may send to an upstream.
Upstream(r) == {k \in Plan(r) : Cacheable(k)}

\* From its price on, the cost of a batch covers what was not cached then.
Priced(c) ==
    req[c].route = "batch" /\ (pc[c] = "charge" \/ pc[c] \in Admitted) =>
        Cardinality(Upstream(req[c]) \ priced[c]) <= cost[c]

\* Past a gate, a password has passed it.
Screened(c) ==
    /\ pc[c] = "gates" => (StrengthEnabled /\ req[c].weak => degraded[c])
    /\ pc[c] \in {"lookup", "fetch"} /\ req[c].route = "check" =>
          PassedGates(req[c], degraded[c])

\* Nothing is sent before the lookup, and nothing but the plan.
Sent(c) ==
    /\ egress[c] # {} => pc[c] \in {"fetch", "answered"}
    /\ egress[c] \subseteq Upstream(req[c])
    /\ pc[c] = "fetch" => pending[c] \subseteq Plan(req[c])

AnsweredAtEnd(c) == answer[c].status # 0 => pc[c] = "answered"

\* The single checks that have paid.
Paying == {c \in Calls : req[c].route # "batch" /\ charged[c] > 0}

\* No token of the shared bucket is spent twice.
TokensAreConserved ==
    "policy" \in Limited =>
        Cardinality(Paying) + tokens["policy"] <= Capacity["policy"] + refilled["policy"]

CallInv ==
    \A c \in Calls :
        /\ OnRoute(c) /\ Parsed(c) /\ Charged(c) /\ SingleCost(c) /\ Priced(c)
        /\ Screened(c) /\ Sent(c) /\ AnsweredAtEnd(c)

=============================================================================
