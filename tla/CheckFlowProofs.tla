-------------------------- MODULE CheckFlowProofs ---------------------------
(***************************************************************************)
(* Theorems about CheckFlow, for any number of calls, any requests, any    *)
(* backends and any capacities.  The inductive invariant is Inv: what a    *)
(* call knows at each point of its route, what its answer may say, and     *)
(* where the tokens of the shared bucket are.                              *)
(***************************************************************************)
EXTENDS CheckFlow, FiniteSetTheorems, TLAPS

-----------------------------------------------------------------------------
(* Facts about plans, results and orders. *)

\* The shape of a request.
LEMMA RequestFacts ==
    ASSUME NEW r \in Requests
    PROVE  /\ r.route \in Routes
           /\ r.algorithm \in Algorithms
           /\ \A d \in Items(r) : d \in Digests /\ AlgorithmOf[d] = r.algorithm
           /\ Bucket(r) \in Namespaces
BY RequestsAssumption DEF Request, Items, Bucket, Namespaces

\* A plan is a finite set of cache keys, and holds the key of each item.
LEMMA PlanFacts ==
    ASSUME NEW r \in Requests
    PROVE  /\ Plan(r) \subseteq CacheKey
           /\ IsFiniteSet(Plan(r))
           /\ \A S \in SUBSET Plan(r) : IsFiniteSet(S) /\ Cardinality(S) \in Nat
<1>1. ASSUME NEW k \in Plan(r) PROVE k \in CacheKey
  <2>1. PICK b \in Applicable(r.algorithm), i \in DOMAIN r.items :
             k = KeyOf(b, r.algorithm, r.items[i])
    BY DEF Plan
  <2>2. b \in Backends /\ r.algorithm \in Algorithms /\ r.items[i] \in Digests
    BY EnabledAssumption, RequestsAssumption DEF Applicable, Request
  <2>3. PrefixOf[b][r.items[i]] \in Prefixes
    BY <2>2, DigestAssumption
  <2> QED BY <2>1, <2>2, <2>3 DEF KeyOf, CacheKey
<1>2. IsFiniteSet(Plan(r))
  BY FiniteAssumption
<1>3. ASSUME NEW S \in SUBSET Plan(r) PROVE IsFiniteSet(S) /\ Cardinality(S) \in Nat
  BY <1>2, FS_Subset, FS_CardinalityType
<1> QED BY <1>1, <1>2, <1>3

\* Looking a digest up in the range of its own key is exact.
LEMMA LookupIsExact ==
    ASSUME NEW r \in Requests, NEW d \in Items(r), NEW b \in Backends
    PROVE  d \in Listed(KeyOf(b, r.algorithm, d)) <=> d \in Corpus[b]
BY RequestFacts DEF Listed, KeyOf

\* What a backend's result says: nothing of a digest that is not so, and
\* nothing at all only with a failure.
LEMMA ResultFacts ==
    ASSUME NEW r \in Requests, NEW S, NEW d \in Items(r), NEW b \in Backends,
           NEW result, result = ResultWhen(r, S, b, d)
    PROVE  /\ result \in CheckResult
           /\ result.hit = "hit" => b \in Enabled /\ d \in Corpus[b]
           /\ result.hit = "miss" => b \in Enabled /\ d \notin Corpus[b]
           /\ b \in Applicable(r.algorithm) /\ d \in Corpus[b] =>
                 result = Answered(TRUE) \/ result = Unanswered(ERROR_TIMEOUT)
<1> DEFINE k == KeyOf(b, r.algorithm, d)
<1>0. b \in Applicable(r.algorithm) => b \in Enabled
  BY DEF Applicable
<1>1. CASE b \notin Enabled
  <2>1. result = Placeholder(b, FALSE)
    BY <1>0, <1>1 DEF ResultWhen
  <2>2. (b \in Enabled) = FALSE
    BY <1>1
  <2>3. result \in CheckResult /\ result.hit = "none"
    BY <2>1, <2>2 DEF Placeholder, CheckResult, Hits
  <2> QED BY <1>0, <1>1, <2>3
<1>2. CASE b \in Enabled /\ b \notin Applicable(r.algorithm)
  <2>1. result = NotApplicable
    BY <1>2 DEF ResultWhen
  <2>2. result \in CheckResult /\ result.hit = "none"
    BY <2>1 DEF NotApplicable, CheckResult, Hits
  <2> QED BY <1>2, <2>2
<1>3. CASE b \in Applicable(r.algorithm) /\ k \in S
  <2>1. result = Unanswered(ERROR_TIMEOUT)
    BY <1>0, <1>3 DEF ResultWhen
  <2>2. result \in CheckResult /\ result.hit = "none"
    BY <2>1 DEF Unanswered, CheckResult, Hits, Errors
  <2> QED BY <2>1, <2>2
<1>4. CASE b \in Applicable(r.algorithm) /\ k \notin S
  <2>1. result = Answered(d \in Listed(k))
    BY <1>0, <1>4 DEF ResultWhen
  <2>2. /\ d \in Corpus[b] => result = Answered(TRUE)
        /\ d \notin Corpus[b] => result = Answered(FALSE)
    BY <2>1, LookupIsExact DEF Answered
  <2>3. /\ Answered(TRUE) \in CheckResult /\ Answered(TRUE).hit = "hit"
        /\ Answered(FALSE) \in CheckResult /\ Answered(FALSE).hit = "miss"
    BY DEF Answered, CheckResult, Hits
  <2> QED BY <1>0, <1>4, <2>2, <2>3
<1> QED BY <1>0, <1>1, <1>2, <1>3, <1>4

\* The verdict of any results is a verdict.
LEMMA VerdictType == ASSUME NEW results PROVE Resolve(results) \in Verdict
BY DEF Resolve, WorstHit, Verdict

\* Nothing failed and nothing is listed behind a safe that is not degraded.
LEMMA SafeFacts ==
    ASSUME NEW r \in Requests, NEW S, NEW d \in Items(r),
           NEW results, results = [b \in Backends |-> ResultWhen(r, S, b, d)],
           Resolve(results) = "safe", ~Degraded(results),
           NEW b \in Applicable(r.algorithm)
    PROVE  d \notin Corpus[b]
<1>1. b \in Backends
  BY EnabledAssumption DEF Applicable
<1> SUFFICES ASSUME d \in Corpus[b] PROVE FALSE
  OBVIOUS
<1>2. results[b] = Answered(TRUE) \/ results[b] = Unanswered(ERROR_TIMEOUT)
  BY <1>1, ResultFacts
<1>3. b \notin Failed(results)
  BY DEF Degraded
<1>4. results[b] = Answered(TRUE)
  <2>1. results[b] = Unanswered(ERROR_TIMEOUT) => b \in Failed(results)
    BY <1>1 DEF Failed, Unanswered, ERROR_TIMEOUT
  <2> QED BY <1>2, <1>3, <2>1
<1>5. Hit(results, b)
  BY <1>4 DEF Hit, Answered
<1>6. WorstHit(results) = "safe"
  BY DEF Resolve
<1> QED BY <1>1, <1>5, <1>6 DEF WorstHit, Backends

\* The place after each place of each route.
LEMMA OrderFacts ==
    ASSUME TypeOK, NEW c \in Calls
    PROVE  LET route == req[c].route
           IN  /\ route = "check" /\ pc[c] = "charge" => PlaceAfter(c) = "parse"
               /\ route = "check" /\ pc[c] = "parse" => PlaceAfter(c) = "score"
               /\ route = "hash" /\ pc[c] = "parse" => PlaceAfter(c) = "charge"
               /\ route = "hash" /\ pc[c] = "charge" => PlaceAfter(c) = "lookup"
               /\ route = "batch" /\ pc[c] = "parse" => PlaceAfter(c) = "price"
               /\ route = "batch" /\ pc[c] = "price" => PlaceAfter(c) = "charge"
               /\ route = "batch" /\ pc[c] = "charge" => PlaceAfter(c) = "lookup"
<1>1. CASE req[c].route = "check"
  <2>1. Order[req[c].route] = <<"charge", "parse", "score">>
    BY <1>1 DEF Order
  <2>2. ASSUME pc[c] = "charge" PROVE PlaceAfter(c) = "parse"
    <3>1. (CHOOSE j \in 1..3 : <<"charge", "parse", "score">>[j] = "charge") = 1
      OBVIOUS
    <3> QED BY <2>1, <2>2, <3>1 DEF PlaceAfter
  <2>3. ASSUME pc[c] = "parse" PROVE PlaceAfter(c) = "score"
    <3>1. (CHOOSE j \in 1..3 : <<"charge", "parse", "score">>[j] = "parse") = 2
      OBVIOUS
    <3> QED BY <2>1, <2>3, <3>1 DEF PlaceAfter
  <2> QED BY <1>1, <2>2, <2>3
<1>2. CASE req[c].route = "hash"
  <2>1. Order[req[c].route] = <<"parse", "charge", "lookup">>
    BY <1>2 DEF Order
  <2>2. ASSUME pc[c] = "parse" PROVE PlaceAfter(c) = "charge"
    <3>1. (CHOOSE j \in 1..3 : <<"parse", "charge", "lookup">>[j] = "parse") = 1
      OBVIOUS
    <3> QED BY <2>1, <2>2, <3>1 DEF PlaceAfter
  <2>3. ASSUME pc[c] = "charge" PROVE PlaceAfter(c) = "lookup"
    <3>1. (CHOOSE j \in 1..3 : <<"parse", "charge", "lookup">>[j] = "charge") = 2
      OBVIOUS
    <3> QED BY <2>1, <2>3, <3>1 DEF PlaceAfter
  <2> QED BY <1>2, <2>2, <2>3
<1>3. CASE req[c].route = "batch"
  <2>1. Order[req[c].route] = <<"parse", "price", "charge", "lookup">>
    BY <1>3 DEF Order
  <2>2. ASSUME pc[c] = "parse" PROVE PlaceAfter(c) = "price"
    <3>1. (CHOOSE j \in 1..4 : <<"parse", "price", "charge", "lookup">>[j] = "parse") = 1
      OBVIOUS
    <3> QED BY <2>1, <2>2, <3>1 DEF PlaceAfter
  <2>3. ASSUME pc[c] = "price" PROVE PlaceAfter(c) = "charge"
    <3>1. (CHOOSE j \in 1..4 : <<"parse", "price", "charge", "lookup">>[j] = "price") = 2
      OBVIOUS
    <3> QED BY <2>1, <2>3, <3>1 DEF PlaceAfter
  <2>4. ASSUME pc[c] = "charge" PROVE PlaceAfter(c) = "lookup"
    <3>1. (CHOOSE j \in 1..4 : <<"parse", "price", "charge", "lookup">>[j] = "charge") = 3
      OBVIOUS
    <3> QED BY <2>1, <2>4, <3>1 DEF PlaceAfter
  <2> QED BY <1>3, <2>2, <2>3, <2>4
<1> QED BY <1>1, <1>2, <1>3

-----------------------------------------------------------------------------
(* Type correctness. *)

\* What an evaluation is made of, gated or fetched.
LEMMA EvaluationFacts ==
    /\ \A v \in Verdict, limps \in BOOLEAN, rs \in [Backends -> CheckResult] :
          [verdict |-> v, degraded |-> limps, results |-> rs] \in Evaluation
    /\ \A d \in Digests : Placeholders[d] \in [Backends -> CheckResult]
    /\ \A d \in Digests : DenylistHitResults[d] \in [Backends -> CheckResult]
<1>1. \A b \in Backends : Placeholder(b, TRUE) \in CheckResult
  <2> SUFFICES ASSUME NEW b \in Backends PROVE Placeholder(b, TRUE) \in CheckResult
    OBVIOUS
  <2>1. (b \in Enabled) \in BOOLEAN
    OBVIOUS
  <2> QED BY <2>1, Zenon DEF Placeholder, CheckResult, Hits
<1>2. \A b \in Backends, d \in Digests :
          Answered(d \in Corpus["denylist"]) \in CheckResult
  BY DEF Answered, CheckResult, Hits
<1>3. \A v \in Verdict, limps \in BOOLEAN, rs \in [Backends -> CheckResult] :
          [verdict |-> v, degraded |-> limps, results |-> rs] \in Evaluation
  BY DEF Evaluation
<1>4. \A d \in Digests : Placeholders[d] \in [Backends -> CheckResult]
  BY <1>1 DEF Placeholders
<1>5. \A d \in Digests : DenylistHitResults[d] \in [Backends -> CheckResult]
  BY <1>1, <1>2 DEF DenylistHitResults
<1> QED BY <1>3, <1>4, <1>5

\* A response of the right shape keeps the type of answers and places.
LEMMA RespondType ==
    ASSUME TypeOK, NEW c \in Calls, NEW response \in ResponseTo(req[c]),
           Respond(c, response), UNCHANGED req
    PROVE  /\ answer' = [x \in Calls |-> answer'[x]]
           /\ \A x \in Calls : answer'[x] \in ResponseTo(req'[x])
           /\ pc' \in [Calls -> Places]
<1>1. answer' = [answer EXCEPT ![c] = response]
  BY DEF Respond
<1>2. answer = [x \in Calls |-> answer[x]]
  BY DEF TypeOK
<1>3. answer' = [x \in Calls |-> IF x = c THEN response ELSE answer[x]]
  BY <1>1, <1>2
<1>4. \A x \in Calls : answer'[x] \in ResponseTo(req'[x])
  BY <1>3 DEF TypeOK
<1>5. answer' = [x \in Calls |-> answer'[x]]
  BY <1>3
<1>6. pc' \in [Calls -> Places]
  BY DEF Respond, Proceed, TypeOK, Places
<1> QED BY <1>4, <1>5, <1>6

\* An error is a response to any request, and so are evaluations of its items.
LEMMA ResponseFacts ==
    ASSUME NEW r \in Requests
    PROVE  /\ \A n \in Statuses \ {200} : [status |-> n] \in ResponseTo(r)
           /\ \A e \in [Items(r) -> Evaluation] : [status |-> 200, of |-> e] \in ResponseTo(r)
           /\ NoAnswer \in ResponseTo(r)
BY DEF ResponseTo, NoAnswer

\* The step of a gate is a response of the right shape.
LEMMA GatedType ==
    ASSUME TypeOK, NEW c \in Calls, NEW v \in Verdict, NEW limps \in BOOLEAN,
           NEW results, \A d \in Digests : results[d] \in [Backends -> CheckResult],
           Gated(c, v, limps, results), UNCHANGED req
    PROVE  /\ answer' = [x \in Calls |-> answer'[x]]
           /\ \A x \in Calls : answer'[x] \in ResponseTo(req'[x])
           /\ pc' \in [Calls -> Places]
<1> DEFINE e == [d \in Items(req[c]) |->
                    [verdict |-> v, degraded |-> limps, results |-> results[d]]]
<1>1. req[c] \in Requests
  BY DEF TypeOK
<1>2. e \in [Items(req[c]) -> Evaluation]
  BY <1>1, RequestFacts, EvaluationFacts
<1>3. [status |-> 200, of |-> e] \in ResponseTo(req[c])
  BY <1>1, <1>2, ResponseFacts
<1>4. Respond(c, [status |-> 200, of |-> e])
  BY DEF Gated, Evaluated
<1> QED BY <1>3, <1>4, RespondType

\* What a fetch makes of the keys that were not answered.
Outcome(r, unanswered, limps) ==
    [d \in Items(r) |->
        LET results == [b \in Backends |-> ResultWhen(r, unanswered, b, d)]
        IN  [verdict |-> Resolve(results), degraded |-> limps \/ Degraded(results),
             results |-> results]]

\* A fetch answers with an outcome, for some keys that were answered.
LEMMA FetchIsOutcome ==
    ASSUME NEW c \in Calls, Fetch(c)
    PROVE  \E answered \in SUBSET pending[c] :
              /\ cache' = cache \cup {k \in answered : Cacheable(k)}
              /\ Respond(c, [status |-> 200,
                             of |-> Outcome(req[c], pending[c] \ answered, degraded[c])])
BY DEF Fetch, Evaluated, Outcome, Degrades

\* An outcome is an evaluation of each item.
LEMMA OutcomeType ==
    ASSUME NEW r \in Requests, NEW S, NEW limps \in BOOLEAN
    PROVE  Outcome(r, S, limps) \in [Items(r) -> Evaluation]
<1> SUFFICES ASSUME NEW d \in Items(r)
             PROVE  LET results == [b \in Backends |-> ResultWhen(r, S, b, d)]
                    IN  [verdict |-> Resolve(results), degraded |-> limps \/ Degraded(results),
                         results |-> results] \in Evaluation
  BY DEF Outcome
<1> DEFINE results == [b \in Backends |-> ResultWhen(r, S, b, d)]
<1>1. results \in [Backends -> CheckResult]
  BY ResultFacts
<1>2. Resolve(results) \in Verdict
  BY VerdictType
<1>3. (limps \/ Degraded(results)) \in BOOLEAN
  OBVIOUS
<1> HIDE DEF results
<1>4. [verdict |-> Resolve(results), degraded |-> limps \/ Degraded(results),
       results |-> results] \in Evaluation
  BY <1>1, <1>2, <1>3, EvaluationFacts
<1> QED BY <1>4 DEF results

\* Where a call goes on to from a step it may take.
LEMMA PlaceFacts ==
    ASSUME TypeOK, CallInv, NEW c \in Calls
    PROVE  /\ pc[c] = "parse" =>
                 PlaceAfter(c) = CASE req[c].route = "check" -> "score"
                                   [] req[c].route = "hash" -> "charge"
                                   [] req[c].route = "batch" -> "price"
           /\ pc[c] = "price" => PlaceAfter(c) = "charge"
           /\ pc[c] = "charge" =>
                 PlaceAfter(c) = IF req[c].route = "check" THEN "parse" ELSE "lookup"
<1>1. req[c].route \in {"check", "hash", "batch"}
  BY RequestFacts DEF TypeOK, Routes
<1>2. pc[c] = "price" => req[c].route = "batch"
  BY DEF CallInv, OnRoute
<1> QED BY <1>1, <1>2, OrderFacts

\* A cost is a positive number.
LEMMA CostType == ASSUME TypeOK, NEW r \in Requests PROVE Cost(r) \in Nat \ {0}
<1>1. Cardinality({k \in Plan(r) : Cacheable(k) /\ k \notin cache}) \in Nat
  BY PlanFacts
<1> QED BY <1>1 DEF Cost, AtLeastOne

\* Every step of the routes keeps the types.
LEMMA TypeStep == TypeOK /\ CallInv /\ [Next]_vars => TypeOK'
<1> SUFFICES ASSUME TypeOK, CallInv, [Next]_vars
             PROVE  TypeOK'
  OBVIOUS
<1> USE DEF observers
<1>0. \A c \in Calls : req[c] \in Requests
  BY DEF TypeOK
<1>1. ASSUME NEW c \in Calls, Parse(c) PROVE TypeOK'
  <2>1. CASE Refusal(req[c]) = 200
    <3>1. PlaceAfter(c) \in Places
      BY <1>0, <1>1, PlaceFacts, RequestFacts DEF Parse, Places, Routes
    <3>2. Proceed(c, PlaceAfter(c)) /\ UNCHANGED answer
      BY <1>1, <2>1 DEF Parse
    <3>3. pc' \in [Calls -> Places]
      BY <3>1, <3>2 DEF Proceed, TypeOK
    <3> QED BY <1>1, <3>2, <3>3 DEF Parse, TypeOK
  <2>2. CASE Refusal(req[c]) # 200
    <3>1. Refusal(req[c]) \in Statuses \ {200}
      BY <2>2 DEF Refusal, Statuses
    <3>2. [status |-> Refusal(req[c])] \in ResponseTo(req[c])
      BY <1>0, <3>1, ResponseFacts
    <3>3. Respond(c, [status |-> Refusal(req[c])]) /\ UNCHANGED req
      BY <1>1, <2>2 DEF Parse
    <3>4. /\ answer' = [x \in Calls |-> answer'[x]]
          /\ \A x \in Calls : answer'[x] \in ResponseTo(req'[x])
          /\ pc' \in [Calls -> Places]
      BY <3>2, <3>3, RespondType
    <3> QED BY <1>1, <3>4 DEF Parse, TypeOK
  <2> QED BY <2>1, <2>2
<1>2. ASSUME NEW c \in Calls, Price(c) PROVE TypeOK'
  <2>1. PlaceAfter(c) \in Places
    BY <1>2, PlaceFacts DEF Price, Places
  <2>2. Cost(req[c]) \in Nat \ {0} /\ Plan(req[c]) \cap cache \subseteq CacheKey
    BY <1>0, CostType, PlanFacts
  <2> QED BY <1>2, <2>1, <2>2 DEF Price, Proceed, TypeOK
<1>3. ASSUME NEW c \in Calls, Charge(c) PROVE TypeOK'
  <2>1. PlaceAfter(c) \in Places
    BY <1>3, PlaceFacts DEF Charge, Places
  <2> DEFINE n == Bucket(req[c])
             paid == IF n \in Limited THEN cost[c] ELSE 0
  <2>2. n \in Namespaces /\ paid \in Nat /\ tokens[n] \in Nat /\ paid <= tokens[n]
    BY <1>0, <1>3, RequestFacts DEF Charge, Affordable, TypeOK
  <2>3. tokens' = [tokens EXCEPT ![n] = @ - paid] /\ charged' = [charged EXCEPT ![c] = paid]
    BY <1>3 DEF Charge
  <2> HIDE DEF n, paid
  <2>4. tokens' \in [Namespaces -> Nat] /\ charged' \in [Calls -> Nat]
    BY <2>2, <2>3 DEF TypeOK
  <2>5. \A m \in Namespaces : tokens'[m] <= Capacity[m]
    <3> SUFFICES ASSUME NEW m \in Namespaces PROVE tokens'[m] <= Capacity[m]
      OBVIOUS
    <3>1. Capacity[m] \in Nat /\ tokens[m] \in Nat /\ tokens[m] <= Capacity[m]
      BY ConfigAssumption DEF TypeOK
    <3>2. tokens'[m] = IF m = n THEN tokens[m] - paid ELSE tokens[m]
      BY <2>3 DEF TypeOK
    <3> QED BY <2>2, <3>1, <3>2
  <2> QED BY <1>3, <2>1, <2>4, <2>5 DEF Charge, Proceed, TypeOK
<1>4. ASSUME NEW c \in Calls, TooMany(c) PROVE TypeOK'
  <2>1. [status |-> 429] \in ResponseTo(req[c])
    BY <1>0, ResponseFacts DEF Statuses
  <2>2. /\ answer' = [x \in Calls |-> answer'[x]]
        /\ \A x \in Calls : answer'[x] \in ResponseTo(req'[x])
        /\ pc' \in [Calls -> Places]
    BY <1>4, <2>1, RespondType DEF TooMany
  <2> QED BY <1>4, <2>2 DEF TooMany, TypeOK
<1>5. ASSUME NEW c \in Calls, Raise(c) PROVE TypeOK'
  <2>1. [status |-> 500] \in ResponseTo(req[c])
    BY <1>0, ResponseFacts DEF Statuses
  <2>2. /\ answer' = [x \in Calls |-> answer'[x]]
        /\ \A x \in Calls : answer'[x] \in ResponseTo(req'[x])
        /\ pc' \in [Calls -> Places]
    BY <1>5, <2>1, RespondType DEF Raise
  <2> QED BY <1>5, <2>2 DEF Raise, TypeOK
<1>6. ASSUME NEW c \in Calls, Weak(c) PROVE TypeOK'
  <2>1. "weak" \in Verdict
    BY DEF Verdict
  <2>2. Gated(c, "weak", FALSE, Placeholders) /\ UNCHANGED req
    BY <1>6 DEF Weak
  <2>3. /\ answer' = [x \in Calls |-> answer'[x]]
        /\ \A x \in Calls : answer'[x] \in ResponseTo(req'[x])
        /\ pc' \in [Calls -> Places]
    BY <2>1, <2>2, GatedType, EvaluationFacts
  <2> QED BY <1>6, <2>3 DEF Weak, TypeOK
<1>7. ASSUME NEW c \in Calls, StrongEnough(c) PROVE TypeOK'
  BY <1>7 DEF StrongEnough, Proceed, TypeOK, Places
<1>8. ASSUME NEW c \in Calls, ScorerFails(c) PROVE TypeOK'
  BY <1>8 DEF ScorerFails, Proceed, TypeOK, Places
<1>9. ASSUME NEW c \in Calls, Gates(c) PROVE TypeOK'
  <2>0. degraded[c] \in BOOLEAN /\ {"too_short", "denylisted"} \subseteq Verdict
    BY DEF TypeOK, Verdict
  <2>1. CASE Gated(c, "too_short", degraded[c], Placeholders)
    <3>1. /\ answer' = [x \in Calls |-> answer'[x]]
          /\ \A x \in Calls : answer'[x] \in ResponseTo(req'[x])
          /\ pc' \in [Calls -> Places]
      BY <1>9, <2>0, <2>1, GatedType, EvaluationFacts DEF Gates
    <3> QED BY <1>9, <3>1 DEF Gates, TypeOK
  <2>2. CASE Gated(c, "denylisted", degraded[c], DenylistHitResults)
    <3>1. /\ answer' = [x \in Calls |-> answer'[x]]
          /\ \A x \in Calls : answer'[x] \in ResponseTo(req'[x])
          /\ pc' \in [Calls -> Places]
      BY <1>9, <2>0, <2>2, GatedType, EvaluationFacts DEF Gates
    <3> QED BY <1>9, <3>1 DEF Gates, TypeOK
  <2>3. CASE Proceed(c, "lookup") /\ UNCHANGED answer
    BY <1>9, <2>3 DEF Gates, Proceed, TypeOK, Places
  <2> QED BY <1>9, <2>1, <2>2, <2>3 DEF Gates
<1>10. ASSUME NEW c \in Calls, LookUp(c) PROVE TypeOK'
  <2>1. Plan(req[c]) \subseteq CacheKey
    BY <1>0, PlanFacts
  <2> QED BY <1>10, <2>1 DEF LookUp, Proceed, TypeOK, Places
<1>11. ASSUME NEW c \in Calls, Fetch(c) PROVE TypeOK'
  <2>1. PICK answered \in SUBSET pending[c] :
           /\ cache' = cache \cup {k \in answered : Cacheable(k)}
           /\ Respond(c, [status |-> 200,
                          of |-> Outcome(req[c], pending[c] \ answered, degraded[c])])
    BY <1>11, FetchIsOutcome
  <2>2. Outcome(req[c], pending[c] \ answered, degraded[c]) \in [Items(req[c]) -> Evaluation]
    BY <1>0, OutcomeType DEF TypeOK
  <2>3. /\ answer' = [x \in Calls |-> answer'[x]]
        /\ \A x \in Calls : answer'[x] \in ResponseTo(req'[x])
        /\ pc' \in [Calls -> Places]
    BY <1>0, <1>11, <2>1, <2>2, RespondType, ResponseFacts DEF Fetch
  <2>4. cache' \subseteq {k \in CacheKey : Cacheable(k)}
    BY <2>1 DEF TypeOK
  <2> QED BY <1>11, <2>3, <2>4 DEF Fetch, TypeOK
<1>12. ASSUME NEW k \in CacheKey, Expire(k) PROVE TypeOK'
  BY <1>12 DEF Expire, TypeOK
<1>13. ASSUME NEW n \in Namespaces, Refill(n) PROVE TypeOK'
  <2>1. tokens' = [tokens EXCEPT ![n] = @ + 1] /\ refilled' = [refilled EXCEPT ![n] = @ + 1]
    BY <1>13 DEF Refill
  <2>2. \A m \in Namespaces : Capacity[m] \in Nat /\ tokens[m] \in Nat /\ tokens[m] <= Capacity[m]
    BY ConfigAssumption DEF TypeOK
  <2>3. tokens[n] < Capacity[n]
    BY <1>13 DEF Refill
  <2>4. tokens' \in [Namespaces -> Nat]
    BY <2>1, <2>2 DEF TypeOK
  <2>5. \A m \in Namespaces : tokens'[m] <= Capacity[m]
    BY <2>1, <2>2, <2>3 DEF TypeOK
  <2>6. refilled[n] \in 0..MaxRefills /\ refilled[n] < MaxRefills /\ MaxRefills \in Nat
    BY <1>13, ConfigAssumption DEF Refill, TypeOK
  <2>7. refilled[n] + 1 \in 0..MaxRefills
    BY <2>6
  <2>8. refilled' \in [Namespaces -> 0..MaxRefills]
    BY <2>1, <2>7 DEF TypeOK
  <2> QED BY <1>13, <2>4, <2>5, <2>8 DEF Refill, TypeOK
<1>14. CASE UNCHANGED vars
  BY <1>14 DEF vars, TypeOK
<1> QED BY <1>1, <1>2, <1>3, <1>4, <1>5, <1>6, <1>7, <1>8, <1>9, <1>10,
           <1>11, <1>12, <1>13, <1>14 DEF Next, Call

-----------------------------------------------------------------------------
(* What a call knows. *)

CallOK(c) ==
    /\ OnRoute(c) /\ Parsed(c) /\ Charged(c) /\ SingleCost(c) /\ Priced(c)
    /\ Screened(c) /\ Sent(c) /\ AnsweredAtEnd(c)

\* A step of another call changes nothing of this one.
Kept(c) ==
    /\ pc'[c] = pc[c] /\ req'[c] = req[c] /\ cost'[c] = cost[c]
    /\ degraded'[c] = degraded[c] /\ pending'[c] = pending[c] /\ answer'[c] = answer[c]
    /\ charged'[c] = charged[c] /\ priced'[c] = priced[c] /\ egress'[c] = egress[c]

\* What a call knows does not depend on the steps of others.
LEMMA KeptOK == ASSUME NEW c, CallOK(c), Kept(c) PROVE CallOK(c)'
BY DEF CallOK, Kept, OnRoute, Parsed, Charged, SingleCost, Priced, Screened, Sent, AnsweredAtEnd

\* A step is one call's, or nobody's.
LEMMA StepsOfOne ==
    ASSUME TypeOK, [Next]_vars
    PROVE  \/ \E c \in Calls : Call(c) /\ \A x \in Calls \ {c} : Kept(x)
           \/ \A x \in Calls : Kept(x)
<1> USE DEF observers, Kept
<1>1. ASSUME NEW c \in Calls, Call(c) PROVE \A x \in Calls \ {c} : Kept(x)
  <2> SUFFICES ASSUME NEW x \in Calls, x # c PROVE Kept(x)
    OBVIOUS
  <2>1. ASSUME NEW response, Respond(c, response) PROVE pc'[x] = pc[x] /\ answer'[x] = answer[x]
    <3>1. answer = [y \in Calls |-> answer[y]]
      BY DEF TypeOK
    <3> QED BY <2>1, <3>1 DEF Respond, Proceed, TypeOK
  <2>2. ASSUME NEW place, Proceed(c, place) PROVE pc'[x] = pc[x]
    BY <2>2 DEF Proceed, TypeOK
  <2> HIDE DEF Kept
  <2>3. CASE Parse(c)
    BY <2>1, <2>2, <2>3 DEF Parse, Kept
  <2>4. CASE Price(c)
    BY <2>2, <2>4 DEF Price, Kept, TypeOK
  <2>5. CASE Charge(c)
    BY <2>2, <2>5 DEF Charge, Kept, TypeOK
  <2>6. CASE TooMany(c)
    BY <2>1, <2>6 DEF TooMany, Kept
  <2>7. CASE Raise(c)
    BY <2>1, <2>7 DEF Raise, Kept
  <2>8. CASE Weak(c)
    BY <2>1, <2>8 DEF Weak, Gated, Evaluated, Kept
  <2>9. CASE StrongEnough(c)
    BY <2>2, <2>9 DEF StrongEnough, Kept
  <2>10. CASE ScorerFails(c)
    BY <2>2, <2>10 DEF ScorerFails, Kept, TypeOK
  <2>11. CASE Gates(c)
    <3>1. \/ \E response : Respond(c, response)
          \/ Proceed(c, "lookup") /\ UNCHANGED answer
      BY <2>11 DEF Gates, Gated, Evaluated
    <3> QED BY <2>1, <2>2, <2>11, <3>1 DEF Gates, Kept
  <2>12. CASE LookUp(c)
    BY <2>2, <2>12 DEF LookUp, Kept, TypeOK
  <2>13. CASE Fetch(c)
    <3>1. \E response : Respond(c, response)
      BY <2>13, FetchIsOutcome
    <3> QED BY <2>1, <2>13, <3>1 DEF Fetch, Kept
  <2> QED BY <1>1, <2>3, <2>4, <2>5, <2>6, <2>7, <2>8, <2>9, <2>10, <2>11, <2>12, <2>13 DEF Call
<1>2. ASSUME NEW k \in CacheKey, Expire(k) PROVE \A x \in Calls : Kept(x)
  BY <1>2 DEF Expire
<1>3. ASSUME NEW n \in Namespaces, Refill(n) PROVE \A x \in Calls : Kept(x)
  BY <1>3 DEF Refill
<1>4. CASE UNCHANGED vars
  BY <1>4 DEF vars
<1> QED BY <1>1, <1>2, <1>3, <1>4 DEF Next

\* A step of a call leaves it knowing what its new place requires.
LEMMA OwnStep ==
    ASSUME TypeOK, CallInv, NEW c \in Calls, Call(c)
    PROVE  CallOK(c)'
<1> USE DEF observers
<1>0. /\ CallOK(c) /\ req[c] \in Requests /\ pc[c] \in Places
      /\ req[c].route \in {"check", "hash", "batch"}
      /\ charged[c] \in Nat /\ cost[c] \in Nat \ {0} /\ degraded[c] \in BOOLEAN
  BY RequestFacts DEF CallInv, CallOK, TypeOK, Routes
<1>1. ASSUME NEW place, Proceed(c, place) PROVE pc'[c] = place
  BY <1>1 DEF Proceed, TypeOK
<1>2. ASSUME NEW response, Respond(c, response)
      PROVE  pc'[c] = "answered" /\ answer'[c] = response
  <2>1. answer = [y \in Calls |-> answer[y]]
    BY DEF TypeOK
  <2> QED BY <1>2, <2>1 DEF Respond, Proceed, TypeOK
<1> USE DEF CallOK, OnRoute, Parsed, Charged, SingleCost, Priced, Screened, Sent,
            AnsweredAtEnd, Admitted, PassedGates
<1>3. ASSUME \E response : Respond(c, response),
             UNCHANGED <<req, cost, degraded, pending, charged, priced, egress>>
      PROVE  CallOK(c)'
  BY <1>0, <1>2, <1>3
<1>4. CASE Parse(c)
  <2>1. CASE Refusal(req[c]) = 200
    <3>1. req[c].valid /\ Applicable(req[c].algorithm) # {}
      BY <2>1 DEF Refusal
    <3>2. Proceed(c, PlaceAfter(c)) /\ UNCHANGED answer
      BY <1>4, <2>1 DEF Parse
    <3>3. pc'[c] = CASE req[c].route = "check" -> "score"
                     [] req[c].route = "hash" -> "charge"
                     [] req[c].route = "batch" -> "price"
      BY <1>1, <1>4, <3>2, PlaceFacts DEF Parse
    <3> QED BY <1>0, <1>4, <3>1, <3>2, <3>3 DEF Parse
  <2>2. CASE Refusal(req[c]) # 200
    BY <1>3, <1>4, <2>2 DEF Parse
  <2> QED BY <2>1, <2>2
<1>5. CASE Price(c)
  <2>1. pc'[c] = "charge" /\ req[c].route = "batch"
    BY <1>0, <1>1, <1>5, PlaceFacts DEF Price
  <2>2. cost'[c] = Cost(req[c]) /\ priced'[c] = Plan(req[c]) \cap cache
    BY <1>5 DEF Price, TypeOK
  <2>3. Upstream(req[c]) \ priced'[c] = {k \in Plan(req[c]) : Cacheable(k) /\ k \notin cache}
    BY <2>2 DEF Upstream
  <2>4. Cardinality(Upstream(req[c]) \ priced'[c]) <= cost'[c]
    <3> DEFINE n == Cardinality({k \in Plan(req[c]) : Cacheable(k) /\ k \notin cache})
    <3>1. n \in Nat
      BY <1>0, PlanFacts
    <3>2. n <= AtLeastOne(n)
      BY <3>1 DEF AtLeastOne
    <3> QED BY <2>2, <2>3, <3>2 DEF Cost
  <2> QED BY <1>0, <1>5, <2>1, <2>4 DEF Price
<1>6. CASE Charge(c)
  <2>1. pc'[c] = IF req[c].route = "check" THEN "parse" ELSE "lookup"
    BY <1>1, <1>6, PlaceFacts DEF Charge
  <2>2. Bucket(req[c]) \in Limited => charged'[c] = cost[c]
    BY <1>6 DEF Charge, TypeOK
  <2> QED BY <1>0, <1>6, <2>1, <2>2 DEF Charge
<1>7. CASE TooMany(c)
  BY <1>3, <1>7 DEF TooMany
<1>8. CASE Raise(c)
  BY <1>3, <1>8 DEF Raise
<1>9. CASE Weak(c)
  BY <1>3, <1>9 DEF Weak, Gated, Evaluated
<1>10. CASE StrongEnough(c)
  BY <1>0, <1>1, <1>10 DEF StrongEnough
<1>11. CASE ScorerFails(c)
  <2>1. degraded'[c] = TRUE
    BY <1>11 DEF ScorerFails, TypeOK
  <2> QED BY <1>0, <1>1, <1>11, <2>1 DEF ScorerFails
<1>12. CASE Gates(c)
  <2>1. CASE \E response : Respond(c, response)
    BY <1>3, <1>12, <2>1 DEF Gates
  <2>2. CASE /\ Proceed(c, "lookup") /\ UNCHANGED answer
             /\ ~req[c].short /\ ~(PlaintextGate /\ req[c].matched)
    BY <1>0, <1>1, <1>12, <2>2 DEF Gates
  <2> QED BY <1>12, <2>1, <2>2 DEF Gates, TooShort, Gated, Evaluated
<1>13. CASE LookUp(c)
  <2>1. /\ pending'[c] = {k \in Plan(req[c]) : ~(Cacheable(k) /\ k \in cache)}
        /\ egress'[c] = {k \in {j \in Plan(req[c]) : ~(Cacheable(j) /\ j \in cache)} : Cacheable(k)}
    BY <1>13 DEF LookUp, TypeOK
  <2>2. egress'[c] \subseteq Upstream(req[c]) /\ pending'[c] \subseteq Plan(req[c])
    BY <2>1 DEF Upstream
  <2> QED BY <1>0, <1>1, <1>13, <2>2 DEF LookUp
<1>14. CASE Fetch(c)
  <2>1. \E response : Respond(c, response)
    BY <1>14, FetchIsOutcome
  <2> QED BY <1>3, <1>14, <2>1 DEF Fetch
<1> QED BY <1>4, <1>5, <1>6, <1>7, <1>8, <1>9, <1>10, <1>11, <1>12, <1>13, <1>14 DEF Call

-----------------------------------------------------------------------------
(* What the answers say. *)

\* Skipped results and the denylist's own say nothing that is not so.
LEMMA GatedIsHonest ==
    ASSUME NEW d \in Digests, NEW b \in Backends
    PROVE  /\ Placeholders[d][b].hit = "none"
           /\ DenylistHitResults[d][b].hit = "hit" => b \in Enabled /\ d \in Corpus[b]
           /\ DenylistHitResults[d][b].hit = "miss" => b \in Enabled /\ d \notin Corpus[b]
<1>1. Placeholder(b, TRUE).hit = "none"
  BY DEF Placeholder
<1>2. Placeholders[d][b].hit = "none"
  BY <1>1 DEF Placeholders
<1>3. CASE b = "denylist" /\ b \in Applicable("sha1")
  <2>1. DenylistHitResults[d][b] = Answered(d \in Corpus["denylist"])
    BY <1>3 DEF DenylistHitResults
  <2>2. DenylistHitResults[d][b].hit = IF d \in Corpus["denylist"] THEN "hit" ELSE "miss"
    BY <2>1 DEF Answered
  <2> QED BY <1>2, <1>3, <2>2 DEF Applicable
<1>4. CASE ~(b = "denylist" /\ b \in Applicable("sha1"))
  <2>1. DenylistHitResults[d][b] = Placeholder(b, TRUE)
    BY <1>4 DEF DenylistHitResults
  <2> QED BY <1>1, <1>2, <2>1
<1> QED BY <1>3, <1>4

\* An answer whose evaluations are all earned and honest, or an error.
Fair(r, a) ==
    a.status = 200 => \A d \in Items(r) : Earned(r, d, a.of[d]) /\ Honest(d, a.of[d])

\* What a response is afterwards.
LEMMA RespondFacts ==
    ASSUME TypeOK, NEW c \in Calls, NEW response, Respond(c, response)
    PROVE  answer'[c] = response /\ pc'[c] = "answered"
<1>1. answer = [y \in Calls |-> answer[y]]
  BY DEF TypeOK
<1> QED BY <1>1 DEF Respond, Proceed, TypeOK

\* A gate's answer is honest, and no all-clear.
LEMMA GatedStep ==
    ASSUME TypeOK, NEW c \in Calls, NEW v \in {"weak", "too_short", "denylisted"},
           NEW limps, NEW results \in {Placeholders, DenylistHitResults},
           Gated(c, v, limps, results)
    PROVE  Fair(req[c], answer'[c]) /\ answer'[c].status = 200
<1> DEFINE e == [d \in Items(req[c]) |->
                    [verdict |-> v, degraded |-> limps, results |-> results[d]]]
<1>1. answer'[c] = [status |-> 200, of |-> e]
  BY RespondFacts DEF Gated, Evaluated
<1>2. ASSUME NEW d \in Items(req[c])
      PROVE  Earned(req[c], d, e[d]) /\ Honest(d, e[d])
  <2>1. d \in Digests
    BY RequestFacts DEF TypeOK
  <2>2. e[d].verdict = v /\ e[d].results = results[d]
    OBVIOUS
  <2> HIDE DEF e
  <2>3. Earned(req[c], d, e[d])
    BY <2>2 DEF Earned
  <2>4. \A b \in Backends :
           /\ results[d][b].hit = "hit" => b \in Enabled /\ d \in Corpus[b]
           /\ results[d][b].hit = "miss" => b \in Enabled /\ d \notin Corpus[b]
    BY <2>1, GatedIsHonest
  <2>5. Honest(d, e[d])
    BY <2>2, <2>4 DEF Honest
  <2> QED BY <2>3, <2>5
<1> HIDE DEF e
<1> QED BY <1>1, <1>2 DEF Fair

\* What was looked up is honest, and an all-clear of it is earned.
LEMMA OutcomeFacts ==
    ASSUME NEW r \in Requests, NEW S, NEW limps \in BOOLEAN, NEW d \in Items(r),
           Applicable(r.algorithm) # {},
           r.route = "check" => PassedGates(r, limps)
    PROVE  Earned(r, d, Outcome(r, S, limps)[d]) /\ Honest(d, Outcome(r, S, limps)[d])
<1> DEFINE results == [b \in Backends |-> ResultWhen(r, S, b, d)]
           e == Outcome(r, S, limps)[d]
<1>1. e = [verdict |-> Resolve(results), degraded |-> limps \/ Degraded(results),
           results |-> results]
  BY DEF Outcome
<1>2. \A b \in Backends : results[b] = ResultWhen(r, S, b, d)
  OBVIOUS
<1>3. ASSUME Resolve(results) = "safe", ~Degraded(results)
      PROVE  \A b \in Applicable(r.algorithm) : d \notin Corpus[b]
  BY <1>3, SafeFacts
<1> HIDE DEF results
<1>4. /\ e.verdict = Resolve(results) /\ e.results = results
      /\ ~e.degraded => ~limps /\ ~Degraded(results)
  <2>1. e.verdict = Resolve(results) /\ e.results = results
    BY <1>1
  <2>2. [verdict |-> Resolve(results), degraded |-> limps \/ Degraded(results),
         results |-> results].degraded = (limps \/ Degraded(results))
    BY Zenon
  <2>3. e.degraded = (limps \/ Degraded(results))
    BY <1>1, <2>2, Zenon
  <2> QED BY <2>1, <2>3, Zenon
<1> HIDE DEF e
<1>5. Honest(d, e)
  BY <1>2, <1>4, ResultFacts DEF Honest
<1>6. Earned(r, d, e)
  BY <1>3, <1>4 DEF Earned, PassedGates
<1> QED BY <1>5, <1>6 DEF e

\* So a fetch is answered fairly.
LEMMA FetchStep ==
    ASSUME TypeOK, CallInv, NEW c \in Calls, Fetch(c)
    PROVE  Fair(req[c], answer'[c]) /\ answer'[c].status = 200
<1>1. PICK answered \in SUBSET pending[c] :
         Respond(c, [status |-> 200,
                     of |-> Outcome(req[c], pending[c] \ answered, degraded[c])])
  BY FetchIsOutcome
<1>2. req[c] \in Requests /\ degraded[c] \in BOOLEAN /\ pc[c] = "fetch"
  BY DEF TypeOK, Fetch
<1>3. answer'[c] = [status |-> 200,
                    of |-> Outcome(req[c], pending[c] \ answered, degraded[c])]
  BY <1>1, RespondFacts
<1>4. /\ Applicable(req[c].algorithm) # {}
      /\ req[c].route = "check" => PassedGates(req[c], degraded[c])
  BY <1>2 DEF CallInv, Parsed, Admitted, Screened
<1> QED BY <1>2, <1>3, <1>4, OutcomeFacts DEF Fair

-----------------------------------------------------------------------------
(* What a call pays and sends. *)

\* The promises of one call, beside its answer.
Home(c) ==
    egress[c] # {} =>
        /\ req[c].valid
        /\ Bucket(req[c]) \in Limited => charged[c] > 0
        /\ req[c].route = "check" => PassedGates(req[c], degraded[c])

PaidUp(c) ==
    req[c].route = "batch" /\ "batch" \in Limited =>
        Cardinality(egress[c] \ priced[c]) <= charged[c]

Free(c) ==
    answer[c].status \in {400, 404, 429} =>
        /\ egress[c] = {}
        /\ charged[c] > 0 => req[c].route = "check" /\ answer[c].status = 400

PromisesOK(c) == Fair(req[c], answer[c]) /\ Home(c) /\ PaidUp(c) /\ Free(c)

Promises == \A c \in Calls : PromisesOK(c)

\* What a call promised is kept by the steps of others.
LEMMA KeptPromises == ASSUME NEW c, PromisesOK(c), Kept(c) PROVE PromisesOK(c)'
BY DEF PromisesOK, Kept, Fair, Home, PaidUp, Free

\* The part of a batch that was priced as missing is no more than was paid.
LEMMA PaidLookUp ==
    ASSUME TypeOK, CallInv, NEW c \in Calls, LookUp(c)
    PROVE  PaidUp(c)'
<1> SUFFICES ASSUME req[c].route = "batch", "batch" \in Limited
             PROVE  Cardinality(egress'[c] \ priced[c]) <= charged[c]
  BY DEF PaidUp, LookUp
<1> DEFINE sent == egress'[c] \ priced[c]
           missing == Upstream(req[c]) \ priced[c]
<1>1. req[c] \in Requests /\ charged[c] \in Nat /\ cost[c] \in Nat
  BY DEF TypeOK
<1>2. charged[c] = cost[c] /\ Cardinality(missing) <= cost[c]
  BY DEF CallInv, Charged, Priced, Admitted, Bucket, LookUp
<1>3. sent \subseteq missing
  BY DEF LookUp, Upstream, TypeOK
<1>4. missing \in SUBSET Plan(req[c])
  BY DEF Upstream
<1>5. IsFiniteSet(missing) /\ Cardinality(missing) \in Nat
  BY <1>1, <1>4, PlanFacts
<1>6. Cardinality(sent) \in Nat /\ Cardinality(sent) <= Cardinality(missing)
  BY <1>3, <1>5, FS_Subset, FS_CardinalityType
<1> QED BY <1>1, <1>2, <1>5, <1>6

\* Before its lookup a call has sent nothing.
LEMMA NothingSent ==
    ASSUME CallInv, NEW c \in Calls, pc[c] \notin {"fetch", "answered"}
    PROVE  egress[c] = {} /\ Cardinality(egress[c] \ priced[c]) = 0
<1>1. egress[c] = {}
  BY DEF CallInv, Sent
<1> QED BY <1>1, FS_EmptySet

\* A step of a call keeps its promises.
LEMMA OwnPromises ==
    ASSUME TypeOK, CallInv, NEW c \in Calls, PromisesOK(c), Call(c)
    PROVE  PromisesOK(c)'
<1> USE DEF observers
<1>0. /\ charged[c] \in Nat /\ cost[c] \in Nat \ {0} /\ req[c] \in Requests
      /\ pc[c] # "answered" => answer[c].status = 0
  <2>1. answer[c] \in ResponseTo(req[c])
    BY DEF TypeOK
  <2>2. answer[c].status # 0 => pc[c] = "answered"
    BY DEF CallInv, AnsweredAtEnd
  <2> QED BY <2>2 DEF TypeOK
<1>1. ASSUME UNCHANGED <<req, degraded, charged, priced, egress>>,
             Fair(req[c], answer'[c]), Free(c)'
      PROVE  PromisesOK(c)'
  BY <1>1 DEF PromisesOK, Home, PaidUp
<1>2. ASSUME UNCHANGED <<req, degraded, charged, priced, egress, answer>>
      PROVE  PromisesOK(c)'
  BY <1>2 DEF PromisesOK, Fair, Home, PaidUp, Free
<1>3. ASSUME UNCHANGED <<req, degraded, charged, priced, egress>>,
             Fair(req[c], answer'[c]), answer'[c].status \in {200, 500}
      PROVE  PromisesOK(c)'
  BY <1>1, <1>3 DEF Free
<1>4. CASE Parse(c)
  <2>1. egress[c] = {}
    BY <1>4, NothingSent DEF Parse
  <2>2. CASE Refusal(req[c]) = 200
    BY <1>2, <1>4, <2>2 DEF Parse
  <2>3. CASE Refusal(req[c]) # 200
    <3>1. answer'[c] = [status |-> Refusal(req[c])]
      BY <1>4, <2>3, RespondFacts DEF Parse
    <3>2. /\ Refusal(req[c]) \in {400, 404}
          /\ req[c].route = "check" => Refusal(req[c]) = 400
      BY <2>3 DEF Refusal
    <3>3. req[c].route # "check" => charged[c] = 0
      BY <1>4 DEF Parse, CallInv, Charged, Admitted
    <3>4. Fair(req[c], answer'[c])
      BY <3>1, <3>2 DEF Fair
    <3>5. Free(c)'
      BY <1>0, <1>4, <2>1, <3>1, <3>2, <3>3 DEF Free, Parse
    <3> QED BY <1>1, <1>4, <3>4, <3>5 DEF Parse
  <2> QED BY <2>2, <2>3
<1>5. CASE Price(c)
  <2>1. egress'[c] = {} /\ egress'[c] \ priced'[c] = {}
    BY <1>5, NothingSent DEF Price
  <2>2. PaidUp(c)'
    BY <1>0, <1>5, <2>1, FS_EmptySet DEF Price, PaidUp
  <2> QED BY <1>5, <2>1, <2>2 DEF Price, PromisesOK, Fair, Home, Free
<1>6. CASE Charge(c)
  <2>1. egress'[c] = {} /\ egress'[c] \ priced'[c] = {}
    BY <1>6, NothingSent DEF Charge
  <2>2. charged'[c] \in Nat
    BY <1>0, <1>6 DEF Charge, TypeOK
  <2>3. PaidUp(c)'
    BY <2>1, <2>2, FS_EmptySet DEF PaidUp
  <2>4. answer'[c].status = 0
    BY <1>0, <1>6 DEF Charge
  <2> QED BY <1>6, <2>1, <2>3, <2>4 DEF Charge, PromisesOK, Fair, Home, Free
<1>7. CASE TooMany(c)
  <2>1. answer'[c] = [status |-> 429]
    BY <1>7, RespondFacts DEF TooMany
  <2>2. egress[c] = {} /\ charged[c] = 0
    BY <1>7, NothingSent DEF TooMany, CallInv, Charged, Admitted
  <2>3. Fair(req[c], answer'[c]) /\ Free(c)'
    BY <1>7, <2>1, <2>2 DEF TooMany, Fair, Free
  <2> QED BY <1>1, <1>7, <2>3 DEF TooMany
<1>8. CASE Raise(c)
  <2>1. answer'[c] = [status |-> 500]
    BY <1>8, RespondFacts DEF Raise
  <2>2. Fair(req[c], answer'[c])
    BY <2>1 DEF Fair
  <2> QED BY <1>3, <1>8, <2>1, <2>2 DEF Raise
<1>9. CASE Weak(c)
  <2>1. \E limps : Gated(c, "weak", limps, Placeholders)
    BY <1>9, Zenon DEF Weak
  <2>2. Fair(req[c], answer'[c]) /\ answer'[c].status = 200
    BY <2>1, GatedStep
  <2> QED BY <1>3, <1>9, <2>2 DEF Weak
<1>10. CASE StrongEnough(c)
  BY <1>2, <1>10 DEF StrongEnough
<1>11. CASE ScorerFails(c)
  <2>1. egress[c] = {} /\ answer[c].status = 0
    BY <1>0, <1>11, NothingSent DEF ScorerFails
  <2> QED BY <1>11, <2>1 DEF ScorerFails, PromisesOK, Fair, Home, PaidUp, Free
<1>12. CASE Gates(c)
  <2>1. CASE Gated(c, "too_short", degraded[c], Placeholders)
    BY <1>3, <1>12, <2>1, GatedStep DEF Gates
  <2>2. CASE Gated(c, "denylisted", degraded[c], DenylistHitResults)
    BY <1>3, <1>12, <2>2, GatedStep DEF Gates
  <2>3. CASE UNCHANGED answer
    BY <1>2, <1>12, <2>3 DEF Gates
  <2> QED BY <1>12, <2>1, <2>2, <2>3 DEF Gates
<1>13. CASE LookUp(c)
  <2>1. PaidUp(c)'
    BY <1>13, PaidLookUp
  <2>2. Home(c)'
    <3>1. /\ req[c].valid
          /\ Bucket(req[c]) \in Limited => charged[c] = cost[c]
          /\ req[c].route = "check" => PassedGates(req[c], degraded[c])
      BY <1>13 DEF LookUp, CallInv, Parsed, Charged, Screened, Admitted
    <3> QED BY <1>0, <1>13, <3>1 DEF LookUp, Home
  <2>3. answer'[c].status = 0
    BY <1>0, <1>13 DEF LookUp
  <2> QED BY <1>13, <2>1, <2>2, <2>3 DEF LookUp, PromisesOK, Fair, Free
<1>14. CASE Fetch(c)
  BY <1>3, <1>14, FetchStep DEF Fetch
<1> QED BY <1>4, <1>5, <1>6, <1>7, <1>8, <1>9, <1>10, <1>11, <1>12, <1>13, <1>14 DEF Call

-----------------------------------------------------------------------------
(* The tokens of the shared bucket. *)

\* The single checks that have paid grow by one at most, with its token.
LEMMA ChargeConserves ==
    ASSUME TypeOK, CallInv, TokensAreConserved, NEW c \in Calls, Charge(c)
    PROVE  TokensAreConserved'
<1> SUFFICES ASSUME "policy" \in Limited
             PROVE  Cardinality(Paying') + tokens'["policy"]
                        <= Capacity["policy"] + refilled["policy"]
  BY DEF TokensAreConserved, Charge
<1> DEFINE n == Bucket(req[c])
           paid == IF n \in Limited THEN cost[c] ELSE 0
<1>1. /\ tokens' = [tokens EXCEPT ![n] = @ - paid]
      /\ charged' = [charged EXCEPT ![c] = paid]
      /\ req' = req /\ pc[c] = "charge"
  BY DEF Charge
<1>2. /\ "policy" \in Namespaces /\ tokens["policy"] \in Nat /\ Capacity["policy"] \in Nat
      /\ refilled["policy"] \in Nat
  BY ConfigAssumption DEF TypeOK, Namespaces
<1>3. IsFiniteSet(Paying) /\ Cardinality(Paying) \in Nat
  BY FiniteAssumption, FS_Subset, FS_CardinalityType DEF Paying
<1>4. Cardinality(Paying) + tokens["policy"] <= Capacity["policy"] + refilled["policy"]
  BY DEF TokensAreConserved
<1>5. CASE req[c].route = "batch"
  <2>1. tokens'["policy"] = tokens["policy"]
    BY <1>1, <1>2, <1>5 DEF Bucket, TypeOK
  <2>2. Paying' = Paying
    BY <1>1, <1>5 DEF Paying, TypeOK
  <2> QED BY <1>4, <2>1, <2>2
<1>6. CASE req[c].route # "batch"
  <2>1. paid = 1 /\ n = "policy"
    BY <1>6 DEF CallInv, SingleCost, Bucket
  <2>2. tokens'["policy"] = tokens["policy"] - 1
    BY <1>1, <1>2, <2>1 DEF TypeOK
  <2>3. charged[c] = 0
    BY <1>1 DEF CallInv, Charged, Admitted
  <2>4. Paying' = Paying \cup {c}
    BY <1>1, <1>6, <2>1 DEF Paying, TypeOK
  <2>5. Cardinality(Paying') = Cardinality(Paying) + 1
    <3>1. c \notin Paying
      BY <2>3 DEF Paying
    <3>2. Cardinality(Paying \cup {c}) = Cardinality(Paying) + 1
      BY <1>3, <3>1, FS_AddElement
    <3> QED BY <2>4, <3>2
  <2> QED BY <1>2, <1>3, <1>4, <2>2, <2>5
<1> QED BY <1>5, <1>6

\* No other step touches a token that was not given back by the clock.
LEMMA TokensStep ==
    ASSUME TypeOK, CallInv, TokensAreConserved, [Next]_vars
    PROVE  TokensAreConserved'
<1> USE DEF observers
<1>1. ASSUME UNCHANGED <<req, charged, tokens, refilled>> PROVE TokensAreConserved'
  BY <1>1 DEF TokensAreConserved, Paying
<1>2. ASSUME NEW c \in Calls, Call(c) PROVE TokensAreConserved'
  <2>1. CASE Charge(c)
    BY <2>1, ChargeConserves
  <2>2. CASE ~Charge(c)
    BY <1>1, <1>2, <2>2 DEF Call, Parse, Price, TooMany, Weak, StrongEnough, ScorerFails,
                            Gates, LookUp, Fetch, Raise
  <2> QED BY <2>1, <2>2
<1>3. ASSUME NEW n \in Namespaces, Refill(n) PROVE TokensAreConserved'
  <2>1. /\ tokens' = [tokens EXCEPT ![n] = @ + 1] /\ refilled' = [refilled EXCEPT ![n] = @ + 1]
        /\ Paying' = Paying
    BY <1>3 DEF Refill, Paying
  <2>2. /\ "policy" \in Namespaces /\ tokens["policy"] \in Nat /\ Capacity["policy"] \in Nat
        /\ refilled["policy"] \in Nat
    BY ConfigAssumption DEF TypeOK, Namespaces
  <2>3. Cardinality(Paying) \in Nat
    BY FiniteAssumption, FS_Subset, FS_CardinalityType DEF Paying
  <2>4. \/ tokens'["policy"] = tokens["policy"] /\ refilled'["policy"] = refilled["policy"]
        \/ tokens'["policy"] = tokens["policy"] + 1 /\ refilled'["policy"] = refilled["policy"] + 1
    BY <2>1, <2>2 DEF TypeOK
  <2> QED BY <2>1, <2>2, <2>3, <2>4 DEF TokensAreConserved
<1>4. ASSUME NEW k \in CacheKey, Expire(k) PROVE TokensAreConserved'
  BY <1>1, <1>4 DEF Expire
<1>5. CASE UNCHANGED vars
  BY <1>1, <1>5 DEF vars
<1> QED BY <1>2, <1>3, <1>4, <1>5 DEF Next

-----------------------------------------------------------------------------
(* The inductive invariant. *)

Inv == TypeOK /\ CallInv /\ Promises /\ TokensAreConserved

\* It holds before the first request is read.
LEMMA InitInv == Init => Inv
<1> SUFFICES ASSUME Init PROVE Inv
  OBVIOUS
<1> USE DEF Init
<1>1. ASSUME NEW c \in Calls
      PROVE  /\ req[c] \in Requests
             /\ pc[c] = IF req[c].route = "check" THEN "charge" ELSE "parse"
  <2>1. req[c] \in Requests /\ req[c].route \in {"check", "hash", "batch"}
    BY RequestFacts DEF Routes
  <2> QED BY <2>1 DEF Order
<1>2. TypeOK
  <2>1. pc \in [Calls -> Places]
    BY <1>1 DEF Places
  <2>2. \A c \in Calls : answer[c] \in ResponseTo(req[c])
    BY <1>1, ResponseFacts
  <2>3. answer = [c \in Calls |-> answer[c]]
    OBVIOUS
  <2>4. /\ tokens \in [Namespaces -> Nat] /\ refilled \in [Namespaces -> 0..MaxRefills]
        /\ \A n \in Namespaces : tokens[n] <= Capacity[n]
    BY ConfigAssumption
  <2> QED BY <2>1, <2>2, <2>3, <2>4 DEF TypeOK
<1>3. CallInv
  BY <1>1 DEF CallInv, OnRoute, Parsed, Charged, SingleCost, Priced, Screened, Sent,
              AnsweredAtEnd, Admitted, NoAnswer
<1>4. Promises
  <2> SUFFICES ASSUME NEW c \in Calls PROVE PromisesOK(c)
    BY DEF Promises
  <2>1. egress[c] = {} /\ egress[c] \ priced[c] = {} /\ answer[c].status = 0 /\ charged[c] = 0
    BY DEF NoAnswer
  <2> QED BY <2>1, FS_EmptySet DEF PromisesOK, Fair, Home, PaidUp, Free
<1>5. TokensAreConserved
  <2>1. Paying = {}
    BY DEF Paying
  <2>2. "policy" \in Namespaces
    BY DEF Namespaces
  <2> QED BY <2>1, <2>2, FS_EmptySet, ConfigAssumption DEF TokensAreConserved
<1> QED BY <1>2, <1>3, <1>4, <1>5 DEF Inv

\* And every step of the calls, the cache and the clock keeps it.
LEMMA StepInv == Inv /\ [Next]_vars => Inv'
<1> SUFFICES ASSUME Inv, [Next]_vars PROVE Inv'
  OBVIOUS
<1> USE DEF Inv
<1>1. TypeOK'
  BY TypeStep
<1>2. TokensAreConserved'
  BY TokensStep
<1>3. ASSUME NEW c \in Calls PROVE CallOK(c)' /\ PromisesOK(c)'
  <2>1. CallOK(c) /\ PromisesOK(c)
    BY DEF CallInv, CallOK, Promises
  <2>2. Kept(c) \/ Call(c)
    BY StepsOfOne
  <2> QED BY <2>1, <2>2, KeptOK, KeptPromises, OwnStep, OwnPromises
<1>4. CallInv' /\ Promises'
  BY <1>3 DEF CallInv, CallOK, Promises
<1> QED BY <1>1, <1>2, <1>4

\* Inv holds of every state the service can be in.
THEOREM Invariance == Spec => []Inv
BY InitInv, StepInv, PTL DEF Spec

\* Every variable keeps its type: in particular a bucket is never overdrawn nor
\* over-filled, and a 200 carries one evaluation per digest.
THEOREM TypeCorrect == Spec => []TypeOK
<1>1. Inv => TypeOK
  BY DEF Inv
<1> QED BY <1>1, Invariance, PTL

\* An undegraded "safe" was earned, whatever gates, backends and failures
\* there are.
THEOREM SafeIsEarnedAlways == Spec => []SafeIsEarned
<1>1. Inv => SafeIsEarned
  BY DEF Inv, Promises, PromisesOK, Fair, SafeIsEarned
<1> QED BY <1>1, Invariance, PTL

\* No result of any response claims what its backend did not say.
THEOREM HonestAlways == Spec => []HonestResults
<1>1. Inv => HonestResults
  BY DEF Inv, Promises, PromisesOK, Fair, HonestResults
<1> QED BY <1>1, Invariance, PTL

\* No prefix of a request leaves the process that did not pay, does not parse,
\* or that a gate had a reason to reject.
THEOREM HomeAlways == Spec => []HashStaysHome
<1>1. Inv => HashStaysHome
  BY DEF Inv, Promises, PromisesOK, Home, HashStaysHome
<1> QED BY <1>1, Invariance, PTL

\* A batch pays for everything it fetches that was not cached at its price.
THEOREM PaidAlways == Spec => []PaidFor
<1>1. Inv => PaidFor
  BY DEF Inv, Promises, PromisesOK, PaidUp, PaidFor
<1> QED BY <1>1, Invariance, PTL

\* What is refused sent nothing, and paid nothing but for a garbled password.
THEOREM FreeAlways == Spec => []RefusedIsFree
<1>1. Inv => RefusedIsFree
  BY DEF Inv, Promises, PromisesOK, Free, RefusedIsFree
<1> QED BY <1>1, Invariance, PTL

\* However many calls there are, on either of the routes that share it, the
\* upstreams see no more single checks than the bucket has given out.
THEOREM AllowanceAlways == Spec => []InteractiveAllowance
<1>1. Inv => InteractiveAllowance
  <2> SUFFICES ASSUME Inv, "policy" \in Limited
               PROVE  Cardinality({c \in Calls : req[c].route # "batch" /\ egress[c] # {}})
                          <= Capacity["policy"] + refilled["policy"]
    BY DEF InteractiveAllowance
  <2> DEFINE reaching == {c \in Calls : req[c].route # "batch" /\ egress[c] # {}}
  <2>1. reaching \subseteq Paying
    BY DEF Inv, Promises, PromisesOK, Home, Paying, Bucket
  <2>2. IsFiniteSet(Paying) /\ Cardinality(Paying) \in Nat
    BY FiniteAssumption, FS_Subset, FS_CardinalityType DEF Paying
  <2>3. Cardinality(reaching) \in Nat /\ Cardinality(reaching) <= Cardinality(Paying)
    BY <2>1, <2>2, FS_Subset, FS_CardinalityType
  <2>4. /\ tokens["policy"] \in Nat /\ Capacity["policy"] \in Nat /\ refilled["policy"] \in Nat
        /\ Cardinality(Paying) + tokens["policy"] <= Capacity["policy"] + refilled["policy"]
    BY ConfigAssumption DEF Inv, TypeOK, TokensAreConserved, Namespaces
  <2> QED BY <2>2, <2>3, <2>4
<1> QED BY <1>1, Invariance, PTL

-----------------------------------------------------------------------------
(* The refinement: what of the routes is the business of the backends.     *)

\* The service's words for plans, results and verdicts are this module's.
LEMMA ServiceWords ==
    /\ Service!Backends = Backends
    /\ \A a : Service!Applicable(a) = Applicable(a)
    /\ \A r : Service!Plan(r) = Plan(r)
    /\ \A r, u, b, d : Service!ResultWhen(r, u, b, d) = ResultWhen(r, u, b, d)
    /\ \A results : Service!Resolve(results) = Resolve(results)
    /\ \A results : Service!Degraded(results) = Degraded(results)
<1>1. Service!Backends = Backends
  BY DEF Backends, Service!Backends
<1>2. \A a : Service!Applicable(a) = Applicable(a)
  BY DEF Applicable, Service!Applicable
<1>3. \A b, a, d : Service!KeyOf(b, a, d) = KeyOf(b, a, d)
  BY DEF KeyOf, Service!KeyOf
<1>4. \A r : Service!Plan(r) = Plan(r)
  BY <1>2, <1>3 DEF Plan, Service!Plan
<1>5. ASSUME NEW r, NEW u, NEW b, NEW d
      PROVE  Service!ResultWhen(r, u, b, d) = ResultWhen(r, u, b, d)
  <2>1. Service!Listed(Service!KeyOf(b, r.algorithm, d)) = Listed(KeyOf(b, r.algorithm, d))
    BY <1>3 DEF Listed, Service!Listed
  <2>2. Service!Answered(d \in Service!Listed(Service!KeyOf(b, r.algorithm, d)))
           = Answered(d \in Listed(KeyOf(b, r.algorithm, d)))
    BY <2>1, Zenon DEF Answered, Service!Answered
  <2>3. Service!Unanswered(Service!ERROR_TIMEOUT) = Unanswered(ERROR_TIMEOUT)
    BY DEF Unanswered, Service!Unanswered, ERROR_TIMEOUT, Service!ERROR_TIMEOUT
  <2>4. Service!NotApplicable = NotApplicable
    BY DEF NotApplicable, Service!NotApplicable
  <2>5. Service!Placeholder(b, FALSE) = Placeholder(b, FALSE)
    BY Zenon DEF Placeholder, Service!Placeholder
  <2> QED BY <1>2, <1>3, <2>2, <2>3, <2>4, <2>5, Zenon DEF ResultWhen, Service!ResultWhen
<1>6. \A results : Service!Failed(results) = Failed(results)
  BY <1>1 DEF Failed, Service!Failed
<1>7. \A results : Service!WorstHit(results) = WorstHit(results)
  BY DEF WorstHit, Service!WorstHit, Hit, Service!Hit
<1>8. \A results : Service!Resolve(results) = Resolve(results)
  BY <1>6, <1>7 DEF Resolve, Service!Resolve
<1>9. \A results : Service!Degraded(results) = Degraded(results)
  BY <1>6, Zenon DEF Degraded, Service!Degraded
<1> QED BY <1>1, <1>2, <1>4, <1>5, <1>8, <1>9

\* What the service sees of one call.
PhaseOf(c) ==
    CASE answer[c].status = 400 /\ Applicable(req[c].algorithm) = {} -> "refused"
      [] OfBackends(c) -> "answered"
      [] OTHER -> "asked"

AnswerOf(c) == IF OfBackends(c) THEN Given(c) ELSE <<>>

SameToBackends(c) == PhaseOf(c)' = PhaseOf(c) /\ AnswerOf(c)' = AnswerOf(c)

\* It is made of the request and of the response, and of nothing else.
LEMMA SeenOfResponse ==
    ASSUME NEW c \in Calls, req'[c] = req[c], answer'[c] = answer[c]
    PROVE  SameToBackends(c)
<1>1. OfBackends(c)' = OfBackends(c)
  BY Zenon DEF OfBackends
<1>2. Given(c)' = Given(c)
  BY Zenon DEF Given
<1>3. AnswerOf(c)' = AnswerOf(c)
  BY <1>1, <1>2, Zenon DEF AnswerOf
<1>4. PhaseOf(c)' = PhaseOf(c)
  BY <1>1, Zenon DEF PhaseOf
<1> QED BY <1>3, <1>4 DEF SameToBackends

\* A response that is neither of the backends nor a refusal for want of one.
NotTheirs(c) ==
    /\ ~OfBackends(c)
    /\ answer[c].status = 400 => Applicable(req[c].algorithm) # {}

\* Such a response is no answer to the service ...
LEMMA UnaskedFacts ==
    ASSUME NEW c, NotTheirs(c)
    PROVE  PhaseOf(c) = "asked" /\ AnswerOf(c) = <<>>
BY DEF NotTheirs, PhaseOf, AnswerOf

\* ... and neither is none.
LEMMA UnansweredFacts ==
    ASSUME CallInv, NEW c \in Calls, pc[c] # "answered"
    PROVE  NotTheirs(c)
BY DEF CallInv, AnsweredAtEnd, NotTheirs, OfBackends

\* The gates skip HIBP, so what they answer is not of the backends.
LEMMA GatedIsSkipped ==
    ASSUME TypeOK, NEW c \in Calls, NEW v, NEW limps,
           NEW results \in {Placeholders, DenylistHitResults},
           Gated(c, v, limps, results), req' = req
    PROVE  NotTheirs(c)'
<1> DEFINE e == [d \in Items(req[c]) |->
                    [verdict |-> v, degraded |-> limps, results |-> results[d]]]
<1>1. answer'[c] = [status |-> 200, of |-> e]
  BY RespondFacts DEF Gated, Evaluated
<1>2. PICK d \in Items(req[c]) : d \in Digests
  <2>1. req[c] \in Requests
    BY DEF TypeOK
  <2>2. 1 \in DOMAIN req[c].items
    BY <2>1, RequestsAssumption DEF Request
  <2>3. req[c].items[1] \in Items(req[c])
    BY <2>2 DEF Items
  <2> QED BY <2>1, <2>3, RequestFacts
<1>3. results[d]["hibp"] = Placeholder("hibp", TRUE)
  <2>1. CASE results = Placeholders
    BY <1>2, <2>1 DEF Placeholders, Backends
  <2>2. CASE results = DenylistHitResults
    <3>1. "hibp" # "denylist" /\ "hibp" \in Backends
      BY DEF Backends
    <3> QED BY <1>2, <2>2, <3>1 DEF DenylistHitResults
  <2> QED BY <2>1, <2>2
<1>4. e[d].results["hibp"].skipped
  <2>1. e[d].results = results[d]
    BY <1>2
  <2> HIDE DEF e
  <2> QED BY <1>3, <2>1 DEF Placeholder
<1> HIDE DEF e
<1>5. ~OfBackends(c)'
  BY <1>1, <1>2, <1>4 DEF OfBackends
<1> QED BY <1>1, <1>5 DEF NotTheirs

\* What was fetched skips nothing, and is what the service says when the same
\* ranges fail.
LEMMA OutcomeIsGiven ==
    ASSUME NEW c \in Calls, req[c] \in Requests, NEW S, NEW limps,
           answer'[c] = [status |-> 200, of |-> Outcome(req[c], S, limps)], req' = req
    PROVE  /\ OfBackends(c)'
           /\ Given(c)' = Service!EvaluationsWhen(req[c], S)
<1> DEFINE When(d) == [b \in Backends |-> ResultWhen(req[c], S, b, d)]
           of == Outcome(req[c], S, limps)
<1>0. answer'[c].status = 200 /\ answer'[c].of = of
  OBVIOUS
<1>1. ASSUME NEW d \in Items(req[c])
      PROVE  of[d].verdict = Resolve(When(d)) /\ of[d].results = When(d)
  <2>1. of[d] = [verdict |-> Resolve(When(d)), degraded |-> limps \/ Degraded(When(d)),
                 results |-> When(d)]
    BY <1>1 DEF Outcome
  <2> HIDE DEF When, of
  <2> QED BY <2>1
<1>2. ASSUME NEW d \in Items(req[c]) PROVE ~When(d)["hibp"].skipped
  <2>1. When(d)["hibp"] = ResultWhen(req[c], S, "hibp", d)
    BY DEF Backends
  <2>2. Applicable(req[c].algorithm) \subseteq Enabled
    BY DEF Applicable
  <2>3. ResultWhen(req[c], S, "hibp", d) \in
           {Placeholder("hibp", FALSE), NotApplicable, Unanswered(ERROR_TIMEOUT),
            Answered(d \in Listed(KeyOf("hibp", req[c].algorithm, d)))}
    BY <2>2, Zenon DEF ResultWhen
  <2> HIDE DEF When
  <2> QED BY <2>1, <2>3 DEF Placeholder, NotApplicable, Unanswered, Answered
<1>3. \A d : [b \in Service!Backends |-> Service!ResultWhen(req[c], S, b, d)] = When(d)
  BY ServiceWords
<1> HIDE DEF When, of
<1>4. OfBackends(c)'
  BY <1>0, <1>1, <1>2 DEF OfBackends
<1>5. Given(c)' = [d \in Items(req[c]) |-> [verdict |-> Resolve(When(d)),
                                            degraded |-> Degraded(When(d))]]
  BY <1>0, <1>1, Zenon DEF Given
<1>6. Service!EvaluationsWhen(req[c], S)
         = [d \in Items(req[c]) |-> [verdict |-> Service!Resolve(When(d)),
                                     degraded |-> Service!Degraded(When(d))]]
  BY <1>3, Zenon DEF Service!EvaluationsWhen, Items
<1> QED BY <1>4, <1>5, <1>6, ServiceWords, Zenon

\* What a step of a call does to what the service sees of it.
LEMMA StepToBackends ==
    ASSUME Inv, NEW c \in Calls, Call(c)
    PROVE  \/ SameToBackends(c)
           \/ /\ PhaseOf(c) = "asked" /\ PhaseOf(c)' = "refused"
              /\ AnswerOf(c)' = AnswerOf(c)
              /\ Applicable(req[c].algorithm) = {}
           \/ /\ PhaseOf(c) = "asked" /\ PhaseOf(c)' = "answered"
              /\ Applicable(req[c].algorithm) # {}
              /\ \E S \in SUBSET Plan(req[c]) :
                    AnswerOf(c)' = Service!EvaluationsWhen(req[c], S)
<1> USE DEF observers, Inv
<1>0. req[c] \in Requests /\ degraded[c] \in BOOLEAN
  BY DEF TypeOK
<1>1. ASSUME UNCHANGED <<req, answer>> PROVE SameToBackends(c)
  BY <1>1, SeenOfResponse
<1>2. ASSUME pc[c] # "answered", NotTheirs(c)' PROVE SameToBackends(c)
  <2>1. PhaseOf(c) = "asked" /\ AnswerOf(c) = <<>>
    BY <1>2, UnansweredFacts, UnaskedFacts
  <2>2. PhaseOf(c)' = "asked" /\ AnswerOf(c)' = <<>>
    BY <1>2 DEF NotTheirs, PhaseOf, AnswerOf
  <2> QED BY <2>1, <2>2 DEF SameToBackends
<1>3. ASSUME NEW n \in {404, 429, 500}, Respond(c, [status |-> n]), req' = req
      PROVE  NotTheirs(c)'
  <2>1. answer'[c] = [status |-> n]
    BY <1>3, RespondFacts
  <2> QED BY <2>1 DEF NotTheirs, OfBackends
<1>4. CASE Parse(c)
  <2>1. CASE Refusal(req[c]) = 200
    BY <1>1, <1>4, <2>1 DEF Parse
  <2>2. CASE Refusal(req[c]) # 200
    <3>1. answer'[c] = [status |-> Refusal(req[c])] /\ req' = req /\ pc[c] # "answered"
      BY <1>4, <2>2, RespondFacts DEF Parse
    <3>2. CASE Refusal(req[c]) = 400 /\ Applicable(req[c].algorithm) = {}
      <4>1. PhaseOf(c) = "asked" /\ AnswerOf(c) = <<>>
        BY <3>1, UnansweredFacts, UnaskedFacts
      <4>2. PhaseOf(c)' = "refused" /\ AnswerOf(c)' = <<>>
        BY <3>1, <3>2 DEF PhaseOf, AnswerOf, OfBackends
      <4> QED BY <3>2, <4>1, <4>2
    <3>3. CASE ~(Refusal(req[c]) = 400 /\ Applicable(req[c].algorithm) = {})
      <4>1. NotTheirs(c)'
        BY <2>2, <3>1, <3>3 DEF NotTheirs, OfBackends
      <4> QED BY <1>2, <3>1, <4>1
    <3> QED BY <3>2, <3>3
  <2> QED BY <2>1, <2>2
<1>5. CASE Price(c)
  BY <1>1, <1>5 DEF Price
<1>6. CASE Charge(c)
  BY <1>1, <1>6 DEF Charge
<1>7. CASE TooMany(c)
  BY <1>2, <1>3, <1>7 DEF TooMany
<1>8. CASE Raise(c)
  BY <1>2, <1>3, <1>8 DEF Raise
<1>9. CASE Weak(c)
  <2>1. \E limps : Gated(c, "weak", limps, Placeholders)
    BY <1>9, Zenon DEF Weak
  <2>2. NotTheirs(c)'
    BY <1>9, <2>1, GatedIsSkipped DEF Weak
  <2> QED BY <1>2, <1>9, <2>2 DEF Weak
<1>10. CASE StrongEnough(c)
  BY <1>1, <1>10 DEF StrongEnough
<1>11. CASE ScorerFails(c)
  BY <1>1, <1>11 DEF ScorerFails
<1>12. CASE Gates(c)
  <2>1. CASE Gated(c, "too_short", degraded[c], Placeholders)
    BY <1>2, <1>12, <2>1, GatedIsSkipped DEF Gates
  <2>2. CASE Gated(c, "denylisted", degraded[c], DenylistHitResults)
    BY <1>2, <1>12, <2>2, GatedIsSkipped DEF Gates
  <2>3. CASE UNCHANGED answer
    BY <1>1, <1>12, <2>3 DEF Gates
  <2> QED BY <1>12, <2>1, <2>2, <2>3 DEF Gates
<1>13. CASE LookUp(c)
  BY <1>1, <1>13 DEF LookUp
<1>14. CASE Fetch(c)
  <2>1. PICK answered \in SUBSET pending[c] :
           Respond(c, [status |-> 200,
                       of |-> Outcome(req[c], pending[c] \ answered, degraded[c])])
    BY <1>14, FetchIsOutcome
  <2> DEFINE S == pending[c] \ answered
  <2>2. answer'[c] = [status |-> 200, of |-> Outcome(req[c], S, degraded[c])]
    BY <2>1, RespondFacts
  <2>3. req' = req /\ pc[c] = "fetch"
    BY <1>14 DEF Fetch
  <2>4. S \in SUBSET Plan(req[c]) /\ Applicable(req[c].algorithm) # {}
    BY <2>3 DEF CallInv, Sent, Parsed, Admitted
  <2>5. PhaseOf(c) = "asked"
    BY <2>3, UnansweredFacts, UnaskedFacts
  <2> HIDE DEF S
  <2>6. OfBackends(c)' /\ Given(c)' = Service!EvaluationsWhen(req[c], S)
    BY <1>0, <2>2, <2>3, OutcomeIsGiven
  <2>7. PhaseOf(c)' = "answered" /\ AnswerOf(c)' = Service!EvaluationsWhen(req[c], S)
    BY <2>6 DEF PhaseOf, AnswerOf, OfBackends
  <2> QED BY <2>4, <2>5, <2>7
<1> QED BY <1>4, <1>5, <1>6, <1>7, <1>8, <1>9, <1>10, <1>11, <1>12, <1>13, <1>14 DEF Call

\* By whichever route, and whatever the limiter, the gates and the cache do
\* meanwhile, what the backends answer is one step of the service that the
\* fan-out implements: the fetch of this module is sound as one step.
THEOREM RoutesAreTheService == Spec => ImplementsService
<1> DEFINE answers == [c \in Calls |-> IF OfBackends(c) THEN Given(c) ELSE <<>>]
<1>0. Phase = [c \in Calls |-> PhaseOf(c)] /\ answers = [c \in Calls |-> AnswerOf(c)]
  BY DEF Phase, PhaseOf, AnswerOf
<1>1. Init => Service!Init
  <2> SUFFICES ASSUME Init PROVE Service!Init
    OBVIOUS
  <2>1. \A c \in Calls : PhaseOf(c) = "asked" /\ AnswerOf(c) = <<>>
    BY UnaskedFacts DEF Init, NoAnswer, NotTheirs, OfBackends
  <2>2. Phase = [c \in Calls |-> "asked"] /\ answers = [c \in Calls |-> <<>>]
    BY <1>0, <2>1
  <2> QED BY <2>2 DEF Init, Service!Init, Service!NoAnswer
<1>2. ASSUME Inv, [Next]_vars
      PROVE  [Service!Next]_(Service!vars)
  <2>0. Phase' = [c \in Calls |-> PhaseOf(c)'] /\ answers' = [c \in Calls |-> AnswerOf(c)']
    BY DEF Phase, PhaseOf, AnswerOf
  <2>1. req' = req
    BY <1>2 DEF Next, Call, Parse, Price, Charge, TooMany, Weak, StrongEnough, ScorerFails,
                Gates, LookUp, Fetch, Raise, Expire, Refill, vars
  <2>2. ASSUME NEW c \in Calls, Kept(c) PROVE SameToBackends(c)
    BY <2>2, SeenOfResponse DEF Kept
  <2>3. CASE \A c \in Calls : SameToBackends(c)
    <3>1. Phase' = Phase /\ answers' = answers
      BY <1>0, <2>0, <2>3 DEF SameToBackends
    <3> QED BY <2>1, <3>1 DEF Service!vars
  <2>4. CASE \E c \in Calls : Call(c) /\ ~SameToBackends(c) /\ \A x \in Calls \ {c} : Kept(x)
    <3>1. PICK c \in Calls : Call(c) /\ ~SameToBackends(c) /\ \A x \in Calls \ {c} : Kept(x)
      BY <2>4
    <3>2. \A x \in Calls \ {c} : PhaseOf(x)' = PhaseOf(x) /\ AnswerOf(x)' = AnswerOf(x)
      BY <2>2, <3>1 DEF SameToBackends
    <3>3. /\ Phase' = [Phase EXCEPT ![c] = PhaseOf(c)']
          /\ answers' = [answers EXCEPT ![c] = AnswerOf(c)']
          /\ Phase[c] = PhaseOf(c)
      BY <1>0, <2>0, <3>2
    <3> HIDE DEF answers
    <3>4. CASE /\ PhaseOf(c) = "asked" /\ PhaseOf(c)' = "refused"
               /\ AnswerOf(c)' = AnswerOf(c)
               /\ Applicable(req[c].algorithm) = {}
      <4>1. answers' = answers
        BY <1>0, <3>3, <3>4
      <4>2. Service!Refuse(c)
        BY <2>1, <3>3, <3>4, <4>1, ServiceWords DEF Service!Refuse, answers
      <4> QED BY <4>2 DEF Service!Next
    <3>5. CASE /\ PhaseOf(c) = "asked" /\ PhaseOf(c)' = "answered"
               /\ Applicable(req[c].algorithm) # {}
               /\ \E S \in SUBSET Plan(req[c]) :
                     AnswerOf(c)' = Service!EvaluationsWhen(req[c], S)
      <4>1. PICK S \in SUBSET Service!Plan(req[c]) :
               AnswerOf(c)' = Service!EvaluationsWhen(req[c], S)
        BY <3>5, ServiceWords
      <4>2. Service!Answer(c)
        BY <2>1, <3>3, <3>5, <4>1, ServiceWords DEF Service!Answer, answers
      <4> QED BY <4>2 DEF Service!Next
    <3> QED BY <1>2, <3>1, <3>4, <3>5, StepToBackends
  <2>5. \/ \A c \in Calls : SameToBackends(c)
        \/ \E c \in Calls : Call(c) /\ ~SameToBackends(c) /\ \A x \in Calls \ {c} : Kept(x)
    <3>1. \/ \E c \in Calls : Call(c) /\ \A x \in Calls \ {c} : Kept(x)
          \/ \A x \in Calls : Kept(x)
      BY <1>2, StepsOfOne DEF Inv
    <3> QED BY <2>2, <3>1
  <2> QED BY <2>3, <2>4, <2>5
<1> QED BY <1>1, <1>2, Invariance, PTL DEF Spec, ImplementsService, Service!Spec

=============================================================================
