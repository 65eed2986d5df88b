------------------------------- MODULE FanOut -------------------------------
(***************************************************************************)
(* The fan-out of one worker process (amiweak/checks/runner.py): several   *)
(* request threads in evaluate_digest or evaluate_batch at once, each with *)
(* a thread pool of its own, all of them over one shared prefix cache.     *)
(*                                                                         *)
(* A call plans one fetch per distinct (backend, algorithm, prefix), takes *)
(* what it can from the cache, submits the rest to its pool, waits for all *)
(* of them or for the deadline, and then walks its futures in plan order:  *)
(* an answer is kept and cached, everything else becomes an error, and a   *)
(* future that has not started is cancelled.  Fetches that were running at *)
(* the deadline go on after the call has returned.                         *)
(*                                                                         *)
(* The text of a range is the set of digests it lists.  Time is abstract:  *)
(* the deadline may expire at any moment of the wait, and a cached entry   *)
(* may expire or be evicted at any moment.                                 *)
(***************************************************************************)
EXTENDS Plans, FiniteSets

CONSTANTS
    Calls,            \* calls to _fetch_plan, each by a thread of its own
    Requests,         \* the validated requests a client may send
    UpstreamOutcomes, \* the ways an upstream fetch may end
    MaxConcurrency    \* config.batch.max_concurrency

\* What the routes hand to the runner: a batch, or a single digest.
Request == [kind : {"single", "batch"}, algorithm : Algorithms, items : Seq(Digests)]

\* _parse_batch and _parse_hash: never empty, and every hash is of the
\* length of the one algorithm the request names.
ASSUME RequestsAssumption ==
    /\ Requests \subseteq Request
    /\ \A r \in Requests :
          /\ r.items # <<>>
          /\ r.kind = "single" => Len(r.items) = 1
          /\ \A i \in DOMAIN r.items : AlgorithmOf[r.items[i]] = r.algorithm

ASSUME MaxConcurrencyAssumption == MaxConcurrency \in Nat \ {0}

ASSUME OutcomesAssumption == UpstreamOutcomes \subseteq {"answered", "failed", "raised"}

-----------------------------------------------------------------------------
(* The order of the plan. *)

\* The plan is an ordered dict: checkers in the order _build_runner appends
\* them, and under each the prefixes in the order the items first need them.
CheckerPosition == [hibp |-> 1, weakpass |-> 2, denylist |-> 3]

NeededBefore(r, j, k) ==
    \E i \in DOMAIN r.items :
        /\ PrefixOf[j.backend][r.items[i]] = j.prefix
        /\ \A h \in 1..i : PrefixOf[k.backend][r.items[h]] # k.prefix

Precedes(r, j, k) ==
    \/ CheckerPosition[j.backend] < CheckerPosition[k.backend]
    \/ j.backend = k.backend /\ NeededBefore(r, j, k)

FirstOf(r, K, k) == k \in K /\ \A j \in K \ {k} : Precedes(r, k, j)

\* Fault: a single check sizes its pool as a batch does.
WorkersOfBatch(r) == MaxConcurrency

\* What evaluate_digest and evaluate_batch allow: a single check has at most one
\* prefix per backend, and a thread for each.
MaxWorkers(r) == IF r.kind = "batch" THEN MaxConcurrency ELSE Cardinality(Plan(r))

-----------------------------------------------------------------------------
(* A RangeFetch holds data or an error, never both. *)

Data(listed) == [data |-> listed, error |-> "none"]

Failure(reason) == [data |-> {}, error |-> reason]
RangeFetch == [data : SUBSET Digests, error : {"none"}] \cup [data : {{}}, error : Errors]
HasData(f) == f.error = "none"

\* What a key that is not in a dict maps to.
Absent == [data |-> {}, error |-> "absent"]
Slot == RangeFetch \cup {Absent}

\* A future, and what its fetch came to: an answer, a classified error
\* returned, or an exception raised.
FutureState == {"none", "queued", "running", "cancelled", "answered", "failed", "raised"}
Finished == {"answered", "failed", "raised"}

VARIABLES
    cache,    \* PrefixCache._entries, shared by every call
    pc,       \* where each call is
    req,      \* the request each call serves
    todo,     \* the keys the loop the call is in has yet to visit
    ranges,   \* the call's `ranges`
    future,   \* the call's futures, by key
    done,     \* what wait() returned as done
    timedOut, \* the call's timed_out_backends
    records   \* how often it handed each outcome of a backend to _record_backend

recording == <<timedOut, records>>
vars == <<cache, pc, req, todo, ranges, future, done, recording>>

Places == {"idle", "lookup", "waiting", "collect", "returned", "refused"}

TypeOK ==
    /\ cache \in [CacheKey -> Slot]
    /\ pc \in [Calls -> Places]
    /\ req \in [Calls -> Requests]
    /\ todo \in [Calls -> SUBSET CacheKey]
    /\ ranges \in [Calls -> [CacheKey -> Slot]]
    /\ future \in [Calls -> [CacheKey -> FutureState]]
    /\ done \in [Calls -> SUBSET CacheKey]
    /\ timedOut \in [Calls -> SUBSET Backends]
    /\ records \in [Calls -> [Backends -> [{"none"} \cup Errors -> Nat]]]

Init ==
    /\ cache = [k \in CacheKey |-> Absent]
    /\ pc = [c \in Calls |-> "idle"]
    /\ req \in [Calls -> Requests]
    /\ todo = [c \in Calls |-> {}]
    /\ ranges = [c \in Calls |-> [k \in CacheKey |-> Absent]]
    /\ future = [c \in Calls |-> [k \in CacheKey |-> "none"]]
    /\ done = [c \in Calls |-> {}]
    /\ timedOut = [c \in Calls |-> {}]
    /\ records = [c \in Calls |-> [b \in Backends |-> [e \in {"none"} \cup Errors |-> 0]]]

-----------------------------------------------------------------------------
(* A call, from the route to its return. *)

\* _require_supported: with no backend left to ask, the client gets a 400
\* instead of an all-clear that nothing checked.
Refuse(c) ==
    /\ pc[c] = "idle"
    /\ Applicable(req[c].algorithm) = {}
    /\ pc' = [pc EXCEPT ![c] = "refused"]
    /\ UNCHANGED <<cache, req, todo, ranges, future, done, recording>>

\* Fault: a route that does not consult supports().
BeginUnsupported(c) ==
    /\ pc[c] = "idle"
    /\ pc' = [pc EXCEPT ![c] = "lookup"]
    /\ todo' = [todo EXCEPT ![c] = Plan(req[c])]
    /\ UNCHANGED <<cache, req, ranges, future, done, recording>>

\* evaluate_digest and evaluate_batch: build the plan, start the cache loop.
Begin(c) ==
    /\ pc[c] = "idle"
    /\ Applicable(req[c].algorithm) # {}
    /\ pc' = [pc EXCEPT ![c] = "lookup"]
    /\ todo' = [todo EXCEPT ![c] = Plan(req[c])]
    /\ UNCHANGED <<cache, req, ranges, future, done, recording>>

\* The keys something is held under, and the entries without some keys: those
\* that outlived their TTL, or were evicted by another.
Full == {k \in CacheKey : cache[k] # Absent}
Without(gone, entries) == [k \in CacheKey |-> IF k \in gone THEN Absent ELSE entries[k]]

\* What the cache loop does with what the cache says.  An empty range is an
\* answer like any other: the test is `is not None`.
Take(c, k, cached) ==
    /\ pc[c] = "lookup"
    /\ FirstOf(req[c], todo[c], k)
    /\ todo' = [todo EXCEPT ![c] = @ \ {k}]
    /\ ranges' = IF HasData(cached)
                 THEN [ranges EXCEPT ![c][k] = Data(cached.data)]
                 ELSE ranges
    /\ UNCHANGED <<pc, req, future, done, recording>>

\* One turn of the loop.  Who asks may be the one who finds an entry dead.
LookUp(c, k) ==
    \/ /\ Cacheable(k)
       /\ \E gone \in SUBSET Full : cache' = Without(gone, cache)
       /\ Take(c, k, cache'[k])
    \/ /\ ~Cacheable(k)
       /\ Take(c, k, Absent)
       /\ UNCHANGED cache

Pending(c) == {k \in Plan(req[c]) : ranges[c][k] = Absent}

\* One future per missing key, submitted in plan order; then wait().  With
\* nothing missing there is no pool and no wait.
Submit(c) ==
    /\ pc[c] = "lookup"
    /\ todo[c] = {}
    /\ pc' = [pc EXCEPT ![c] = IF Pending(c) = {} THEN "returned" ELSE "waiting"]
    /\ todo' = [todo EXCEPT ![c] = Pending(c)]
    /\ future' = [future EXCEPT ![c] =
                     [k \in CacheKey |-> IF k \in Pending(c) THEN "queued" ELSE "none"]]
    /\ UNCHANGED <<cache, req, ranges, done, recording>>

FinishedOf(c) == {k \in todo[c] : future[c][k] \in Finished}

\* wait() returns because every future is done ...
AllDone(c) ==
    /\ pc[c] = "waiting"
    /\ FinishedOf(c) = todo[c]
    /\ done' = [done EXCEPT ![c] = todo[c]]
    /\ pc' = [pc EXCEPT ![c] = "collect"]
    /\ UNCHANGED <<cache, req, todo, ranges, future, recording>>

\* Fault: wait() without a timeout.
NoDeadline(c) == FALSE

\* ... or because the deadline passed, with those that were done by then.
Deadline(c) ==
    /\ pc[c] = "waiting"
    /\ FinishedOf(c) # todo[c]
    /\ done' = [done EXCEPT ![c] = FinishedOf(c)]
    /\ pc' = [pc EXCEPT ![c] = "collect"]
    /\ UNCHANGED <<cache, req, todo, ranges, future, recording>>

\* Fault: an overdue future is left to itself.
LeftQueued(c, k) == future[c][k]

\* Future.cancel(): it stops a future that has not started and no other.
CancelledState(c, k) ==
    IF future[c][k] = "queued" THEN "cancelled" ELSE future[c][k]

\* _record_backend, with the error or with none.
Recorded(c, b, error) == [records EXCEPT ![c][b][error] = @ + 1]

\* Fault: every overdue future is recorded.
OneMoreTimeout(c, b) == Recorded(c, b, ERROR_TIMEOUT)

\* "One record per backend per call".
TimeoutRecorded(c, b) ==
    IF b \in timedOut[c] THEN records ELSE Recorded(c, b, ERROR_TIMEOUT)

\* The loop over futures, for one that wait() did not return as done: a
\* timeout, even if it has finished since.
CollectTimeout(c, k) ==
    /\ pc[c] = "collect"
    /\ FirstOf(req[c], todo[c], k)
    /\ k \notin done[c]
    /\ future' = [future EXCEPT ![c][k] = CancelledState(c, k)]
    /\ ranges' = [ranges EXCEPT ![c][k] = Failure(ERROR_TIMEOUT)]
    /\ records' = TimeoutRecorded(c, k.backend)
    /\ timedOut' = [timedOut EXCEPT ![c] = @ \cup {k.backend}]
    /\ todo' = [todo EXCEPT ![c] = @ \ {k}]
    /\ UNCHANGED <<cache, pc, req, done>>

\* Fault: a failed fetch counts as an empty range.
CollectedAsEmpty(c, k) ==
    Data(IF future[c][k] = "answered" THEN Listed(k) ELSE {})

\* _collect_fetch: what a done future brought.  Only an answer is cached.
Collected(c, k) ==
    CASE future[c][k] = "answered" -> Data(Listed(k))
      [] future[c][k] = "failed" -> Failure(ERROR_NETWORK)
      [] OTHER -> Failure(ERROR_INTERNAL)

Stored(c, k) == HasData(Collected(c, k)) /\ Cacheable(k)

\* The loop over futures, for one that wait() returned as done, whatever it
\* brought: it is recorded, and kept.
Settle(c, k) ==
    /\ pc[c] = "collect"
    /\ FirstOf(req[c], todo[c], k)
    /\ k \in done[c]
    /\ ranges' = [ranges EXCEPT ![c][k] = Collected(c, k)]
    /\ records' = Recorded(c, k.backend, Collected(c, k).error)
    /\ todo' = [todo EXCEPT ![c] = @ \ {k}]
    /\ UNCHANGED <<pc, req, future, done, timedOut>>

\* What is stored makes room for itself.  A disabled cache forgets it at once.
CollectDone(c, k) ==
    /\ Settle(c, k)
    /\ IF Stored(c, k)
       THEN \E gone \in SUBSET (Full \cup {k}) :
               cache' = Without(gone, [cache EXCEPT ![k] = Collected(c, k)])
       ELSE UNCHANGED cache

\* pool.shutdown(wait=False): running fetches are left to themselves.
Return(c) ==
    /\ pc[c] = "collect"
    /\ todo[c] = {}
    /\ pc' = [pc EXCEPT ![c] = "returned"]
    /\ UNCHANGED <<cache, req, todo, ranges, future, done, recording>>

-----------------------------------------------------------------------------
(* The pool threads and the cache. *)

InFlight(c) == {k \in CacheKey : future[c][k] = "running"}
Queued(c) == {k \in CacheKey : future[c][k] = "queued"}
Submitted(c) == {k \in CacheKey : future[c][k] # "none"}

\* min(max_workers, len(pending))
PoolSize(c) ==
    LET pending == Cardinality(Submitted(c))
    IN  IF pending < MaxWorkers(req[c]) THEN pending ELSE MaxWorkers(req[c])

\* A free thread takes the oldest queued future, whatever the call is at.
Start(c, k) ==
    /\ Cardinality(InFlight(c)) < PoolSize(c)
    /\ FirstOf(req[c], Queued(c), k)
    /\ future' = [future EXCEPT ![c][k] = "running"]
    /\ UNCHANGED <<cache, pc, req, todo, ranges, done, recording>>

\* A fetch ends: with an answer, with an error it returns, or by raising.
\* DenylistChecker.fetch has only the first way out; an upstream's fetch may
\* also never end.
OutcomesOf(k) == IF k.backend = "denylist" THEN {"answered"} ELSE UpstreamOutcomes

Respond(c, k) ==
    /\ k \in InFlight(c)
    /\ \E outcome \in OutcomesOf(k) :
          future' = [future EXCEPT ![c][k] = outcome]
    /\ UNCHANGED <<cache, pc, req, todo, ranges, done, recording>>

\* An entry is past its TTL though nobody has looked: whoever does next will
\* not find it.
Forget ==
    /\ \E gone \in SUBSET Full : cache' = Without(gone, cache)
    /\ UNCHANGED <<pc, req, todo, ranges, future, done, recording>>

\* The request thread of a call, which needs nobody else once it has begun.
Thread(c) ==
    \/ Submit(c) \/ AllDone(c) \/ Deadline(c) \/ Return(c)
    \/ \E k \in todo[c] : LookUp(c, k) \/ CollectTimeout(c, k) \/ CollectDone(c, k)

\* The threads of its pool.
Pool(c) == \E k \in CacheKey : Start(c, k) \/ Respond(c, k)

Next ==
    \/ \E c \in Calls : Refuse(c) \/ Begin(c) \/ Thread(c) \/ Pool(c)
    \/ Forget

Spec == Init /\ [][Next]_vars

\* Request threads are scheduled and wait() has a timeout; nothing is assumed
\* of the upstreams, of the pool threads or of the clients.
FairSpec == Spec /\ \A c \in Calls : WF_vars(Thread(c))

-----------------------------------------------------------------------------
(* The verdict of each item, once the call has its ranges. *)

\* _evaluate_from and _ordered for one backend.
ResultOf(c, b, d) ==
    LET fetched == ranges[c][KeyOf(b, req[c].algorithm, d)]
    IN  CASE b \notin Enabled -> Placeholder(b, FALSE)
          [] b \in Enabled /\ b \notin Applicable(req[c].algorithm) -> NotApplicable
          [] b \in Applicable(req[c].algorithm) /\ HasData(fetched) -> Answered(d \in fetched.data)
          [] OTHER -> Unanswered(IF fetched = Absent THEN ERROR_INTERNAL ELSE fetched.error)

Results(c, d) == [b \in Backends |-> ResultOf(c, b, d)]

VerdictOf(c, d) == Resolve(Results(c, d))

Items(c) == {req[c].items[i] : i \in DOMAIN req[c].items}

\* The range a returned call holds for one of its items.
Held(c, b, d) == ranges[c][KeyOf(b, req[c].algorithm, d)]

-----------------------------------------------------------------------------
(* What the fan-out promises. *)

\* "safe" is only ever said of a digest that no backend able to answer is
\* known to list: each one answered and does not list it, or it is one whose
\* failure the operator lets pass, and then the reply says it is degraded.
\* And at least one backend was there to be asked.  _resolve, _collect_fetch,
\* _require_supported.
NoFalseAllClear ==
    \A c \in Calls : pc[c] = "returned" =>
        /\ Applicable(req[c].algorithm) # {}
        /\ \A d \in Items(c) : VerdictOf(c, d) = "safe" =>
              \A b \in Applicable(req[c].algorithm) :
                  \/ HasData(Held(c, b, d)) /\ d \notin Corpus[b]
                  \/ /\ ~HasData(Held(c, b, d))
                     /\ OnError[b] = "fail_open"
                     /\ Degraded(Results(c, d))

\* A hit is never lost: when a backend answered in time and lists the digest,
\* no failure of another backend turns the verdict into "safe".
NoMissedHit ==
    \A c \in Calls : pc[c] = "returned" =>
        \A d \in Items(c), b \in Applicable(req[c].algorithm) :
            LET k == KeyOf(b, req[c].algorithm, d)
            IN  /\ k \in done[c]
                /\ future[c][k] = "answered"
                /\ d \in Corpus[b]
                => VerdictOf(c, d) # "safe"

\* A digest is only called leaked, precomputed or denylisted when the backend
\* that stands behind that word lists it, whichever others have hits or fail.
NoFalseAlarm ==
    \A c \in Calls : pc[c] = "returned" =>
        \A d \in Items(c) :
            /\ VerdictOf(c, d) = "leaked" => d \in Corpus["hibp"]
            /\ VerdictOf(c, d) = "precomputed" => d \in Corpus["weakpass"]
            /\ VerdictOf(c, d) = "denylisted" => d \in Corpus["denylist"]

\* The cache is only ever filled with what a backend really answered for that
\* key: no timeout, no error, no late answer, nothing of the denylist, no
\* range of another key ("Only a success is cached").
CacheIsTruthful ==
    \A k \in CacheKey : cache[k] # Absent =>
        Cacheable(k) /\ cache[k] = Data(Listed(k))

\* The fallback of _evaluate_from for a key missing from `ranges` is dead
\* code: by the time a call returns, each key its items need has been decided.
NothingUndecided ==
    \A c \in Calls : pc[c] = "returned" =>
        \A d \in Items(c), b \in Applicable(req[c].algorithm) : Held(c, b, d) # Absent

\* In a single check no fetch waits for another: while one is queued, a thread
\* of the pool is free for it, however many hang.  So no upstream costs the
\* denylist its answer, nor another upstream its chance to make the deadline.
NoFetchHeldUp ==
    \A c \in Calls : req[c].kind = "single" /\ Queued(c) # {} =>
        Cardinality(InFlight(c)) < PoolSize(c)

\* Once a call has returned, its pool starts no further fetch: shutdown does
\* not cancel, so every future that is not done must have been cancelled.
NoFetchAfterReturn ==
    [][\A c \in Calls : pc[c] = "returned" => InFlight(c)' \subseteq InFlight(c)]_vars

\* The fetches of a backend that were done in time with some outcome, and those
\* the deadline stranded.
InTime(c, b, outcome) == {k \in done[c] : k.backend = b /\ future[c][k] = outcome}
Stranded(c, b) == {k \in Submitted(c) \ done[c] : k.backend = b}

ErrorOf == [answered |-> "none", failed |-> ERROR_NETWORK, raised |-> ERROR_INTERNAL]

\* A call that returned has told the health records of each fetch that was done
\* in time, once and as it ended, and of each backend it had to stop waiting
\* for, once: not of every future it stranded, and not of a late end, even one
\* that came before it walked its futures.
RecordsAreExact ==
    \A c \in Calls : pc[c] = "returned" =>
        \A b \in Backends :
            /\ \A outcome \in Finished :
                  records[c][b][ErrorOf[outcome]] = Cardinality(InTime(c, b, outcome))
            /\ records[c][b][ERROR_TIMEOUT] = IF Stranded(c, b) = {} THEN 0 ELSE 1

\* Every call that begins returns, even when no fetch ever ends.
CallReturns ==
    \A c \in Calls : (pc[c] = "lookup") ~> (pc[c] = "returned")

\* To a client, all of this is one step: a call is answered once, as if each of
\* its ranges had been asked for, or failed, at the moment of the answer, and
\* with the same luck for all the items that share one.  What other calls put
\* in the cache, or take out of it, never shows.
Phase ==
    [c \in Calls |-> CASE pc[c] = "refused" -> "refused"
                       [] pc[c] = "returned" -> "answered"
                       [] OTHER -> "asked"]

Given(c) ==
    [d \in Items(c) |-> [verdict |-> VerdictOf(c, d), degraded |-> Degraded(Results(c, d))]]

Service == INSTANCE CheckService
           WITH phase <- Phase,
                request <- req,
                answer <- [c \in Calls |-> IF pc[c] = "returned" THEN Given(c) ELSE <<>>]

ImplementsService == Service!Spec

-----------------------------------------------------------------------------
(* What holds at every step of every call, and makes the promises hold: the *)
(* inductive invariant of FanOutProofs, with TypeOK and CacheIsTruthful.    *)

\* Data in hand is what the backend lists under that very key.
RangesAreTrue ==
    \A c \in Calls, k \in CacheKey :
        HasData(ranges[c][k]) => ranges[c][k] = Data(Listed(k))

\* Only a call past _require_supported gets anywhere.
BegunIsSupported ==
    \A c \in Calls : pc[c] \notin {"idle", "refused"} => Applicable(req[c].algorithm) # {}

\* A key of the plan is decided, or still to come in the loop under way.
PlanProgress ==
    \A c \in Calls :
        /\ pc[c] \in {"waiting", "collect"} =>
              \A k \in Plan(req[c]) : k \in todo[c] \/ ranges[c][k] # Absent
        /\ pc[c] = "returned" => \A k \in Plan(req[c]) : ranges[c][k] # Absent

\* A future that may yet be started is one the collecting loop has still to
\* visit, and will cancel there.
QueuedIsTodo ==
    \A c \in Calls : Queued(c) # {} =>
        pc[c] \in {"waiting", "collect"} /\ Queued(c) \subseteq todo[c]

\* An answer that wait() returned as done is in `ranges`, or about to be.
AnswersAreKept ==
    \A c \in Calls, k \in CacheKey :
        k \in done[c] =>
            /\ pc[c] \in {"collect", "returned"}
            /\ future[c][k] \in Finished
            /\ future[c][k] = "answered" =>
                  HasData(ranges[c][k]) \/ (pc[c] = "collect" /\ k \in todo[c])

CallInv ==
    /\ RangesAreTrue
    /\ BegunIsSupported
    /\ PlanProgress
    /\ QueuedIsTodo
    /\ AnswersAreKept

\* The futures a call submitted are of its plan, and its collecting loop visits
\* each of them.
FuturesArePlanned ==
    \A c \in Calls :
        /\ Submitted(c) \subseteq Plan(req[c])
        /\ pc[c] \in {"idle", "refused", "lookup"} => Submitted(c) = {}
        /\ pc[c] = "waiting" => todo[c] = Submitted(c)
        /\ pc[c] = "collect" => todo[c] \subseteq Submitted(c)
        /\ pc[c] = "returned" => todo[c] = {}

\* Those it has visited, and what it did with them.
Visited(c) == Submitted(c) \ todo[c]
SettledAs(c, b, outcome) == Visited(c) \cap InTime(c, b, outcome)
GivenUp(c, b) == Visited(c) \cap Stranded(c, b)

\* At every turn of the loop the records are those of the futures visited.
RecordsSoFar ==
    \A c \in Calls, b \in Backends :
        /\ \A outcome \in Finished :
              /\ IsFiniteSet(SettledAs(c, b, outcome))
              /\ records[c][b][ErrorOf[outcome]] = Cardinality(SettledAs(c, b, outcome))
        /\ records[c][b][ERROR_TIMEOUT] = IF b \in timedOut[c] THEN 1 ELSE 0
        /\ b \in timedOut[c] <=> GivenUp(c, b) # {}

=============================================================================
