# AmIWeak in TLA+

AmIWeak answers one question, over a web page and a REST API: is this password
already known to attackers?  It asks Have I Been Pwned and weakpass for a range
of digests by prefix, an organisation denylist it keeps itself, and a Node child
for the strength of the password.  The answer is a verdict, and a wrong one costs
somebody an account: most of what is specified here is about verdicts that must
not be given.

This directory models the parts of the service where threads, processes, caches,
timeouts and failures meet.  TLC checks the models on small instances; TLAPS
proves the main safety properties for every value of the constants.

    tlc -config MCFanOutOne.cfg MCFanOut        # one run; PROJECT.json lists all
    tlapm FanOutProofs.tla                      # one module of proofs

Paths below are relative to `src/amiweak/` unless they begin with `src/`.

## Inventory

### Components

| component | source | state | operations | modelled by |
|---|---|---|---|---|
| Verdicts and precedence | `checks/base.py`, `checks/runner.py` | none | `CheckResult`, `_resolve`, `_placeholder_results` | `Verdicts`, `Plans` |
| Fan-out of a check | `checks/runner.py`, `checks/hibp.py`, `checks/weakpass.py`, `checks/denylist.py` | the call's ranges and futures, its pool | `evaluate_digest`, `evaluate_batch`, `_fetch_plan`, `_collect_fetch` | `FanOut`, `CachedFanOut` |
| Prefix cache | `cache.py` | an `OrderedDict` of entries with an expiry, under a lock | `get`, `put`, `contains`, eviction | `PrefixCache`; in `FanOut` a map that may forget, in `CheckFlow` a set of live keys |
| Strength scorer | `strength.py`, `strength_worker.js` | the child, its queue, the time of the last failure, a lock | `score`, `_ensure_running`, `_kill`, `_read_stdout`, `close` | `StrengthScorer` |
| Rate limiter | `rate_limit.py`, `store.py` | bucket rows in a shared SQLite file and in each process; next eviction | `allow`, `evict`, `spend` of three stores | `RateLimit` |
| Counters, latency, health | `metrics.py`, `store.py`, `prometheus.py`, `routes/ops.py` | counters, histograms, health rows | `record_backend`, `snapshot`, `/metrics`, `/healthz` | `HealthRecords` |
| Denylist and digest cache | `denylist.py`, `digest_store.py` | cache file, lock file; tokens and digests per worker | `Denylist.load`, `read_cache`, `write_cache` | `DigestCache` |
| HTTP API | `routes/api.py`, `app.py` | none of its own | `/check`, `/check/hash`, `/check/batch` | `CheckFlow` |
| Web client | `src/static/js/app.js` | timer, busy flag, what is on screen | input, debounced score, submit, render | `WebClient` |
| Configuration | `config.py`, `app.py` | `DEFAULTS`, the merged mapping, the frozen `Config` | `load_config`, `create_app` | `Configuration`, `Startup` |
| Session, hashing, logging, pages | `http.py`, `hashing.py`, `logging_setup.py`, `routes/web.py`, ... | none, or frozen after start | formatting and pure functions | not modelled |

### How they interact

A request thread of gunicorn runs a route of the API.  The route spends from the
rate limiter (SQLite, shared by all workers, or the process's own store when that
fails), then calls the runner.  The runner asks the scorer, which is one child per
process behind one lock; then the gates; then the prefix cache, which all threads
of the process share; then it submits fetches to a pool that lives as long as the
call, waits for them up to a deadline, and walks the futures.  Fetches still
running at the deadline outlive the call.  What each backend did goes to the
health records.  At start, each worker process loads the denylist, and they
share one file of digests under a file lock.  Before that it loads its configuration,
from a file and the environment, and wires the checkers that are enabled.  The page
scores what is typed on its own, and asks the server when the user submits.

### What is hard

* **Concurrency.**  Threads of one process over one cache, one scorer and one
  store; processes over one SQLite file, one digest file and one lock file.
* **Deadlines.**  A future may finish between `wait()` and the loop that reads it;
  a killed child's answer may come late; a clock is read before a lock is
  waited for.
* **Failure in part.**  One backend of three, the scorer, the shared store, one
  worker of many, the writing of the cache file.
* **Order.**  Gates are early returns in an order that decides what is sent out;
  the three routes charge and validate in different orders.
* **Look, then act.**  A batch is priced from the cache, charged, and looks again; a
  dictionary is read and then read again for its fingerprint; a failure reads the
  health row it is about to replace.
* **Values nobody thought of.**  A TTL of NaN is positive as far as `number <= 0` can
  tell, and then neither expires nor is alive; a section of the configuration may
  be shared with the defaults.

The hazards in `PROJECT.json` give the lines, and the property that would
catch each one going wrong, or why none does.

### What makes each part correct

* Fan-out: an all-clear is never given while a backend in hand lists the digest
  or a failure was to be closed; no failure hides a hit; nothing enters the cache
  but what a backend answered for that very key; no fetch of a single check waits
  for another; the pool goes quiet; the health records are told exactly what the
  call waited for; the call returns.
* Scorer: no password is answered with the score of another; no orphan children;
  every call returns.
* Limiter: no more is granted than the allowance of the time gone by; a refusal costs
  nothing; who rests for a period is let in.
* Digest cache: a worker serves the digests of the dictionary it read, or ends;
  one worker generates at a time; a crash leaves the old file or the new one.
* API: "safe" is earned gate by gate; no prefix leaves the process for a call
  that did not pay or that a gate had a reason to reject; what is refused is free,
  but for a malformed password, as `/check` charges first; a batch pays for what it
  fetches.
* Prefix cache: no range is served past its TTL, none is lost while it is useful, and
  to the fan-out it is a map that may forget.
* Health: a scrape counts each event once; `last_ok` was a success and `last_error`
  a failure; undisturbed, they are the last ones.
* Configuration: a process runs with what its file and environment say, key by key,
  and what the API reports as enabled is wired.
* Page: a verdict on screen is about what is in the field, and a submission ends with
  one.

## Modules

| module | models | state | actions |
|---|---|---|---|
| `Verdicts` | results and precedence, as operators | none | none |
| `Plans` | algorithms, prefixes, cache keys, and the plan of a request | none | none |
| `CheckService` | what a caller may expect of a check | `phase`, `request`, `answer` | `Refuse`, `Answer`: a call is one step |
| `FanOut` | one process: several calls to `_fetch_plan`, a pool each, one cache | `cache`, `pc`, `req`, `todo`, `ranges`, `future`, `done`, `timedOut`, `records` | the request thread (`Begin`, `LookUp`, `Submit`, `AllDone`, `Deadline`, `CollectDone`, `CollectTimeout`, `Return`), the pool (`Start`, `Respond`), the cache (`Forget`) |
| `CachedFanOut` | the same over a cache that has to be called and waited for | those of `FanOut`, and each thread's `call` and `answer` | `AskGet`, `GetReturns`, `GetTurnedAway`, `SkipCache`; `AskPut`, `PutReturns`, `PutTurnedAway`, `KeepUncached`; `CacheForgets`; the rest of `FanOut`'s |
| `StrengthScorer` | callers, lock, children, pipes, reader threads | see its VARIABLES | `Call` to `Timeout` of the caller, `Answer`, `Crash`, `TornLine`, `Read` of a child, `BackoffOver`, `Close` |
| `RateLimit` | `allow()` over the shared and the own store, with the wall clock | `clock`, rows, write lock, `nextEviction`, each thread's step | `Arrive`, `FindDue`, `PutOff`, `EvictShared`, `EvictOwn`, `Begin`, `Commit`, `StoreFails`, `Fallback`, `Tick`, `StepBack` |
| `DigestCache` | workers that load the denylist over one file | texts, `file`, `lock`, `pc`, what each worker read | `ReadEntries` to `Replace` of `load`, `Killed`, `Edit`, `Damage` |
| `CheckFlow` | the three routes, end to end, over cache and buckets | `cache`, `tokens`, `pc`, `req`, `cost`, `degraded`, `pending`, `answer` | `Parse`, `Price`, `Charge`, `TooMany`, `Weak`, `StrongEnough`, `ScorerFails`, `Gates`, `LookUp`, `Fetch`, `Raise`; `Expire`, `Refill` |
| `HealthRecords` | `record_backend` and scrapes over the shared file and the memory of each worker | `store`; each thread's place, outcome and what it has `seen`; each worker's `scrape` and `view` | `Begin`, `CountRequest`, `CountError`, `Observe`, `ReadShared`, `ReadOwn`, `SetHealth`; `BeginScrape`, the three `Select`s, `SnapshotFails`, `MergeOwn`, `Reply`; `Restart` |
| `RangeCache` | what the fan-out relies on in a cache | `held`, `call`, `answer` | `Ask`, `Put`, `Get`, `Contains`, `TurnAway`, `Forget` |
| `PrefixCache` | `get`, `contains`, `put` by threads that wait for the lock | `settings`, `clock`, `entries`, `order`, `op`, `answer` | `BeginGet`, `BeginContains`, `BeginPut`, `TurnAway`, `Find`, `Miss`, `LookFor`, `Put`, `Tick` |
| `Configuration` | `load_config`, over one or two keys of each kind | `defaults`, `shared`, `file`, `environ`, `data`, `config` | `Open`, `Merge`, `ApplyVariable`, `Build`, `Forgotten` |
| `Startup` | `create_app`: load, wire, serve | those of the two, and `wired` | `LoadFirst`, `Wire`, `Listen`, `Use` |
| `WebClient` | the page | `field`, `timer`, `busy`, `request`, `verdict`, ... | `Configure`, `Type`, `Score`, `GateWeak`, `Submit`, `Answered`, `Failed`, `Reload` |

`FanOut`, `CheckFlow` and `CheckService` are built on `Plans`, which is built on `Verdicts`.
`CheckFlow` composes the parts: the scorer is an answer or none, the limiter a bucket
of tokens, the fan-out one step in which any subset of the keys is answered in
time.  What makes each of those abstractions right is what the module of
the part shows: the scorer answers the call that asked (`OwnAnswer`), the
limiter grants no more than its allowance (`WindowAllowance`), and the fan-out
implements `CheckService`, in which a call is one step and any part of its plan may
go unanswered (`ImplementsService`).  The routes are that service too, to the backends and
their results: their fetch is sound as one step.

`CachedFanOut` composes the fan-out with the cache.  Its threads call `get` and `put` of
`RangeCache` and wait; meanwhile entries come and go.  It implements `FanOut`, where a key
is looked up or stored in one step (`ImplementsFanOut`), and with it `CheckService`; and
its threads and the cache together are a behaviour of `RangeCache` (`UsesRangeCache`), which
`PrefixCache` implements (`ImplementsRangeCache`), in a process started with any accepted
configuration.  So what the cache is shown to give is all the fan-out relies on.
`Startup` composes the configuration with the cache: whatever
is accepted, the cache has to live with, a TTL of NaN included.

`MCx` instantiates `x` for TLC and `xProofs` holds its theorems.  Definitions
under a comment that begins with "Fault:" are not part of a specification: each is
the form a plausible bug would give the definition after it, and `PROJECT.json`
pairs it with the property that catches it.  Variables marked "observer" record
what properties speak of and guard no action.

### Abstractions

* A digest, a prefix, a text and a client are model values.  Two digests of one
  backend may share a prefix, and do in the runs; a range is the set of digests it
  lists; a fingerprint is the pair of texts it is of, i.e. SHA-256 does not collide.
* Time is abstract except in `RateLimit` and `PrefixCache`: a deadline, a TTL, a backoff may expire at any
  moment.  This includes every real timing.
* In `FanOut` and `CheckFlow` an entry of the prefix cache may vanish at any moment, which
  stands for TTL and LRU and for a cache too small to keep it.
* In `FanOut` an upstream's fetch ends in an answer, in a failure or in an
  exception, or never; a retry inside `requests` is part of the fetch.  The reasons of
  failures are one or two values, as only `error is not None` decides anything.
* In `CheckFlow` all calls come from one client; buckets of different clients share
  nothing but the file, which `RateLimit` covers.  `Raise` stands for
  `except Exception` in the routes.
* In `HealthRecords` a date is the rank of an outcome, as dates are only compared for
  being there; an error is the rank of the outcome it came with.  A row without
  either is the absence of a row, which is what the merge tells apart.
* In `Configuration` nine leaves stand for all: one of each type, one nullable, and
  those that relate to another key.  A number is as large as its sign; a text is
  empty or not.
* In `WebClient` the event loop runs one handler at a time, and a reload may come between
  any two of them.
* In `RateLimit` rates are whole tokens per tick: the arithmetic is that of the code
  without its rounding.
* Nothing is modelled of gunicorn but that it starts and kills workers.

## Runs

Sizes are distinct states; each run is the complete state space of its instance, or
for a violation as far as TLC went to find it.

| run | instance | states | shows |
|---|---|---|---|
| `fan_out_one_call` | one call, three backends, two digests sharing a prefix at one backend and not at another, two pool threads | 11 327 | to its client the call is one step of `CheckService`; each fetch done in time is recorded once and as it ended, each backend given up once; no fetch of a single check waits for another and none starts after the return; the call returns |
| `fan_out_shared_cache` | `CachedFanOut`: a batch beside a single check of either algorithm; weakpass, whose ranges are cached, and the denylist, whose are not | 156 480 | no call reads from the cache what was not fetched under that very key, however it waits for the lock |
| `strength_scorer` | two threads, two calls each, three children | 92 253 | answers stay with their call, no orphans, calls return |
| `rate_limit_one_bucket` | two threads, one bucket of two, shared file and own store, lag of a tick | 3 202 323 | the allowance of a window; refusals are free; resting helps |
| `rate_limit_two_limiters` | a limiter of period 1 and one of period 3 in one file, and a clock that is set back twice | 4 293 497 | no sweep and no correction hands a bucket back early |
| `digest_cache` | two workers, two dictionaries, two rule sets, one pair refused | 169 703 | digests match tokens; one generator; the file survives; loads end |
| `digest_cache_edit` | the same with one rule set, none refused | violation | an edit of the dictionary during a load poisons the file (finding 1) |
| `check_flow` | two calls out of ten requests, three backends, a bucket of one and one of three, one refill | 71 167 | what the routes promise, see above |
| `health_records` | two threads in two workers, a backend in use and one switched off after it failed, four outcomes, two faults | 1 374 269 | a scrape counts nothing twice and misses nothing; no row is made up; undisturbed, health is exact and both endpoints agree |
| `health_race` | the same | violation | a failure takes the last success back (finding 2) |
| `startup` | every document and every variable on its own, pairs that bear on each other; then two threads, three keys and two ranges over the cache with whatever was accepted | 272 755 | the configuration is what was set; typos end the start; the cache keeps its promises for every accepted setting |
| `web_client` | a weak and a strong password, the gate as shipped, off, or higher | 1 055 | verdicts are about the field; a submission ends with one |

**Why the bounds are enough.**  Calls of the fan-out share nothing but the cache,
so two calls show every interference of one with another; more are covered by
the proofs.  Two digests are the least with which a prefix is shared and an answer
is cached for one that serves the other, and one digest of the other algorithm
is enough to mix the algorithms up.  Three cache keys over room for two make the first
eviction choose, and two ticks against TTLs of one and two let entries expire in another order
than that of their use.  Four outcomes of which two are past leave two to overlap, and two
faults let a fallback and the loss of what fell back meet.  Two pool threads and three keys make one fetch
queue.  Three children are the least for a late line of one to reach a caller of
the next while a third replaces it.  A bucket of two tokens tells a grant from a
refusal and half a refill from a whole one; a clock that goes one tick
beyond `IdlePeriods` periods of the short limiter (2 for one bucket, 1 for two limiters, 10 in the
code) lets a sweep drop a bucket.  Each
bound is a constant named in its module: `MaxCalls`, `MaxSpawns`, `MaxLag`,
`MaxClock`, `MaxSteps`, `MaxRefills`, `MaxOutcomes`, `MaxFaults`.  Threads and calls are symmetric where the cfg says so,
and only in runs without liveness.

**Assumptions that matter.**  `RateLimit` assumes that the longest wait between
reading the clock and spending fits twice into the time a bucket is kept after it must be
full again, `2 * MaxLag <= (IdlePeriods - 1) * Period + 1`: with the
code's ten periods and `busy_timeout`, that holds with room to spare.  When it
fails, a thread's own bucket may be swept while it waits, and it starts a full one.
`WindowAllowance` counts `MaxLag` ticks of refill on top of the window, because the
spend is as of the earlier reading.  A clock step back closes the
observer's window: the property is about windows measured after it.  `RestedIsAllowed`
is checked without clock steps and with costs no larger than the bucket: a request that can never pass
moves `last_seen` past a thread that is waiting, and a step back leaves the bucket
in debt.

### Fairness

* `FanOut!FairSpec`: weak fairness of each request thread.  Threads are scheduled,
  and `wait(..., timeout=)` returns at the deadline.  Nothing is assumed of upstreams,
  of pool threads or of clients: `CallReturns` holds though no fetch need
  ever end.  That is why `Deadline` belongs to the thread and not to the pool.
* `StrengthScorer!FairSpec`: weak fairness of each caller inside `score()`.  `get`
  has a timeout.  Nothing is assumed of the child or of its reader.  Every holder
  leaves the lock, and the finite number of calls keeps others from
  overtaking for ever: `threading.Lock` gives no order, so `ScoreReturns` says nothing of
  an unbounded stream of other callers.
* `DigestCache!FairSpec`: weak fairness of each loading worker, its `LOCK_TIMEOUT`
  included: a worker behind a lock is let in or gives up.  No worker need be started
  or killed, no text edited.
* `WebClient!Spec`: weak fairness of the end of a request, one way or the other: a browser
  gives up a request nobody answers.  No key, timer or reload is fair, and
  `SubmissionEnds` does not need them.
* `RateLimit`, `CheckFlow`, `HealthRecords`, `Startup` and `CheckService` have no
  fairness: they state safety only.

### Findings

1. `denylist.py:188` reads the dictionary a second time for its fingerprint.  An edit in
   between leaves a valid file in which the new dictionary's fingerprint vouches for the
   old one's digests, and every later start takes it until a text changes again.  (The rules
   are read for the fingerprint and again at generation, `:160`: an edit there leaves a file that
   starts take once the rules are restored.)
2. `metrics.py:49` says that a failure preserves `last_ok`.  It preserves the one it read:
   a success recorded between its `snapshot` and its `set_health` is written over.

Smaller disagreements met on the way, which no run is about:

* `checks/denylist.py:33` calls the denylist infallible.  Its fetch queues in the same pool as
  the upstreams' and is recorded as timed out when the deadline passes first.
* `rate_limit.py:10` says a clock step backwards briefly grants extra allowance.  The
  elapsed time is negative and is multiplied by the rate: the bucket is debited.
* A failed `snapshot` is an empty one, so a failure recorded after it also erases
  `last_ok`; the latency of a failed fetch is recorded too (`runner.py:308`), though
  `prometheus.py:158` speaks of successful lookups.
* `config.py:358` rejects what is `<= 0`, which NaN is not: a TTL of NaN is accepted, and
  then `get` serves an entry for ever while `contains` denies it.
* The shipped `ttl_seconds: 3600` is an integer, so the environment may not set a fraction,
  though `config.py:3` says that every scalar can be overridden.  A variable named
  after a section ends in a `TypeError` and not in a `ConfigError`.  A `denylist.path` of
  `""` in the file is a path, and the load of it fails.
* The timeout of a check may be unset, and an empty variable unsets it, also when the file
  holds a text there, which would have been rejected (`config.py:332`).
* A verdict that arrives within 150 ms of the last key is hidden again by the
  pending `score()` (`app.js:72`).
* The page never looks at `response.ok`, and says "safe" of a JSON object with neither
  verdict nor error (`app.js:215`).  No route sends one; what stands in front of them might.
* `store.py:377` calls a row of the shared file more recent than the process's own.  It may
  be older: the own row was written when the file failed, whenever that was.

## Proofs

| module | obligations | theorems (of the specification, for every value of the constants) |
|---|---|---|
| `FanOutProofs` | 1749 | types; `CallInv`; `NoFalseAllClear`, `NoFalseAlarm`, `NoMissedHit`; `CacheIsTruthful`; `NothingUndecided`; `NoFetchAfterReturn`; `NoFetchHeldUp`; `RecordsAreExact`; the refinement `ImplementsService`; of `CachedFanOut`: `CallsAreOwn`, and the refinements `ImplementsFanOut`, `UsesRangeCache`, `ImplementsService` |
| `StrengthScorerProofs` | 643 | types and `ScorerInv`; `OwnAnswer`; `OneRoundTrip`; `NoOrphan` |
| `RateLimitProofs` | 1315 | types; `WindowAllowance`; `RefusalIsFree`; `RestedIsAllowed`, given that the clock is not corrected and no cost exceeds the capacity |
| `DigestCacheProofs` | 243 | types; `LockInv`; `ServesItsDictionary`; `RefusedIsNeverServed`; `OldFileOrNew`; `NoIdleGeneration` |
| `CheckFlowProofs` | 1445 | types; `SafeIsEarned`; `HonestResults`; `HashStaysHome`; `PaidFor`; `RefusedIsFree`; `InteractiveAllowance`; the refinement `ImplementsService` |
| `HealthRecordsProofs` | 2072 | types; `HealthIsHonest`; `QuietHealthIsExact`; `ScrapeIsBounded` |
| `StartupProofs` | 2210 | types; of the cache on its own and of the process from its start: `ServedInTime`, `KeptWhileUseful`, the refinement `ImplementsRangeCache`; `ConfigIsWhatWasSet`; `NoTypoSurvives`; `ReportedIsWired` |
| `WebClientProofs` | 126 | types; `VerdictIsAboutField` |

They rest on the ASSUMEs of the modules (shapes of requests, ranges of constants, finite
sets of calls and plans) and on nothing else, and on the library's theorems about
finite sets and sequences.  The type theorems stand in for runs of the type invariants.

* **FanOut.**  `Inv == TypeOK /\ CacheIsTruthful /\ CallInv`.  The
  verdict is computed at the return from `ranges`, so what must be
  known is what `ranges` may hold on the way: only what the backend
  lists under that key (`RangesAreTrue`); a key of the plan is decided or still ahead in the
  loop under way (`PlanProgress`); a queued future is still to be visited and
  cancelled (`QueuedIsTodo`); an answer that was done in time is kept
  (`AnswersAreKept`).  `CacheIsTruthful` has to be in it, as `ranges` are filled from the
  cache by other calls' answers.  Lookup by prefix is exact for the digest's own key
  (`LookupIsExact`), which gives the verdicts.  The refinement maps a call that has
  returned to one that was answered with the set of its timed-out and failed keys
  as what went unanswered; every step before the return is a stutter.  What a call has
  submitted is of its plan and is what its loop visits (`FuturesArePlanned`), and at every turn
  of the loop the records are those of the futures visited so far (`RecordsSoFar`): at the
  return that is all of them (`RecordsAreExact`).  A single check plans one key per backend
  (`SinglePlan`), so its pool has a thread for each (`NoFetchHeldUp`).  In `CachedFanOut` a
  step is the matching one of `FanOut`, or none when a thread has only asked.  For a put that
  comes back to be that step, its thread must still be at the key, and its future as it
  was when the range was taken from it (`CallsAreOwn`): others leave it alone
  (`ThreadIsApart`), and no pool thread moves a future that is done (`PoolIsApart`, from `Inv`).
* **StrengthScorer.**  The lock is held by exactly the thread that is past it
  (`LockDiscipline`); the child in use reads and feeds pipes and a queue of its own
  (`OwnPipes`); whatever is in them is about the one call that waits
  (`OnlyMine`).  Without the middle one a dead child's late line could reach the
  queue of its successor: that is the mutant `OneQueue`.
* **DigestCache.**  A worker past a point knows what it read (`Knows`); it is past
  the lock only if it holds it (`LockInv`); what it has is what could be
  generated (`Good`); and as long as nobody edited during a load, fingerprint
  and digests agree, in memory and in the file (`Undisturbed`).
* **CheckFlow.**  `CallInv` says what a call knows at each place of its route:
  whether it was parsed (`Parsed`), charged (`Charged`), passed its gates (`Screened`),
  what its price covers (`Priced`) and what it has sent (`Sent`).  The order of the steps
  is data (`Order`), and `OrderFacts` turns it into the successor of each place.  A step
  is one call's or nobody's (`StepsOfOne`), so each promise is proved for the call that
  steps and kept for the others.  `InteractiveAllowance` needs a count across
  calls: paid single checks and the tokens left are never more than the capacity
  and what came back (`TokensAreConserved`).  In the refinement of `CheckService`, a call is
  answered by the step that builds its response, and what went unanswered are the keys whose
  fetch came to nothing (`OutcomeIsGiven`); what a gate ended was never asked (`GatedIsSkipped`).

* **RateLimit.**  A bucket is a line: tokens at `last_seen`, rising at the rate.  A grant
  lowers it, a refusal leaves it, a full bucket cuts it off, and a thread
  with an old clock writes another point of the same line.  `LineInv`: what the watched bucket
  granted, and its line, stay together below the `Budget` of the window.  The one way
  to break this is to forget the bucket, and `RefillTwice` shows that one that is swept
  was full so long ago that a new one is no gift, even to a thread that waited `MaxLag`.
  `RestedIsAllowed` is the other side of the line: a refusal by a bucket that can afford
  the cost when full never cuts the line, and no line is below zero (`Resting`), so a
  period at rest refills the whole bucket.
* **HealthRecords.**  Rows are only made of rows and of the outcome at hand, so what is
  honest stays so (`Inv`).  Exactness is relative to what is still being recorded: the
  shared row is that of all outcomes but the `Pending` ones (`SharedExact`), a failure
  under way has seen the last success (`SeenExact`), and `disturbed` is what makes the
  difference (`Exact`).  For the counters, what the file and a process have counted is
  never more than the outcomes no thread has yet to count (`CountsBounded`), each thread
  holding one of its own; what a scrape has read and the process's own store only
  grow towards that bound, from the floor (`ScrapeInv`).
* **PrefixCache.**  The key is the order: whatever comes after a key in it was used
  since that key was (`OrderOK`).  So when `Put` cuts the front off, each key that goes has
  `max_entries` others behind it (`LeftFacts`, `KeysCounted`), and what is gone early has
  made room (`Kept`).  `RemoveAt`, `Append` and `SubSeq` are reduced to what they do to
  "before" by `WithoutFacts`, `MovedFacts` and `CutFacts`.  This is proved of
  `CacheSpec`, the cache with any settings, and holds of the process because nothing
  touches the cache before it serves, and what was accepted is such settings (`StartupInv`).  To a thread that is turned away
  `RangeCache` shows an empty cache: one that is switched off never held anything
  (`EmptyWhenOff`).
* **Configuration and Startup.**  While the environment is applied, each leaf is what the
  file or the defaults hold, or the reading of the last variable that named it, and that
  reading went by the type of the value it replaced, whatever that was (`LeafOK`,
  `ApplyInv`).  This says too little by itself: a value in the file may
  have the wrong type, and the reading would then not be what the operator meant.  But
  the type of an acceptable value decides how its variable was read (`AcceptableReadings`),
  so what `_build` lets through was meant.  For the typos: a section that was named as a leaf
  is a mapping no more (`SectionOK`), and in every section `_build` asks for a leaf
  (`EveryLeafIsLookedAt`), so the load ends there.
* **WebClient.**  While a request is under way the field is read-only and holds what was
  sent (`FieldHeld`), so an answer is about the field; a key arms the timer, and the timer
  hides the verdict.

Each inductive invariant was checked by TLC before it was proved, and so were the
refinements no run is about: `ImplementsFanOut`, `UsesRangeCache` and `CallsAreOwn` on the instance of
`fan_out_shared_cache`, and `CheckFlow!ImplementsService` on that of `check_flow`.  (For
`UsesRangeCache`, TLC needs model values in place of the strings among the replies, as it
does not compare a string with a range.)

**Only model-checked.**  The liveness properties (`CallReturns`, `ScoreReturns`, `LoadEnds`,
`SubmissionEnds`), as TLAPS does not reason about fairness and ENABLED.

**Not modelled.**  Hashing and
algorithms (pure functions of one value), the `requests` session, logging and redaction (formatting),
pages and OpenAPI text.  Of the counters: the buckets of the latency histogram, the
counters of the cache and of responses and `store_errors_total`, each of which is one increment, and the text
of the exposition.  Of the configuration: the keys that are checked by themselves.  Of the
page: layout, and `docs.js`.

## Plan

Done, in this order: `Verdicts` and `FanOut`; `StrengthScorer`; `RateLimit`; `DigestCache`; `Plans`
and `CheckFlow`; `HealthRecords`; `CheckService` and the refinement; `PrefixCache`, `RangeCache`,
`Configuration` and `Startup`; `WebClient`; the proofs of the safety properties of all of them;
`CheckFlow` as a `CheckService`; `CachedFanOut`.

What is left: the respawn of a child that exits by itself (`strength.py:99`).  Each caller may
pay the full price of a start, which no property speaks of.
