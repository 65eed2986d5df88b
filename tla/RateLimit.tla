----------------------------- MODULE RateLimit ------------------------------
(***************************************************************************)
(* The rate limiter (amiweak/rate_limit.py) over its stores                *)
(* (amiweak/store.py): request threads of several worker processes spend   *)
(* from token buckets in one shared SQLite file, and fall back on a store  *)
(* of their own process whenever the file lets them down.  The two         *)
(* limiters, /check's and /check/batch's, share the stores and are told    *)
(* apart by a namespace.  `state.path: null` is the deployment whose       *)
(* shared store always fails.                                              *)
(*                                                                         *)
(* Time is the wall clock, in ticks.  A thread reads it before it waits    *)
(* for any lock, so it may spend as of a time already past.                *)
(***************************************************************************)
EXTENDS Integers, FiniteSets

CONSTANTS
    Workers,          \* gunicorn worker processes
    Threads,          \* their request threads
    WorkerOf,         \* the worker of each thread
    Namespaces,       \* "policy" and "batch"
    Keys,             \* bucket keys, "<namespace>:<client>"
    NamespaceOf,      \* the namespace of each key
    Period,           \* per_seconds of each limiter
    Rate,             \* requests / per_seconds of each limiter
    Costs,            \* the costs its callers pass
    IdlePeriods,      \* idle_ttl in periods (10 in the code)
    EvictionInterval, \* EVICTION_INTERVAL_SECONDS
    EvictAbove,       \* buckets below which MemoryStore keeps all (1024 in the code)
    MaxSteps,         \* bound: how often the clock is stepped back
    MaxLag,           \* bound: how long a thread may wait, busy_timeout included
    MaxClock          \* bound: the last tick

ASSUME LimiterAssumption ==
    /\ Period \in [Namespaces -> Nat \ {0}]
    /\ Rate \in [Namespaces -> Nat \ {0}]
    /\ Costs \in [Namespaces -> SUBSET (Nat \ {0})]
    /\ NamespaceOf \in [Keys -> Namespaces]

ASSUME WorkerAssumption == WorkerOf \in [Threads -> Workers]

\* The longest wait fits twice into the time a bucket is kept after it must be
\* full again: seconds of busy_timeout beside nine of the ten periods.
ASSUME TimeAssumption ==
    /\ IdlePeriods \in Nat \ {0}
    /\ EvictionInterval \in Nat
    /\ EvictAbove \in Nat
    /\ MaxSteps \in Nat
    /\ MaxLag \in Nat
    /\ MaxClock \in Nat
    /\ \A n \in Namespaces : 2 * MaxLag <= (IdlePeriods - 1) * Period[n] + 1

Primary == "primary"
Nobody == "nobody"
ASSUME NamesAssumption == Primary \notin Workers /\ Nobody \notin Threads

\* The shared file, and the MemoryStore of each worker.
Stores == {Primary} \cup Workers

Capacity(k) == Rate[NamespaceOf[k]] * Period[NamespaceOf[k]]
RateOf(k) == Rate[NamespaceOf[k]]
PeriodOf(k) == Period[NamespaceOf[k]]

\* A row of `buckets`, or none.
Never == -1
Row == [tokens : Int, last : Nat]
NoRow == [tokens |-> 0, last |-> Never]

\* What the observer watches.
Window == [since : 0..MaxClock, store : Stores, key : Keys]
NoWindow == [since |-> Never]

\* A thread that serves no request.
NoKey == "none"

Answers == {"none", "allowed", "refused"}
Places == {"idle", "arrived", "due", "evict", "spend", "commit", "fallback"}

VARIABLES
    clock,         \* time.time()
    steps,         \* how often it was stepped back
    pc,            \* where each thread is in allow()
    key,           \* the bucket it spends from
    cost,          \* how much
    now,           \* the clock as it read it
    answer,        \* what its last allow() returned
    row,           \* the row it read in its transaction
    writer,        \* the thread that holds SQLite's write lock
    bucket,        \* the buckets of each store
    nextEviction,  \* _next_eviction of each worker's limiters
    window,        \* observer: a bucket it watches, and since when
    granted        \* observer: what that bucket has granted since

request == <<key, cost, now>>
observers == <<steps, window, granted>>
vars == <<clock, pc, request, answer, row, writer, bucket, nextEviction, observers>>

TypeOK ==
    /\ clock \in 0..MaxClock
    /\ pc \in [Threads -> Places]
    /\ key \in [Threads -> Keys \cup {NoKey}]
    /\ cost \in [Threads -> Nat]
    /\ now \in [Threads -> 0..MaxClock]
    /\ answer \in [Threads -> Answers]
    /\ row \in [Threads -> Row \cup {NoRow}]
    /\ writer \in Threads \cup {Nobody}
    /\ bucket \in [Stores -> [Keys -> Row \cup {NoRow}]]
    /\ \A s \in Stores, k \in Keys : bucket[s][k].tokens <= Capacity(k)
    /\ nextEviction \in [Workers -> [Namespaces -> Nat]]
    /\ window \in Window \cup {NoWindow}
    /\ granted \in Nat
    /\ steps \in 0..MaxSteps

Init ==
    /\ clock = 0
    /\ steps = 0
    /\ pc = [t \in Threads |-> "idle"]
    /\ key = [t \in Threads |-> NoKey]
    /\ cost = [t \in Threads |-> 0]
    /\ now = [t \in Threads |-> 0]
    /\ answer = [t \in Threads |-> "none"]
    /\ row = [t \in Threads |-> NoRow]
    /\ writer = Nobody
    /\ bucket = [s \in Stores |-> [k \in Keys |-> NoRow]]
    /\ nextEviction = [w \in Workers |-> [n \in Namespaces |-> 0]]
    /\ window = NoWindow
    /\ granted = 0

-----------------------------------------------------------------------------
(* The bucket arithmetic. *)

AtMost(x, y) == IF x <= y THEN x ELSE y

\* min(capacity, tokens + (now - last_seen) * refill_rate)
Refilled(k, b, when) == AtMost(Capacity(k), b.tokens + (when - b.last) * RateOf(k))

\* The row of a key, or the one it starts with.
RowOf(s, k, when) ==
    IF bucket[s][k] = NoRow
    THEN [tokens |-> Capacity(k), last |-> when]
    ELSE bucket[s][k]

\* Fault: a refused request is charged.
AlwaysCharged(k, b, c, when) ==
    [tokens |-> Refilled(k, b, when) - c, last |-> when]

\* Fault: a refusal moves last_seen on and forgets the refill.
RefillLost(k, b, c, when) ==
    [tokens |-> IF Refilled(k, b, when) >= c THEN Refilled(k, b, when) - c ELSE b.tokens,
     last |-> when]

Passes(k, b, c, when) == Refilled(k, b, when) >= c

\* What spend() writes back: a refusal refills and spends nothing.
After(k, b, c, when) ==
    [tokens |-> Refilled(k, b, when) - (IF Passes(k, b, c, when) THEN c ELSE 0),
     last |-> when]

-----------------------------------------------------------------------------
(* allow(). *)

\* A request, with the clock as it stands.  A cost of nothing never gets here.
Arrive(t) ==
    /\ pc[t] = "idle"
    /\ \E k \in Keys : \E c \in Costs[NamespaceOf[k]] :
          /\ key' = [key EXCEPT ![t] = k]
          /\ cost' = [cost EXCEPT ![t] = c]
    /\ pc' = [pc EXCEPT ![t] = "arrived"]
    /\ now' = [now EXCEPT ![t] = clock]
    /\ answer' = [answer EXCEPT ![t] = "none"]
    /\ UNCHANGED <<clock, row, writer, bucket, nextEviction, observers>>

MyNamespace(t) == NamespaceOf[key[t]]

\* _maybe_evict() looks whether a sweep is due and puts the next one off before
\* it starts, but under no lock: two threads of a worker may both find it due.
EvictionDue(t) == now[t] >= nextEviction[WorkerOf[t]][MyNamespace(t)]

FindDue(t) ==
    /\ pc[t] = "arrived"
    /\ pc' = [pc EXCEPT ![t] = IF EvictionDue(t) THEN "due" ELSE "spend"]
    /\ UNCHANGED <<clock, request, answer, row, writer, bucket, nextEviction, observers>>

PutOff(t) ==
    /\ pc[t] = "due"
    /\ pc' = [pc EXCEPT ![t] = "evict"]
    /\ nextEviction' = [nextEviction EXCEPT ![WorkerOf[t]][MyNamespace(t)] = now[t] + EvictionInterval]
    /\ UNCHANGED <<clock, request, answer, row, writer, bucket, observers>>

\* Fault: a sweep does not look whose buckets it drops.
StaleOfAll(s, t) ==
    {k \in Keys : /\ bucket[s][k] # NoRow
                  /\ bucket[s][k].last < now[t] - IdlePeriods * Period[MyNamespace(t)]}

\* The limiter's own buckets that nobody has touched for idle_ttl.
Stale(s, t) ==
    {k \in Keys : /\ NamespaceOf[k] = MyNamespace(t)
                  /\ bucket[s][k] # NoRow
                  /\ bucket[s][k].last < now[t] - IdlePeriods * PeriodOf(k)}

Without(s, gone) == [k \in Keys |-> IF k \in gone THEN NoRow ELSE bucket[s][k]]

\* One DELETE of the shared file ...
EvictShared(t) ==
    /\ pc[t] = "evict"
    /\ writer = Nobody
    /\ bucket' = [bucket EXCEPT ![Primary] = Without(Primary, Stale(Primary, t))]
    /\ pc' = [pc EXCEPT ![t] = "spend"]
    /\ UNCHANGED <<clock, request, answer, row, writer, nextEviction, observers>>

\* ... or, when that fails, a sweep of the process's own store, if it is large.
EvictOwn(t) ==
    /\ pc[t] = "evict"
    /\ LET s == WorkerOf[t]
           large == Cardinality({k \in Keys : bucket[s][k] # NoRow}) >= EvictAbove
       IN  bucket' = [bucket EXCEPT ![s] = Without(s, IF large THEN Stale(s, t) ELSE {})]
    /\ pc' = [pc EXCEPT ![t] = "spend"]
    /\ UNCHANGED <<clock, request, answer, row, writer, nextEviction, observers>>

\* Fault: BEGIN, which takes no lock before the first write.
BeginDeferred(t) ==
    /\ pc[t] = "spend"
    /\ row' = [row EXCEPT ![t] = RowOf(Primary, key[t], now[t])]
    /\ pc' = [pc EXCEPT ![t] = "commit"]
    /\ UNCHANGED <<clock, request, answer, writer, bucket, nextEviction, observers>>

\* BEGIN IMMEDIATE takes the write lock, and then the row is read.
Begin(t) ==
    /\ pc[t] = "spend"
    /\ writer = Nobody
    /\ writer' = t
    /\ row' = [row EXCEPT ![t] = RowOf(Primary, key[t], now[t])]
    /\ pc' = [pc EXCEPT ![t] = "commit"]
    /\ UNCHANGED <<clock, request, answer, bucket, nextEviction, observers>>

\* The observer counts what the bucket it watches grants.
Watched(s, k) == window # NoWindow /\ window.store = s /\ window.key = k

Observe(s, k, c) ==
    /\ granted' = IF Watched(s, k) THEN granted + c ELSE granted
    /\ UNCHANGED <<steps, window>>

\* spend() on the row b of store s: the write, and the answer.
Spend(t, s, b) ==
    LET k == key[t]
        passes == Passes(k, b, cost[t], now[t])
    IN  /\ bucket' = [bucket EXCEPT ![s][k] = After(k, b, cost[t], now[t])]
        /\ answer' = [answer EXCEPT ![t] = IF passes THEN "allowed" ELSE "refused"]
        /\ Observe(s, k, IF passes THEN cost[t] ELSE 0)
        /\ pc' = [pc EXCEPT ![t] = "idle"]
        /\ key' = [key EXCEPT ![t] = NoKey]
        /\ cost' = [cost EXCEPT ![t] = 0]
        /\ now' = [now EXCEPT ![t] = 0]

Commit(t) ==
    /\ pc[t] = "commit"
    /\ Spend(t, Primary, row[t])
    /\ row' = [row EXCEPT ![t] = NoRow]
    /\ writer' = IF writer = t THEN Nobody ELSE writer
    /\ UNCHANGED <<clock, nextEviction>>

\* The shared file is busy for too long, gone, or broken: what the transaction
\* did is rolled back, and the process's own store decides.
StoreFails(t) ==
    /\ pc[t] \in {"spend", "commit"}
    /\ writer' = IF writer = t THEN Nobody ELSE writer
    /\ row' = [row EXCEPT ![t] = NoRow]
    /\ pc' = [pc EXCEPT ![t] = "fallback"]
    /\ UNCHANGED <<clock, request, answer, bucket, nextEviction, observers>>

\* MemoryStore.spend, all of it under the store's lock.
Fallback(t) ==
    /\ pc[t] = "fallback"
    /\ Spend(t, WorkerOf[t], RowOf(WorkerOf[t], key[t], now[t]))
    /\ UNCHANGED <<clock, row, writer, nextEviction>>

-----------------------------------------------------------------------------
(* The clock, and the window an observer opens. *)

Tick ==
    /\ clock < MaxClock
    /\ \A t \in Threads : pc[t] # "idle" => clock < now[t] + MaxLag
    /\ clock' = clock + 1
    /\ UNCHANGED <<pc, request, answer, row, writer, bucket, nextEviction, observers>>

\* The clock is corrected backwards, between requests; no time goes by.  An
\* observer who measured with that clock starts over.
StepBack ==
    /\ steps < MaxSteps
    /\ steps' = steps + 1
    /\ \A t \in Threads : pc[t] = "idle"
    /\ clock' \in 0..(clock - 1)
    /\ window' = NoWindow
    /\ granted' = 0
    /\ UNCHANGED <<pc, request, answer, row, writer, bucket, nextEviction>>

OpenWindow ==
    /\ window = NoWindow
    /\ \E s \in Stores, k \in Keys :
          window' = [since |-> clock, store |-> s, key |-> k]
    /\ UNCHANGED <<clock, pc, request, answer, row, writer, bucket, nextEviction, steps, granted>>

Allow(t) ==
    \/ Arrive(t) \/ FindDue(t) \/ PutOff(t)
    \/ EvictShared(t) \/ EvictOwn(t)
    \/ Begin(t) \/ Commit(t) \/ StoreFails(t) \/ Fallback(t)

Next ==
    \/ \E t \in Threads : Allow(t)
    \/ Tick
    \/ StepBack
    \/ OpenWindow

Spec == Init /\ [][Next]_vars

-----------------------------------------------------------------------------
(* What the limiter promises. *)

\* "With a shared store the allowance is what the configuration says it is":
\* in any window of time, whoever spends and whatever is evicted meanwhile, a
\* store grants a key no more than its capacity and what the window refills.
\* A thread that waited counts by the clock it read.  Buckets left over from
\* before a clock step count in the window too.
WindowAllowance ==
    window # NoWindow =>
        granted <= Capacity(window.key) + RateOf(window.key) * (clock - window.since + MaxLag)

\* The tokens a bucket holds at the present time.
Level(s, k) ==
    IF bucket[s][k] = NoRow THEN Capacity(k) ELSE Refilled(k, bucket[s][k], clock)

\* The store that answers a thread, and when it refuses.
Answering(t) == IF pc[t] = "commit" THEN Primary ELSE WorkerOf[t]
Refuses(t) == answer[t] = "none" /\ answer'[t] = "refused"

\* "a rejected request spends nothing": it leaves every bucket the level it
\* had, even when it spends as of a time that others have already passed.
RefusalIsFree ==
    [][\A t \in Threads : Refuses(t) =>
          \A s \in Stores, k \in Keys : Level(s, k)' = Level(s, k)]_vars

\* A key that was granted nothing for a whole period has its whole allowance:
\* nothing it can afford is refused, so what is too expensive now "can be
\* retried whole".
RestedIsAllowed ==
    [][\A t \in Threads :
          /\ Refuses(t) /\ cost[t] <= Capacity(key[t])
          /\ Watched(Answering(t), key[t]) /\ granted = 0
          => clock < window.since + PeriodOf(key[t]) + MaxLag]_vars

=============================================================================
