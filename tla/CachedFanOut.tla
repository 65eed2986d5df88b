---------------------------- MODULE CachedFanOut ----------------------------
(***************************************************************************)
(* The fan-out over the cache as its threads meet it.  FanOut reads and    *)
(* fills the cache in one step; here _fetch_plan and _collect_fetch        *)
(* (amiweak/checks/runner.py) call PrefixCache.get and put, which may wait *)
(* for the lock while other threads and time change what is held.          *)
(*                                                                         *)
(* The cache is the one RangeCache describes, which PrefixCache is shown   *)
(* to implement.  A runner without a cache, and one whose cache is         *)
(* disabled, are turned away by it.                                        *)
(***************************************************************************)
EXTENDS FanOut

VARIABLES
    call,     \* the call to the cache each thread is in
    answer    \* what each was last told

cacheCalls == <<call, answer>>
cachedVars == <<vars, cacheCalls>>

Cache == INSTANCE RangeCache
         WITH CacheKeys <- CacheKey,
              Ranges <- {Data(listed) : listed \in SUBSET Digests},
              Threads <- Calls,
              Nothing <- Absent,
              held <- cache

CachedTypeOK ==
    /\ call \in [Calls -> {Cache!NoCall} \cup Cache!Call]
    /\ answer \in [Calls -> Slot \cup {"nothing yet"}]

CachedInit ==
    /\ Init
    /\ call = [c \in Calls |-> Cache!NoCall]
    /\ answer = [c \in Calls |-> "nothing yet"]

-----------------------------------------------------------------------------
Calling(c, kind) == call[c].kind = kind

Ask(c, what) ==
    /\ call[c] = Cache!NoCall
    /\ call' = [call EXCEPT ![c] = what]
    /\ answer' = [answer EXCEPT ![c] = "nothing yet"]
    /\ UNCHANGED vars

\* A cache that is off says None to a get as to a put, and forgets nothing.
TurnedAway(c) ==
    /\ call[c] = Cache!NoCall
    /\ Full = {}
    /\ answer' = [answer EXCEPT ![c] = Absent]
    /\ UNCHANGED <<cache, call>>

\* self._cache.get(key), of the next key of the plan ...
AskGet(c, k) ==
    /\ pc[c] = "lookup"
    /\ FirstOf(req[c], todo[c], k)
    /\ Cacheable(k)
    /\ Ask(c, [kind |-> "get", key |-> k])

\* ... which may come back after the entry was found dead, or was replaced.
GetReturns(c) ==
    /\ Calling(c, "get")
    /\ Cache!Get(c)
    /\ Take(c, call[c].key, answer'[c])

GetTurnedAway(c, k) ==
    /\ Cacheable(k)
    /\ TurnedAway(c)
    /\ Take(c, k, answer'[c])

\* A checker whose ranges are not cached.
SkipCache(c, k) ==
    /\ call[c] = Cache!NoCall
    /\ ~Cacheable(k)
    /\ Take(c, k, Absent)
    /\ UNCHANGED <<cache, cacheCalls>>

\* self._cache.put(key, fetched.data), before the range is kept.
AskPut(c, k) ==
    /\ pc[c] = "collect"
    /\ FirstOf(req[c], todo[c], k)
    /\ k \in done[c]
    /\ Stored(c, k)
    /\ Ask(c, [kind |-> "put", key |-> k, range |-> Collected(c, k)])

PutReturns(c) ==
    /\ Calling(c, "put")
    /\ Cache!Put(c)
    /\ Settle(c, call[c].key)

PutTurnedAway(c, k) ==
    /\ Stored(c, k)
    /\ TurnedAway(c)
    /\ Settle(c, k)

\* A range that is not to be cached.
KeepUncached(c, k) ==
    /\ call[c] = Cache!NoCall
    /\ ~Stored(c, k)
    /\ Settle(c, k)
    /\ UNCHANGED <<cache, cacheCalls>>

CacheForgets ==
    /\ Cache!Forget
    /\ UNCHANGED <<pc, req, todo, ranges, future, done, recording>>

AtCache(c) ==
    \/ GetReturns(c) \/ PutReturns(c)
    \/ \E k \in todo[c] :
          \/ AskGet(c, k) \/ GetTurnedAway(c, k) \/ SkipCache(c, k)
          \/ AskPut(c, k) \/ PutTurnedAway(c, k) \/ KeepUncached(c, k)

\* The thread is elsewhere than at the cache, or it is the pool that moves.
Elsewhere(c) ==
    /\ \/ /\ call[c] = Cache!NoCall
          /\ \/ Refuse(c) \/ Begin(c) \/ Submit(c) \/ AllDone(c)
             \/ Deadline(c) \/ Return(c)
             \/ \E k \in todo[c] : CollectTimeout(c, k)
       \/ Pool(c)
    /\ UNCHANGED cacheCalls

CachedNext == CacheForgets \/ \E c \in Calls : AtCache(c) \/ Elsewhere(c)

CachedSpec == CachedInit /\ [][CachedNext]_cachedVars

-----------------------------------------------------------------------------
(* What the composition promises. *)

\* Waiting for the lock changes nothing a call can tell: it is the fan-out
\* with the cache read and filled in one step, at the moment of the answer.
ImplementsFanOut == Spec

\* The threads call the cache one call at a time, as it expects.
UsesRangeCache == Cache!Spec

\* What a call to the cache is about when it returns is what its thread was at
\* when it made it, however long it had to wait for the lock.
OwnGet(c) ==
    /\ pc[c] = "lookup"
    /\ call[c].key \in CacheKey
    /\ FirstOf(req[c], todo[c], call[c].key)
    /\ Cacheable(call[c].key)

OwnPut(c) ==
    /\ pc[c] = "collect"
    /\ call[c].key \in CacheKey
    /\ FirstOf(req[c], todo[c], call[c].key)
    /\ call[c].key \in done[c]
    /\ Stored(c, call[c].key)
    /\ call[c].range = Collected(c, call[c].key)

CallsAreOwn ==
    \A c \in Calls : (Calling(c, "get") => OwnGet(c)) /\ (Calling(c, "put") => OwnPut(c))

=============================================================================
