----------------------------- MODULE PrefixCache ----------------------------
(***************************************************************************)
(* PrefixCache (amiweak/cache.py): ranges by key, in an OrderedDict under  *)
(* a lock, at most max_entries of them, each for ttl_seconds.  A call      *)
(* reads the clock before it waits for the lock, so by the time it has the *)
(* lock others, who read a later clock, may have been there.               *)
(*                                                                         *)
(* Time is time.monotonic(), in ticks.                                     *)
(***************************************************************************)
EXTENDS Integers, Sequences, SequencesExt, FiniteSets

CONSTANTS
    CacheKeys,      \* (backend, algorithm, prefix)
    Ranges,         \* the versions of a range an upstream may send
    Threads,        \* request threads of the process
    MaxClock        \* bound: the last tick

\* Python's None.
Nothing == "nothing"
Replies == Ranges \cup {Nothing, "yes", "no", "nothing yet"}
ASSUME ClockAssumption == MaxClock \in Nat
ASSUME RangesAssumption == Ranges \cap {Nothing, "yes", "no", "nothing yet"} = {}

\* NaN, as a TTL and as the expiry it makes: greater than nothing and at most
\* nothing.  No other TTL or expiry is zero.
Unordered == 0

VARIABLES
    settings,   \* enabled, max_entries, and ttl: ticks, or Unordered
    clock,
    entries,    \* what is stored under each key: a range and its expiry
    order,      \* the keys stored, least recently used first
    op,         \* the call each thread is in, waiting for the lock
    answer,     \* what its last call returned
    used,       \* observer: the keys stored or found since each key last was
    since       \* observer: the clock of the call that stored each key, or Never

callVars == <<op, answer>>
observers == <<used, since>>
cacheVars == <<settings, clock, entries, order, callVars, observers>>

Absent == [range |-> Nothing, expires |-> 0]
Never == -1
NoCall == [kind |-> "none"]
Call ==
    {NoCall}
    \cup [kind : {"get", "contains"}, key : CacheKeys, when : 0..MaxClock]
    \cup [kind : {"put"}, key : CacheKeys, when : 0..MaxClock, range : Ranges]
Settings == [enabled : BOOLEAN, max_entries : Nat \ {0}, ttl : Nat]

CacheTypeOK ==
    /\ settings \in Settings
    /\ clock \in 0..MaxClock
    /\ entries \in [CacheKeys -> [range : Ranges \cup {Nothing}, expires : Nat]]
    /\ order \in Seq(CacheKeys)
    /\ op \in [Threads -> Call]
    /\ answer \in [Threads -> Replies]

CacheInit ==
    /\ clock = 0
    /\ entries = [k \in CacheKeys |-> Absent]
    /\ order = <<>>
    /\ op = [t \in Threads |-> NoCall]
    /\ answer = [t \in Threads |-> "nothing yet"]
    /\ used = [k \in CacheKeys |-> {}]
    /\ since = [k \in CacheKeys |-> Never]

-----------------------------------------------------------------------------
Told(t, reply) ==
    /\ answer' = [answer EXCEPT ![t] = reply]
    /\ op' = [op EXCEPT ![t] = NoCall]

\* A call begins: the clock is read.
Begin(t, call) ==
    /\ op[t] = NoCall
    /\ settings.enabled
    /\ op' = [op EXCEPT ![t] = call]
    /\ answer' = [answer EXCEPT ![t] = "nothing yet"]
    /\ UNCHANGED <<clock, entries, order, observers>>

\* A disabled cache has nothing, and takes nothing.
TurnAway(t) ==
    /\ op[t] = NoCall
    /\ ~settings.enabled
    /\ \E reply \in {Nothing, "no"} : Told(t, reply)
    /\ UNCHANGED <<clock, entries, order, observers>>

BeginGet(t) == \E k \in CacheKeys : Begin(t, [kind |-> "get", key |-> k, when |-> clock])
BeginContains(t) == \E k \in CacheKeys : Begin(t, [kind |-> "contains", key |-> k, when |-> clock])
BeginPut(t) ==
    \E k \in CacheKeys, r \in Ranges :
        Begin(t, [kind |-> "put", key |-> k, when |-> clock, range |-> r])

Using(k) == [j \in CacheKeys |-> IF j = k THEN {} ELSE used[j] \cup {k}]

\* expires_at <= now, and entry[1] > now: neither is true of NaN.
Expired(k, when) == entries[k].expires # Unordered /\ entries[k].expires <= when
Live(k, when) ==
    /\ entries[k] # Absent
    /\ entries[k].expires # Unordered
    /\ entries[k].expires > when

\* Fault: a hit leaves the order alone.
Unmoved(seq, k) == IF k \in ToSet(seq) THEN seq ELSE Append(seq, k)

\* The order without a key, which is in it once at most.
Without(seq, k) ==
    IF k \in ToSet(seq) THEN RemoveAt(seq, CHOOSE i \in DOMAIN seq : seq[i] = k) ELSE seq

\* OrderedDict.move_to_end, of a key that is there or has just been added.
MovedToEnd(seq, k) == Append(Without(seq, k), k)

Find(t) ==
    LET k == op[t].key
    IN  /\ op[t].kind = "get"
        /\ entries[k] # Absent
        /\ ~Expired(k, op[t].when)
        /\ Told(t, entries[k].range)
        /\ order' = MovedToEnd(order, k)
        /\ used' = Using(k)
        /\ UNCHANGED <<clock, entries, since>>

\* A dead entry is dropped by the get that finds it.
Miss(t) ==
    LET k == op[t].key
    IN  /\ op[t].kind = "get"
        /\ entries[k] = Absent \/ Expired(k, op[t].when)
        /\ Told(t, Nothing)
        /\ entries' = [entries EXCEPT ![k] = Absent]
        /\ order' = Without(order, k)
        /\ UNCHANGED <<clock, observers>>

\* Neither counted nor moved.
LookFor(t) ==
    /\ op[t].kind = "contains"
    /\ Told(t, IF Live(op[t].key, op[t].when) THEN "yes" ELSE "no")
    /\ UNCHANGED <<clock, entries, order, observers>>

\* Fault: a key that is stored again keeps its first expiry, and is dead early.
FirstExpiry(t) ==
    IF settings.ttl = Unordered THEN Unordered
    ELSE IF entries[op[t].key] # Absent THEN entries[op[t].key].expires + settings.ttl
    ELSE op[t].when + settings.ttl

ExpiryOf(t) == IF settings.ttl = Unordered THEN Unordered ELSE op[t].when + settings.ttl

\* The new entry goes to the end, and the first one goes when there are too many.
Put(t) ==
    LET k == op[t].key
        all == MovedToEnd(order, k)
        excess == Len(all) - settings.max_entries
        kept == IF excess > 0 THEN SubSeq(all, excess + 1, Len(all)) ELSE all
    IN  /\ op[t].kind = "put"
        /\ order' = kept
        /\ entries' = [j \in CacheKeys |->
                          CASE j \notin ToSet(kept) -> Absent
                            [] j = k -> [range |-> op[t].range, expires |-> ExpiryOf(t)]
                            [] OTHER -> entries[j]]
        /\ op' = [op EXCEPT ![t] = NoCall]
        /\ used' = Using(k)
        /\ since' = [since EXCEPT ![k] = op[t].when]
        /\ UNCHANGED <<clock, answer>>

Tick ==
    /\ clock < MaxClock
    /\ clock' = clock + 1
    /\ UNCHANGED <<entries, order, callVars, observers>>

Serve ==
    /\ \/ \E t \in Threads : \/ BeginGet(t) \/ BeginContains(t) \/ BeginPut(t) \/ TurnAway(t)
                             \/ Find(t) \/ Miss(t) \/ LookFor(t) \/ Put(t)
       \/ Tick
    /\ UNCHANGED settings

\* The cache by itself, whatever it is made with.
CacheSpec == settings \in Settings /\ CacheInit /\ [][Serve]_cacheVars

-----------------------------------------------------------------------------
(* What the cache promises. *)

Dated == settings.ttl # Unordered

\* "Re-running an audit inside the cache TTL is free", and outside it is not:
\* no get finds a range older, by its own clock, than the TTL, whatever was
\* stored or found in between and in whatever order the lock was had.
FindsInTime ==
    \A t \in Threads :
        op[t] # NoCall /\ op[t].kind = "get" /\ answer'[t] \in Ranges /\ op'[t] = NoCall /\ Dated
        => op[t].when < since[op[t].key] + settings.ttl
ServedInTime == [][FindsInTime]_cacheVars

\* An LRU: a range that has not reached its TTL is only missed when
\* max_entries other keys have been stored or found since it last was, however
\* many dead entries take up room.  A batch that asks what is cached makes
\* nobody lose an entry.
MissesInTime ==
    \A t \in Threads :
        /\ op[t] # NoCall /\ op[t].kind = "get" /\ op'[t] = NoCall /\ answer'[t] = Nothing
        /\ Dated /\ since[op[t].key] # Never
        /\ clock < since[op[t].key] + settings.ttl
        => Cardinality(used[op[t].key]) >= settings.max_entries
KeptWhileUseful == [][MissesInTime]_cacheVars

\* What the fan-out and the routes take it for: a key holds what was last
\* stored under it, or nothing, any other entry may be gone at any time, and
\* every call is answered of the key it asked for.
CallOf(o) ==
    CASE o.kind = "none" -> NoCall
      [] o.kind = "put" -> [kind |-> "put", key |-> o.key, range |-> o.range]
      [] OTHER -> [kind |-> o.kind, key |-> o.key]

Ideal == INSTANCE RangeCache
            WITH held <- [k \in CacheKeys |-> entries[k].range],
                 call <- [t \in Threads |-> CallOf(op[t])]

ImplementsRangeCache == Ideal!Spec

=============================================================================
