---------------------------- MODULE FanOutProofs ----------------------------
(***************************************************************************)
(* Theorems about FanOut, for any number of calls, digests, prefixes and   *)
(* requests.  The inductive invariant is Inv: what every call knows of its *)
(* own keys at each point of its program, and that neither the cache nor   *)
(* any call ever holds anything but what a backend really lists.           *)
(***************************************************************************)
EXTENDS CachedFanOut, FiniteSetTheorems, TLAPS

-----------------------------------------------------------------------------
(* Facts about the data. *)

\* Every planned key is a cache key.
LEMMA PlanIsKeys == \A r \in Requests : Plan(r) \subseteq CacheKey
<1> SUFFICES ASSUME NEW r \in Requests, NEW k \in Plan(r)
             PROVE  k \in CacheKey
  OBVIOUS
<1> PICK b \in Applicable(r.algorithm), i \in DOMAIN r.items :
         k = KeyOf(b, r.algorithm, r.items[i])
  BY DEF Plan
<1>1. b \in Backends /\ r.algorithm \in Algorithms /\ r.items[i] \in Digests
  BY EnabledAssumption, RequestsAssumption DEF Applicable, Request
<1>2. PrefixOf[b][r.items[i]] \in Prefixes
  BY <1>1, DigestAssumption
<1> QED BY <1>1, <1>2 DEF KeyOf, CacheKey

\* A range lists digests of the universe.
LEMMA ListedIsDigests == \A k \in CacheKey : Listed(k) \subseteq Digests
BY DigestAssumption DEF Listed, CacheKey

\* Data, failures and Absent are range fetches, and tell each other apart.
LEMMA FetchFacts ==
    /\ ~HasData(Absent)
    /\ \A S \in SUBSET Digests : Data(S) \in RangeFetch /\ HasData(Data(S)) /\ Data(S) # Absent
    /\ \A e \in Errors : /\ Failure(e) \in RangeFetch
                         /\ ~HasData(Failure(e))
                         /\ Failure(e) # Absent
BY DEF Absent, RangeFetch, HasData, Data, Failure, Errors,
       ERROR_TIMEOUT, ERROR_NETWORK, ERROR_INTERNAL

\* What a done future brought is a fetch, decided, and true to the backend.
LEMMA CollectedFacts ==
    ASSUME NEW c \in Calls, NEW k \in CacheKey
    PROVE  /\ Collected(c, k) \in RangeFetch
           /\ Collected(c, k) # Absent
           /\ HasData(Collected(c, k)) => Collected(c, k) = Data(Listed(k))
           /\ future[c][k] = "answered" => HasData(Collected(c, k))
<1>1. Data(Listed(k)) \in RangeFetch /\ Data(Listed(k)) # Absent /\ HasData(Data(Listed(k)))
  BY ListedIsDigests, FetchFacts
<1>2. ERROR_NETWORK \in Errors /\ ERROR_INTERNAL \in Errors
  BY DEF Errors
<1>3. Collected(c, k) \in {Data(Listed(k)), Failure(ERROR_NETWORK), Failure(ERROR_INTERNAL)}
  BY DEF Collected
<1>4. future[c][k] = "answered" => Collected(c, k) = Data(Listed(k))
  BY DEF Collected
<1> QED BY <1>1, <1>2, <1>3, <1>4, FetchFacts

\* To forget entries leaves those that are there what they were.
LEMMA WithoutFacts ==
    ASSUME NEW entries \in [CacheKey -> Slot], NEW gone
    PROVE  /\ Without(gone, entries) \in [CacheKey -> Slot]
           /\ \A k \in CacheKey : Without(gone, entries)[k] # Absent =>
                 Without(gone, entries)[k] = entries[k]
BY DEF Without, Slot

\* To read the cache, or to leave it alone, may lose entries and changes none.
LEMMA CacheShrinks ==
    ASSUME cache \in [CacheKey -> Slot],
           \/ \E gone \in SUBSET Full : cache' = Without(gone, cache)
           \/ UNCHANGED cache
    PROVE  /\ cache' \in [CacheKey -> Slot]
           /\ \A k \in CacheKey : cache'[k] # Absent => cache'[k] = cache[k]
<1>1. CASE UNCHANGED cache
  BY <1>1
<1>2. ASSUME NEW gone \in SUBSET Full, cache' = Without(gone, cache)
      PROVE  /\ cache' \in [CacheKey -> Slot]
             /\ \A k \in CacheKey : cache'[k] # Absent => cache'[k] = cache[k]
  BY <1>2, WithoutFacts
<1> QED BY <1>1, <1>2

\* To store in it may add the one entry that is stored.
LEMMA CacheStores ==
    ASSUME cache \in [CacheKey -> Slot],
           NEW c \in Calls, NEW k \in CacheKey, CollectDone(c, k)
    PROVE  /\ cache' \in [CacheKey -> Slot]
           /\ \A j \in CacheKey : cache'[j] # Absent =>
                 \/ cache'[j] = cache[j]
                 \/ j = k /\ Stored(c, k) /\ cache'[j] = Collected(c, k)
<1>1. CASE Stored(c, k)
  <2>1. [cache EXCEPT ![k] = Collected(c, k)] \in [CacheKey -> Slot]
    BY CollectedFacts DEF Slot
  <2>2. PICK gone \in SUBSET (Full \cup {k}) :
             cache' = Without(gone, [cache EXCEPT ![k] = Collected(c, k)])
    BY <1>1 DEF CollectDone
  <2>3. /\ cache' \in [CacheKey -> Slot]
        /\ \A j \in CacheKey : cache'[j] # Absent =>
              cache'[j] = [cache EXCEPT ![k] = Collected(c, k)][j]
    BY <2>1, <2>2, WithoutFacts
  <2> QED BY <1>1, <2>3
<1>2. CASE ~Stored(c, k)
  BY <1>2 DEF CollectDone
<1> QED BY <1>1, <1>2

\* What a turn of the cache loop takes, whoever it asked.
LEMMA LookUpFacts ==
    ASSUME NEW c, NEW k, LookUp(c, k)
    PROVE  /\ \/ UNCHANGED ranges
              \/ HasData(cache'[k]) /\ ranges' = [ranges EXCEPT ![c][k] = Data(cache'[k].data)]
           /\ \/ \E gone \in SUBSET Full : cache' = Without(gone, cache)
              \/ UNCHANGED cache
           /\ pc[c] = "lookup" /\ FirstOf(req[c], todo[c], k)
           /\ todo' = [todo EXCEPT ![c] = @ \ {k}]
           /\ UNCHANGED <<pc, req, future, done, recording>>
<1>1. CASE /\ Cacheable(k)
           /\ \E gone \in SUBSET Full : cache' = Without(gone, cache)
           /\ Take(c, k, cache'[k])
  BY <1>1 DEF Take
<1>2. CASE /\ ~Cacheable(k)
           /\ Take(c, k, Absent)
           /\ UNCHANGED cache
  BY <1>2, FetchFacts DEF Take
<1> QED BY <1>1, <1>2 DEF LookUp

-----------------------------------------------------------------------------
(* Type correctness. *)

\* One record more leaves counts.
LEMMA RecordedType ==
    ASSUME NEW c \in Calls, NEW b \in Backends, NEW error \in {"none"} \cup Errors,
           records \in [Calls -> [Backends -> [{"none"} \cup Errors -> Nat]]]
    PROVE  Recorded(c, b, error) \in [Calls -> [Backends -> [{"none"} \cup Errors -> Nat]]]
<1> DEFINE Counts == [{"none"} \cup Errors -> Nat]
<1>1. records[c] \in [Backends -> Counts] /\ records[c][b] \in Counts
  OBVIOUS
<1>2. [records[c][b] EXCEPT ![error] = @ + 1] \in Counts
  BY <1>1
<1>3. [records[c] EXCEPT ![b] = [records[c][b] EXCEPT ![error] = @ + 1]] \in [Backends -> Counts]
  BY <1>1, <1>2
<1> QED BY <1>3 DEF Recorded

\* Every step keeps the type of every variable.
LEMMA TypeStep == TypeOK /\ [Next]_vars => TypeOK'
<1> SUFFICES ASSUME TypeOK, [Next]_vars
             PROVE  TypeOK'
  OBVIOUS
<1> USE DEF TypeOK, Places, Slot, recording
<1>1. ASSUME NEW c \in Calls, Refuse(c) PROVE TypeOK'
  BY <1>1 DEF Refuse
<1>2. ASSUME NEW c \in Calls, Begin(c) PROVE TypeOK'
  <2>1. Plan(req[c]) \subseteq CacheKey
    BY PlanIsKeys
  <2> QED BY <1>2, <2>1 DEF Begin
<1>3. ASSUME NEW c \in Calls, NEW k \in todo[c], LookUp(c, k) PROVE TypeOK'
  <2>0. cache' \in [CacheKey -> Slot]
    BY <1>3, LookUpFacts, CacheShrinks
  <2>1. k \in CacheKey /\ cache'[k].data \in SUBSET Digests
    <3>1. k \in CacheKey /\ cache'[k] \in RangeFetch \cup {Absent}
      BY <2>0
    <3>2. \A f \in RangeFetch : f.data \in SUBSET Digests
      BY DEF RangeFetch
    <3>3. Absent.data \in SUBSET Digests
      BY DEF Absent
    <3> QED BY <3>1, <3>2, <3>3
  <2>2. Data(cache'[k].data) \in RangeFetch
    BY <2>1, FetchFacts
  <2>3. ranges' \in [Calls -> [CacheKey -> Slot]]
    <3>1. \/ UNCHANGED ranges
          \/ ranges' = [ranges EXCEPT ![c][k] = Data(cache'[k].data)]
      BY <1>3, LookUpFacts
    <3>2. \A f \in RangeFetch :
             [ranges EXCEPT ![c][k] = f] \in [Calls -> [CacheKey -> Slot]]
      BY <2>1
    <3> QED BY <2>2, <3>1, <3>2
  <2>4. /\ UNCHANGED <<pc, req, future, done, recording>>
        /\ todo' = [todo EXCEPT ![c] = @ \ {k}]
    BY <1>3, LookUpFacts
  <2>5. todo' \in [Calls -> SUBSET CacheKey]
    BY <2>4
  <2> QED BY <2>0, <2>3, <2>4, <2>5
<1>4. ASSUME NEW c \in Calls, Submit(c) PROVE TypeOK'
  <2>1. Pending(c) \subseteq CacheKey
    BY PlanIsKeys DEF Pending
  <2>2. [k \in CacheKey |-> IF k \in Pending(c) THEN "queued" ELSE "none"]
          \in [CacheKey -> FutureState]
    BY DEF FutureState
  <2> QED BY <1>4, <2>1, <2>2 DEF Submit
<1>5. ASSUME NEW c \in Calls, AllDone(c) PROVE TypeOK'
  BY <1>5 DEF AllDone
<1>6. ASSUME NEW c \in Calls, Deadline(c) PROVE TypeOK'
  BY <1>6 DEF Deadline, FinishedOf
<1>7. ASSUME NEW c \in Calls, NEW k \in todo[c], CollectTimeout(c, k) PROVE TypeOK'
  <2>1. k \in CacheKey /\ k.backend \in Backends
    BY DEF CacheKey
  <2>2. Failure(ERROR_TIMEOUT) \in RangeFetch
    BY FetchFacts DEF Errors
  <2>3. future' \in [Calls -> [CacheKey -> FutureState]]
    BY <1>7, <2>1 DEF CollectTimeout, CancelledState, FutureState
  <2>4. ranges' \in [Calls -> [CacheKey -> Slot]]
    BY <1>7, <2>1, <2>2 DEF CollectTimeout
  <2>5. records' \in [Calls -> [Backends -> [{"none"} \cup Errors -> Nat]]]
    BY <1>7, <2>1, RecordedType DEF CollectTimeout, TimeoutRecorded, Errors
  <2>6. timedOut' \in [Calls -> SUBSET Backends]
    BY <1>7, <2>1 DEF CollectTimeout
  <2> QED BY <1>7, <2>3, <2>4, <2>5, <2>6 DEF CollectTimeout
<1>8. ASSUME NEW c \in Calls, NEW k \in todo[c], CollectDone(c, k) PROVE TypeOK'
  <2>1. k \in CacheKey /\ Collected(c, k) \in RangeFetch
    BY CollectedFacts
  <2>2. ranges' \in [Calls -> [CacheKey -> Slot]]
    BY <1>8, <2>1 DEF CollectDone, Settle
  <2>3. cache' \in [CacheKey -> Slot]
    BY <1>8, <2>1, CacheStores
  <2>4. records' \in [Calls -> [Backends -> [{"none"} \cup Errors -> Nat]]]
    <3>1. k.backend \in Backends /\ Collected(c, k).error \in {"none"} \cup Errors
      BY <2>1 DEF CacheKey, RangeFetch
    <3> QED BY <1>8, <3>1, RecordedType DEF CollectDone, Settle
  <2> QED BY <1>8, <2>2, <2>3, <2>4 DEF CollectDone, Settle
<1>9. ASSUME NEW c \in Calls, Return(c) PROVE TypeOK'
  BY <1>9 DEF Return
<1>10. ASSUME NEW c \in Calls, NEW k \in CacheKey, Start(c, k) PROVE TypeOK'
  BY <1>10 DEF Start, FutureState
<1>11. ASSUME NEW c \in Calls, NEW k \in CacheKey, Respond(c, k) PROVE TypeOK'
  <2>1. OutcomesOf(k) \subseteq FutureState
    BY OutcomesAssumption DEF OutcomesOf, FutureState
  <2>2. future' \in [Calls -> [CacheKey -> FutureState]]
    BY <1>11, <2>1 DEF Respond
  <2> QED BY <1>11, <2>2 DEF Respond
<1>12. CASE Forget
  BY <1>12, CacheShrinks DEF Forget
<1>13. CASE UNCHANGED vars
  BY <1>13 DEF vars
<1> QED BY <1>1, <1>2, <1>3, <1>4, <1>5, <1>6, <1>7, <1>8, <1>9,
           <1>10, <1>11, <1>12, <1>13 DEF Next, Thread, Pool

\* Every variable of the fan-out keeps its type in every reachable state.
THEOREM TypeCorrect == Spec => []TypeOK
<1>1. Init => TypeOK
  BY DEF Init, TypeOK, Places, FutureState, Slot
<1> QED BY <1>1, TypeStep, PTL DEF Spec

-----------------------------------------------------------------------------
(* The inductive invariant. *)

Inv == TypeOK /\ CacheIsTruthful /\ CallInv

\* The invariant holds before any call.
LEMMA InitInv == Init => Inv
<1> SUFFICES ASSUME Init PROVE Inv
  OBVIOUS
<1>1. TypeOK
  BY DEF Init, TypeOK, Places, FutureState, Slot
<1>2. CacheIsTruthful
  BY DEF Init, CacheIsTruthful
<1>3. RangesAreTrue
  BY FetchFacts DEF Init, RangesAreTrue
<1>4. BegunIsSupported /\ PlanProgress /\ QueuedIsTodo /\ AnswersAreKept
  BY DEF Init, BegunIsSupported, PlanProgress, QueuedIsTodo, Queued, AnswersAreKept
<1> QED BY <1>1, <1>2, <1>3, <1>4 DEF Inv, CallInv

\* The cache loop only reads: what it takes is what the backend lists.
LEMMA LookUpInv ==
    ASSUME Inv, TypeOK', NEW c \in Calls, NEW k \in todo[c], LookUp(c, k)
    PROVE  Inv'
<1>1. k \in CacheKey
  BY DEF Inv, TypeOK
<1>2. CacheIsTruthful'
  BY LookUpFacts, CacheShrinks DEF Inv, TypeOK, CacheIsTruthful
<1>3. \A d \in Calls, j \in CacheKey :
         \/ ranges'[d][j] = ranges[d][j]
         \/ d = c /\ j = k /\ ranges'[d][j] = Data(Listed(k))
  <2>1. HasData(cache'[k]) => cache'[k] = Data(Listed(k))
    BY <1>1, <1>2, FetchFacts DEF CacheIsTruthful
  <2>2. HasData(cache'[k]) => Data(cache'[k].data) = Data(Listed(k))
    BY <2>1 DEF Data
  <2>3. \/ UNCHANGED ranges
        \/ ranges' = [ranges EXCEPT ![c][k] = Data(Listed(k))]
    BY <2>2, LookUpFacts
  <2> QED BY <1>1, <2>3 DEF Inv, TypeOK
<1>4. HasData(Data(Listed(k))) /\ Data(Listed(k)) # Absent
  BY <1>1, ListedIsDigests, FetchFacts
<1>5. /\ UNCHANGED <<pc, req, future, done>>
      /\ pc[c] = "lookup" /\ todo' = [todo EXCEPT ![c] = @ \ {k}]
  BY LookUpFacts
<1>6. RangesAreTrue'
  BY <1>3 DEF RangesAreTrue, Inv, CallInv
<1> USE <1>5 DEF Inv, CallInv, TypeOK
<1>7. BegunIsSupported'
  BY DEF BegunIsSupported
<1>8. PlanProgress'
  BY <1>3, PlanIsKeys DEF PlanProgress, Places
<1>9. QueuedIsTodo'
  BY DEF QueuedIsTodo, Queued
<1>10. AnswersAreKept'
  BY <1>3, <1>4 DEF AnswersAreKept
<1> QED BY <1>2, <1>6, <1>7, <1>8, <1>9, <1>10

\* Submitting turns every undecided key of the plan into a future to visit.
LEMMA SubmitInv ==
    ASSUME Inv, TypeOK', NEW c \in Calls, Submit(c)
    PROVE  Inv'
<1> USE DEF Inv, CallInv, TypeOK, Submit
<1>1. CacheIsTruthful' /\ RangesAreTrue' /\ BegunIsSupported'
  BY DEF CacheIsTruthful, RangesAreTrue, BegunIsSupported
<1>2. PlanProgress'
  BY DEF PlanProgress, Pending, Places
<1>3. QueuedIsTodo'
  <2>1. Queued(c)' \subseteq Pending(c)
    BY DEF Queued
  <2>2. Queued(c)' # {} => pc'[c] = "waiting" /\ todo'[c] = Pending(c)
    BY <2>1
  <2>3. \A d \in Calls \ {c} :
           Queued(d)' = Queued(d) /\ pc'[d] = pc[d] /\ todo'[d] = todo[d]
    BY DEF Queued
  <2> HIDE DEF TypeOK, Submit
  <2> QED BY <2>1, <2>2, <2>3 DEF QueuedIsTodo
<1>4. AnswersAreKept'
  BY DEF AnswersAreKept
<1> QED BY <1>1, <1>2, <1>3, <1>4

\* A key wait() did not return is decided as a timeout, and will not start.
LEMMA CollectTimeoutInv ==
    ASSUME Inv, TypeOK', NEW c \in Calls, NEW k \in todo[c], CollectTimeout(c, k)
    PROVE  Inv'
<1> USE DEF Inv, CallInv, TypeOK, CollectTimeout, CancelledState
<1>1. k \in CacheKey /\ ~HasData(Failure(ERROR_TIMEOUT)) /\ Failure(ERROR_TIMEOUT) # Absent
  BY FetchFacts DEF Errors
<1>2. CacheIsTruthful' /\ BegunIsSupported'
  BY DEF CacheIsTruthful, BegunIsSupported
<1>3. RangesAreTrue'
  BY <1>1 DEF RangesAreTrue
<1>4. PlanProgress'
  BY <1>1 DEF PlanProgress
<1>5. QueuedIsTodo'
  <2>1. Queued(c)' \subseteq Queued(c) \ {k}
    BY <1>1 DEF Queued
  <2>2. \A d \in Calls \ {c} : Queued(d)' = Queued(d)
    BY <1>1 DEF Queued
  <2> QED BY <2>1, <2>2 DEF QueuedIsTodo
<1>6. AnswersAreKept'
  BY <1>1 DEF AnswersAreKept, Finished
<1> QED BY <1>2, <1>3, <1>4, <1>5, <1>6

\* A done future is decided, and the cache gets what the backend lists.
LEMMA CollectDoneInv ==
    ASSUME Inv, TypeOK', NEW c \in Calls, NEW k \in todo[c], CollectDone(c, k)
    PROVE  Inv'
<1>1. k \in CacheKey
  BY DEF Inv, TypeOK
<1>2. CacheIsTruthful'
  <2>1. cache \in [CacheKey -> Slot] /\ CacheIsTruthful
    BY DEF Inv, TypeOK
  <2>2. \A j \in CacheKey : cache'[j] # Absent =>
           \/ cache'[j] = cache[j]
           \/ j = k /\ Stored(c, k) /\ cache'[j] = Collected(c, k)
    BY <1>1, <2>1, CacheStores
  <2>3. Stored(c, k) => Cacheable(k) /\ Collected(c, k) = Data(Listed(k))
    BY <1>1, CollectedFacts DEF Stored
  <2> QED BY <2>1, <2>2, <2>3 DEF CacheIsTruthful
<1> USE DEF Inv, CallInv, TypeOK, CollectDone, Settle
<1>3. RangesAreTrue'
  BY <1>1, CollectedFacts DEF RangesAreTrue
<1>4. BegunIsSupported'
  BY DEF BegunIsSupported
<1>5. PlanProgress'
  BY <1>1, CollectedFacts DEF PlanProgress
<1>6. QueuedIsTodo'
  <2>1. k \notin Queued(c)
    BY DEF AnswersAreKept, Queued, Finished
  <2> QED BY <2>1 DEF QueuedIsTodo, Queued
<1>7. AnswersAreKept'
  BY <1>1, CollectedFacts DEF AnswersAreKept
<1> QED BY <1>2, <1>3, <1>4, <1>5, <1>6, <1>7

\* A pool thread touches its futures only, and leaves each submitted.
LEMMA PoolMoves ==
    ASSUME TypeOK, NEW c \in Calls, NEW k \in CacheKey, Start(c, k) \/ Respond(c, k)
    PROVE  /\ UNCHANGED <<cache, pc, req, todo, ranges, done, recording>>
           /\ future[c][k] \in {"queued", "running"}
           /\ \E s \in FutureState \ {"none", "queued"} : future' = [future EXCEPT ![c][k] = s]
           /\ \A d \in Calls : Submitted(d)' = Submitted(d)
<1>1. /\ UNCHANGED <<cache, pc, req, todo, ranges, done, recording>>
      /\ future[c][k] \in {"queued", "running"}
  BY DEF Start, Respond, FirstOf, Queued, InFlight
<1>2. \E s \in FutureState \ {"none", "queued"} : future' = [future EXCEPT ![c][k] = s]
  <2>1. {"running"} \cup OutcomesOf(k) \subseteq FutureState \ {"none", "queued"}
    BY OutcomesAssumption DEF OutcomesOf, FutureState
  <2> QED BY <2>1 DEF Start, Respond
<1>3. \A d \in Calls : Submitted(d)' = Submitted(d)
  BY <1>1, <1>2 DEF Submitted, TypeOK
<1> QED BY <1>1, <1>2, <1>3

\* A pool thread moves one future on, and never one that is finished.
LEMMA PoolInv ==
    ASSUME Inv, TypeOK', NEW c \in Calls, NEW k \in CacheKey,
           Start(c, k) \/ Respond(c, k)
    PROVE  Inv'
<1> USE DEF Inv, CallInv, TypeOK
<1>1. /\ UNCHANGED <<cache, pc, req, todo, ranges, done, recording>>
      /\ future[c][k] \in {"queued", "running"}
      /\ \E s \in {"running"} \cup OutcomesOf(k) : future' = [future EXCEPT ![c][k] = s]
  BY DEF Start, Respond, FirstOf, Queued, InFlight
<1>2. \A s \in {"running"} \cup OutcomesOf(k) : s # "queued"
  BY OutcomesAssumption DEF OutcomesOf
<1>3. CacheIsTruthful' /\ RangesAreTrue' /\ BegunIsSupported' /\ PlanProgress'
  BY <1>1 DEF CacheIsTruthful, RangesAreTrue, BegunIsSupported, PlanProgress
<1>4. QueuedIsTodo'
  <2>1. \A d \in Calls : Queued(d)' \subseteq Queued(d)
    BY <1>1, <1>2 DEF Queued
  <2> QED BY <1>1, <2>1 DEF QueuedIsTodo
<1>5. AnswersAreKept'
  BY <1>1 DEF AnswersAreKept, Finished
<1> QED BY <1>3, <1>4, <1>5

\* However a wait ends, what it returns as done is finished and still to visit.
LEMMA WaitInv ==
    ASSUME Inv, TypeOK', NEW c \in Calls, AllDone(c) \/ Deadline(c)
    PROVE  Inv'
<1>1. /\ pc[c] = "waiting" /\ pc' = [pc EXCEPT ![c] = "collect"]
      /\ done' = [done EXCEPT ![c] = FinishedOf(c)]
      /\ UNCHANGED <<cache, req, todo, ranges, future>>
  BY DEF AllDone, Deadline, recording
<1>2. CacheIsTruthful' /\ RangesAreTrue'
  BY <1>1 DEF CacheIsTruthful, RangesAreTrue, Inv, CallInv
<1>3. BegunIsSupported' /\ PlanProgress'
  BY <1>1 DEF BegunIsSupported, PlanProgress, Inv, CallInv, TypeOK
<1>4. QueuedIsTodo'
  BY <1>1 DEF QueuedIsTodo, Queued, Inv, CallInv, TypeOK
<1>5. AnswersAreKept'
  <2> SUFFICES ASSUME NEW d \in Calls, NEW k \in CacheKey, k \in done'[d]
               PROVE  /\ pc'[d] \in {"collect", "returned"}
                      /\ future[d][k] \in Finished
                      /\ future[d][k] = "answered" =>
                            HasData(ranges[d][k]) \/ (pc'[d] = "collect" /\ k \in todo[d])
    BY <1>1 DEF AnswersAreKept
  <2>1. CASE d # c
    BY <1>1, <2>1 DEF AnswersAreKept, Inv, CallInv, TypeOK
  <2>2. CASE d = c
    <3>1. k \in FinishedOf(c) /\ pc'[c] = "collect"
      BY <1>1, <2>2 DEF Inv, TypeOK
    <3>2. future[c][k] \in Finished /\ k \in todo[c]
      BY <3>1 DEF FinishedOf
    <3> QED BY <2>2, <3>1, <3>2
  <2> QED BY <2>1, <2>2
<1> QED BY <1>2, <1>3, <1>4, <1>5 DEF Inv, CallInv

\* A call that is refused, begins or returns has no fetch queued and no answer
\* to keep but in `ranges`.
LEMMA TurnInv ==
    ASSUME Inv, TypeOK', NEW c \in Calls, Refuse(c) \/ Begin(c) \/ Return(c)
    PROVE  Inv'
<1>1. /\ UNCHANGED <<cache, req, ranges, future, done>>
      /\ \A d \in Calls \ {c} : pc'[d] = pc[d] /\ todo'[d] = todo[d]
  BY DEF Refuse, Begin, Return, recording, Inv, TypeOK
<1>2. \/ pc[c] = "idle" /\ pc'[c] = "refused"
      \/ pc[c] = "idle" /\ pc'[c] = "lookup" /\ Applicable(req[c].algorithm) # {}
      \/ pc[c] = "collect" /\ pc'[c] = "returned" /\ todo[c] = {} /\ todo'[c] = {}
  BY DEF Refuse, Begin, Return, Inv, TypeOK
<1>3. CacheIsTruthful' /\ RangesAreTrue'
  BY <1>1 DEF CacheIsTruthful, RangesAreTrue, Inv, CallInv
<1>4. BegunIsSupported'
  BY <1>1, <1>2 DEF BegunIsSupported, Inv, CallInv
<1>5. PlanProgress'
  BY <1>1, <1>2 DEF PlanProgress, Inv, CallInv
<1>6. QueuedIsTodo'
  <2>1. Queued(c) = {}
    BY <1>2 DEF QueuedIsTodo, Inv, CallInv
  <2>2. \A d \in Calls : Queued(d)' = Queued(d)
    BY <1>1 DEF Queued
  <2> QED BY <1>1, <2>1, <2>2 DEF QueuedIsTodo, Inv, CallInv
<1>7. AnswersAreKept'
  <2>1. \A k \in CacheKey : k \in done[c] =>
           /\ pc'[c] = "returned"
           /\ future[c][k] \in Finished
           /\ future[c][k] = "answered" => HasData(ranges[c][k])
    BY <1>2 DEF AnswersAreKept, Inv, CallInv
  <2> QED BY <1>1, <2>1 DEF AnswersAreKept, Inv, CallInv
<1> QED BY <1>3, <1>4, <1>5, <1>6, <1>7 DEF Inv, CallInv

\* Every step of any call, pool or entry keeps the invariant.
LEMMA InvStep == Inv /\ [Next]_vars => Inv'
<1> SUFFICES ASSUME Inv, [Next]_vars
             PROVE  Inv'
  OBVIOUS
<1> TypeOK'
  BY TypeStep DEF Inv
<1>1. CASE Forget
  <2>1. /\ UNCHANGED <<pc, req, todo, ranges, future, done>>
        /\ \E gone \in SUBSET Full : cache' = Without(gone, cache)
    BY <1>1 DEF Forget, recording
  <2>2. cache \in [CacheKey -> Slot]
    BY DEF Inv, TypeOK
  <2>3. \A k \in CacheKey : cache'[k] # Absent => cache'[k] = cache[k]
    BY <2>1, <2>2, CacheShrinks
  <2>4. CacheIsTruthful'
    BY <2>3 DEF CacheIsTruthful, Inv
  <2> QED BY <2>1, <2>4 DEF Inv, CallInv, RangesAreTrue, BegunIsSupported, PlanProgress,
                            QueuedIsTodo, Queued, AnswersAreKept
<1>2. CASE UNCHANGED vars
  BY <1>2 DEF vars, Inv, CallInv, CacheIsTruthful, RangesAreTrue, BegunIsSupported,
              PlanProgress, QueuedIsTodo, Queued, AnswersAreKept
<1> QED BY <1>1, <1>2, TurnInv, LookUpInv, SubmitInv, WaitInv,
           CollectTimeoutInv, CollectDoneInv, PoolInv
        DEF Next, Thread, Pool

\* Every reachable state satisfies the invariant.
THEOREM Invariance == Spec => []Inv
BY InitInv, InvStep, PTL DEF Spec

\* What a call knows of its keys at each point of its program, whatever the
\* other calls, their pools and the cache are at.
THEOREM CallInvariance == Spec => []CallInv
<1>1. Inv => CallInv
  BY DEF Inv
<1> QED BY <1>1, Invariance, PTL

-----------------------------------------------------------------------------
(* The promises. *)

\* An answer about a digest is about that digest: it is in the range under
\* its key exactly when the backend lists it.
LEMMA LookupIsExact ==
    ASSUME NEW r \in Requests, NEW i \in DOMAIN r.items, NEW b \in Backends
    PROVE  r.items[i] \in Listed(KeyOf(b, r.algorithm, r.items[i]))
              <=> r.items[i] \in Corpus[b]
<1>1. AlgorithmOf[r.items[i]] = r.algorithm
  BY RequestsAssumption
<1> QED BY <1>1 DEF Listed, KeyOf

\* The result a call reports for one backend that applies: the truth about
\* the digest when data is held, a failure when it is not.
LEMMA ResultFacts ==
    ASSUME Inv, NEW c \in Calls, pc[c] = "returned", NEW d \in Items(c),
           NEW b \in Applicable(req[c].algorithm)
    PROVE  /\ HasData(Held(c, b, d)) =>
                 ResultOf(c, b, d) = Answered(d \in Corpus[b])
           /\ ~HasData(Held(c, b, d)) =>
                 \E e \in Errors : ResultOf(c, b, d) = Unanswered(e)
<1> DEFINE k == KeyOf(b, req[c].algorithm, d)
<1> PICK i \in DOMAIN req[c].items : d = req[c].items[i]
  BY DEF Items
<1>1. req[c] \in Requests /\ b \in Backends /\ b \in Enabled
  BY EnabledAssumption DEF Inv, TypeOK, Applicable
<1>2. k \in Plan(req[c])
  BY DEF Plan
<1>3. k \in CacheKey /\ ranges[c][k] \in RangeFetch /\ ranges[c][k] # Absent
  BY <1>1, <1>2, PlanIsKeys DEF Inv, TypeOK, CallInv, PlanProgress, Slot
<1>4. CASE HasData(ranges[c][k])
  <2>1. ranges[c][k] = Data(Listed(k))
    BY <1>3, <1>4 DEF Inv, CallInv, RangesAreTrue
  <2>2. ranges[c][k].data = Listed(k)
    BY <2>1 DEF Data
  <2>3. d \in ranges[c][k].data <=> d \in Corpus[b]
    BY <1>1, <2>2, LookupIsExact
  <2>4. ResultOf(c, b, d) = Answered(d \in ranges[c][k].data)
    BY <1>1, <1>4 DEF ResultOf
  <2>5. Answered(d \in ranges[c][k].data) = Answered(d \in Corpus[b])
    BY <2>3 DEF Answered
  <2> QED BY <1>4, <2>4, <2>5 DEF Held
<1>5. CASE ~HasData(ranges[c][k])
  <2>1. ResultOf(c, b, d) = Unanswered(ranges[c][k].error)
    BY <1>1, <1>3, <1>5 DEF ResultOf
  <2>2. ranges[c][k].error \in Errors
    BY <1>3, <1>5 DEF RangeFetch, HasData
  <2> QED BY <1>5, <2>1, <2>2 DEF Held
<1> QED BY <1>4, <1>5

\* A backend outside the plan contributes neither a hit nor a failure.
LEMMA SilentFacts ==
    ASSUME NEW c \in Calls, NEW d, NEW b \in Backends \ Applicable(req[c].algorithm)
    PROVE  ResultOf(c, b, d).hit = "none" /\ ResultOf(c, b, d).error = "none"
<1>1. CASE b \notin Enabled
  BY <1>1 DEF ResultOf, Placeholder, Applicable
<1>2. CASE b \in Enabled
  BY <1>2 DEF ResultOf, NotApplicable
<1> QED BY <1>1, <1>2

\* "safe" is only said of digests no answering backend lists.
THEOREM AllClearIsTrue == Spec => []NoFalseAllClear
<1>1. Inv => NoFalseAllClear
  <2> SUFFICES ASSUME Inv, NEW c \in Calls, pc[c] = "returned"
               PROVE  /\ Applicable(req[c].algorithm) # {}
                      /\ \A d \in Items(c) : VerdictOf(c, d) = "safe" =>
                            \A b \in Applicable(req[c].algorithm) :
                                \/ HasData(Held(c, b, d)) /\ d \notin Corpus[b]
                                \/ /\ ~HasData(Held(c, b, d))
                                   /\ OnError[b] = "fail_open"
                                   /\ Degraded(Results(c, d))
    BY DEF NoFalseAllClear
  <2>1. Applicable(req[c].algorithm) # {}
    BY DEF Inv, CallInv, BegunIsSupported
  <2>2. ASSUME NEW d \in Items(c), VerdictOf(c, d) = "safe",
               NEW b \in Applicable(req[c].algorithm)
        PROVE  \/ HasData(Held(c, b, d)) /\ d \notin Corpus[b]
               \/ /\ ~HasData(Held(c, b, d))
                  /\ OnError[b] = "fail_open"
                  /\ Degraded(Results(c, d))
    <3> DEFINE results == Results(c, d)
    <3>1. b \in Backends /\ results[b] = ResultOf(c, b, d)
      BY EnabledAssumption DEF Applicable, Results
    <3>2. /\ \A x \in Failed(results) : OnError[x] # "fail_closed"
          /\ WorstHit(results) = "safe"
      BY <2>2 DEF Resolve, VerdictOf
    <3>3. CASE HasData(Held(c, b, d))
      <4>1. results[b] = Answered(d \in Corpus[b])
        BY <3>1, <3>3, ResultFacts
      <4>2. ~Hit(results, b)
        BY <3>1, <3>2 DEF WorstHit, Backends
      <4> QED BY <3>3, <4>1, <4>2 DEF Hit, Answered
    <3>4. CASE ~HasData(Held(c, b, d))
      <4>1. PICK e \in Errors : results[b] = Unanswered(e)
        BY <3>1, <3>4, ResultFacts
      <4>2. b \in Failed(results)
        BY <3>1, <4>1 DEF Failed, Unanswered, Errors, ERROR_TIMEOUT, ERROR_NETWORK, ERROR_INTERNAL
      <4>3. OnError[b] = "fail_open"
        BY <3>1, <3>2, <4>2, OnErrorAssumption
      <4>4. Degraded(Results(c, d))
        BY <4>2 DEF Degraded
      <4> QED BY <3>4, <4>3, <4>4
    <3> QED BY <3>3, <3>4
  <2> QED BY <2>1, <2>2
<1> QED BY <1>1, Invariance, PTL

\* A word of alarm is only used when the backend behind it lists the digest.
THEOREM AlarmIsTrue == Spec => []NoFalseAlarm
<1>1. ASSUME Inv, NEW c \in Calls, pc[c] = "returned", NEW d \in Items(c),
             NEW b \in Backends, ResultOf(c, b, d).hit = "hit"
      PROVE  d \in Corpus[b]
  <2>1. b \in Applicable(req[c].algorithm)
    BY <1>1, SilentFacts
  <2>2. HasData(Held(c, b, d))
    BY <1>1, <2>1, ResultFacts DEF Unanswered
  <2> QED BY <1>1, <2>1, <2>2, ResultFacts DEF Answered
<1>2. Inv => NoFalseAlarm
  <2> SUFFICES ASSUME Inv, NEW c \in Calls, pc[c] = "returned", NEW d \in Items(c)
               PROVE  /\ VerdictOf(c, d) = "leaked" => d \in Corpus["hibp"]
                      /\ VerdictOf(c, d) = "precomputed" => d \in Corpus["weakpass"]
                      /\ VerdictOf(c, d) = "denylisted" => d \in Corpus["denylist"]
    BY DEF NoFalseAlarm
  <2> DEFINE results == Results(c, d)
  <2>1. \A b \in Backends : Hit(results, b) => d \in Corpus[b]
    BY <1>1 DEF Hit, Results
  <2>2. VerdictOf(c, d) \in {"error", WorstHit(results)}
    BY DEF VerdictOf, Resolve
  <2> HIDE DEF results
  <2>3. /\ WorstHit(results) = "leaked" => Hit(results, "hibp")
        /\ WorstHit(results) = "precomputed" => Hit(results, "weakpass")
        /\ WorstHit(results) = "denylisted" => Hit(results, "denylist")
    BY DEF WorstHit
  <2>4. WorstHit(results) # "error"
    BY DEF WorstHit
  <2> QED BY <2>1, <2>2, <2>3, <2>4 DEF Backends
<1> QED BY <1>2, Invariance, PTL

\* A hit that came back in time is never lost.
THEOREM HitIsKept == Spec => []NoMissedHit
<1>1. Inv => NoMissedHit
  <2> SUFFICES ASSUME Inv, NEW c \in Calls, pc[c] = "returned", NEW d \in Items(c),
                      NEW b \in Applicable(req[c].algorithm),
                      KeyOf(b, req[c].algorithm, d) \in done[c],
                      future[c][KeyOf(b, req[c].algorithm, d)] = "answered",
                      d \in Corpus[b]
               PROVE  VerdictOf(c, d) # "safe"
    BY DEF NoMissedHit
  <2>1. KeyOf(b, req[c].algorithm, d) \in CacheKey
    BY DEF Inv, TypeOK
  <2>2. HasData(Held(c, b, d))
    BY <2>1 DEF Held, Inv, CallInv, AnswersAreKept
  <2>3. b \in Backends /\ Results(c, d)[b] = Answered(TRUE)
    <3>1. ResultOf(c, b, d) = Answered(d \in Corpus[b])
      BY <2>2, ResultFacts
    <3> QED BY <3>1, EnabledAssumption DEF Applicable, Results, Answered
  <2>4. Hit(Results(c, d), b)
    BY <2>3 DEF Hit, Answered
  <2>5. WorstHit(Results(c, d)) # "safe"
    BY <2>3, <2>4 DEF WorstHit, Backends
  <2> QED BY <2>5 DEF VerdictOf, Resolve
<1> QED BY <1>1, Invariance, PTL

\* The cache never holds anything but an answer of the backend for that key.
THEOREM CacheTruth == Spec => []CacheIsTruthful
<1>1. Inv => CacheIsTruthful
  BY DEF Inv
<1> QED BY <1>1, Invariance, PTL

\* Every key a returned call's items need has been decided.
THEOREM Decided == Spec => []NothingUndecided
<1>1. Inv => NothingUndecided
  <2> SUFFICES ASSUME Inv, NEW c \in Calls, pc[c] = "returned", NEW d \in Items(c),
                      NEW b \in Applicable(req[c].algorithm)
               PROVE  Held(c, b, d) # Absent
    BY DEF NothingUndecided
  <2>1. KeyOf(b, req[c].algorithm, d) \in Plan(req[c])
    BY DEF Items, Plan
  <2> QED BY <2>1 DEF Held, Inv, CallInv, PlanProgress
<1> QED BY <1>1, Invariance, PTL

\* After a call has returned, its pool starts nothing.
THEOREM ReturnedPoolIsIdle == Spec => NoFetchAfterReturn
<1>1. ASSUME Inv, [Next]_vars
      PROVE  \A c \in Calls : pc[c] = "returned" => InFlight(c)' \subseteq InFlight(c)
  <2> SUFFICES ASSUME NEW c \in Calls, pc[c] = "returned"
               PROVE  InFlight(c)' \subseteq InFlight(c)
    OBVIOUS
  <2> USE DEF InFlight, Inv, TypeOK
  <2>1. ASSUME NEW d \in Calls, NEW k \in CacheKey, Start(d, k)
        PROVE  InFlight(c)' \subseteq InFlight(c)
    <3>1. Queued(d) # {}
      BY <2>1 DEF Start, FirstOf
    <3>2. d # c
      BY <1>1, <3>1 DEF CallInv, QueuedIsTodo
    <3> QED BY <2>1, <3>2 DEF Start
  <2>2. ASSUME NEW d \in Calls, NEW k \in CacheKey, Respond(d, k)
        PROVE  InFlight(c)' \subseteq InFlight(c)
    BY <2>2, OutcomesAssumption DEF Respond, OutcomesOf
  <2>3. ASSUME NEW d \in Calls, Submit(d)
        PROVE  InFlight(c)' \subseteq InFlight(c)
    BY <2>3 DEF Submit
  <2>4. ASSUME NEW d \in Calls, NEW k \in todo[d], CollectTimeout(d, k)
        PROVE  InFlight(c)' \subseteq InFlight(c)
    BY <2>4 DEF CollectTimeout, CancelledState
  <2>5. ASSUME UNCHANGED future
        PROVE  InFlight(c)' \subseteq InFlight(c)
    BY <2>5
  <2> QED BY <1>1, <2>1, <2>2, <2>3, <2>4, <2>5
          DEF Next, Thread, Pool, Refuse, Begin, AllDone, Deadline,
              Return, LookUp, Take, CollectDone, Settle, Forget, vars
<1> QED BY <1>1, Invariance, PTL DEF Spec, NoFetchAfterReturn

\* A single check plans one key for each backend that applies, and no more.
LEMMA SinglePlan ==
    ASSUME NEW r \in Requests, r.kind = "single"
    PROVE  IsFiniteSet(Plan(r))
<1> DEFINE k(b) == KeyOf(b, r.algorithm, r.items[1])
<1>1. DOMAIN r.items = {1}
  BY RequestsAssumption DEF Request
<1>2. Plan(r) \subseteq ({k("hibp")} \cup {k("weakpass")}) \cup {k("denylist")}
  BY <1>1, EnabledAssumption DEF Plan, Applicable, Backends
<1> HIDE DEF k
<1>3. IsFiniteSet(({k("hibp")} \cup {k("weakpass")}) \cup {k("denylist")})
  BY FS_Singleton, FS_AddElement
<1> QED BY <1>2, <1>3, FS_Subset

\* Futures are submitted for the undecided keys of the plan, and each stays in
\* the collecting loop until it is visited.
LEMMA PlannedStep == Inv /\ FuturesArePlanned /\ [Next]_vars => FuturesArePlanned'
<1> SUFFICES ASSUME Inv, FuturesArePlanned, [Next]_vars
             PROVE  FuturesArePlanned'
  OBVIOUS
<1> USE DEF Inv, TypeOK, FuturesArePlanned, Submitted
<1>1. ASSUME NEW c \in Calls, Refuse(c) PROVE FuturesArePlanned'
  BY <1>1 DEF Refuse
<1>2. ASSUME NEW c \in Calls, Begin(c) PROVE FuturesArePlanned'
  BY <1>2 DEF Begin
<1>3. ASSUME NEW c \in Calls, NEW k \in todo[c], LookUp(c, k) PROVE FuturesArePlanned'
  <2>1. /\ UNCHANGED <<pc, req, future>> /\ pc[c] = "lookup"
        /\ todo' = [todo EXCEPT ![c] = @ \ {k}]
    BY <1>3, LookUpFacts
  <2> QED BY <2>1
<1>4. ASSUME NEW c \in Calls, Submit(c) PROVE FuturesArePlanned'
  <2>1. Pending(c) \subseteq CacheKey /\ Pending(c) \subseteq Plan(req[c])
    BY PlanIsKeys DEF Pending
  <2>2. Submitted(c)' = Pending(c) /\ \A d \in Calls \ {c} : Submitted(d)' = Submitted(d)
    BY <1>4, <2>1 DEF Submit
  <2> QED BY <1>4, <2>1, <2>2 DEF Submit
<1>5. ASSUME NEW c \in Calls, AllDone(c) PROVE FuturesArePlanned'
  BY <1>5 DEF AllDone
<1>6. ASSUME NEW c \in Calls, Deadline(c) PROVE FuturesArePlanned'
  BY <1>6 DEF Deadline
<1>7. ASSUME NEW c \in Calls, NEW k \in todo[c], CollectTimeout(c, k) PROVE FuturesArePlanned'
  <2>1. \A d \in Calls : Submitted(d)' = Submitted(d)
    BY <1>7 DEF CollectTimeout, CancelledState
  <2> QED BY <1>7, <2>1 DEF CollectTimeout
<1>8. ASSUME NEW c \in Calls, NEW k \in todo[c], CollectDone(c, k) PROVE FuturesArePlanned'
  BY <1>8 DEF CollectDone, Settle
<1>9. ASSUME NEW c \in Calls, Return(c) PROVE FuturesArePlanned'
  BY <1>9 DEF Return
<1>10. ASSUME NEW c \in Calls, NEW k \in CacheKey, Start(c, k) \/ Respond(c, k)
       PROVE  FuturesArePlanned'
  <2>1. UNCHANGED <<pc, req, todo>> /\ \A d \in Calls : Submitted(d)' = Submitted(d)
    BY <1>10, PoolMoves
  <2> QED BY <2>1
<1>11. CASE Forget
  BY <1>11 DEF Forget
<1>12. CASE UNCHANGED vars
  BY <1>12 DEF vars
<1> QED BY <1>1, <1>2, <1>3, <1>4, <1>5, <1>6, <1>7, <1>8, <1>9, <1>10, <1>11, <1>12
        DEF Next, Thread, Pool

\* Every reachable call keeps its futures within its plan and its loop.
LEMMA Planned == Spec => []FuturesArePlanned
<1>1. Init => FuturesArePlanned
  BY DEF Init, FuturesArePlanned, Submitted
<1> QED BY <1>1, PlannedStep, Invariance, PTL DEF Spec

\* In a single check a queued fetch never waits for another to end.
THEOREM SingleIsParallel == Spec => []NoFetchHeldUp
<1>1. ASSUME Inv, FuturesArePlanned, NEW c \in Calls,
             req[c].kind = "single", Queued(c) # {}
      PROVE  Cardinality(InFlight(c)) < PoolSize(c)
  <2>1. IsFiniteSet(Plan(req[c])) /\ Submitted(c) \subseteq Plan(req[c])
    BY <1>1, SinglePlan DEF Inv, TypeOK, FuturesArePlanned
  <2>2. /\ InFlight(c) \subseteq Submitted(c) /\ InFlight(c) # Submitted(c)
    BY <1>1 DEF InFlight, Queued, Submitted
  <2>3. /\ IsFiniteSet(Submitted(c))
        /\ Cardinality(Submitted(c)) <= Cardinality(Plan(req[c]))
    BY <2>1, FS_Subset
  <2>4. /\ IsFiniteSet(InFlight(c))
        /\ Cardinality(InFlight(c)) <= Cardinality(Submitted(c))
        /\ Cardinality(InFlight(c)) # Cardinality(Submitted(c))
    BY <2>2, <2>3, FS_Subset
  <2>5. /\ Cardinality(Plan(req[c])) \in Nat
        /\ Cardinality(Submitted(c)) \in Nat
        /\ Cardinality(InFlight(c)) \in Nat
    BY <2>1, <2>3, <2>4, FS_CardinalityType
  <2>6. MaxWorkers(req[c]) = Cardinality(Plan(req[c]))
    BY <1>1 DEF MaxWorkers
  <2>7. PoolSize(c) = Cardinality(Submitted(c))
    BY <2>3, <2>5, <2>6 DEF PoolSize
  <2> QED BY <2>4, <2>5, <2>7
<1>2. Inv /\ FuturesArePlanned => NoFetchHeldUp
  BY <1>1 DEF NoFetchHeldUp
<1> QED BY <1>2, Planned, Invariance, PTL

-----------------------------------------------------------------------------
(* What the health records are told. *)

\* The four ways to record an outcome are told apart.
LEMMA OutcomeWords ==
    /\ \A outcome \in Finished : ErrorOf[outcome] \in ({"none"} \cup Errors) \ {ERROR_TIMEOUT}
    /\ \A o1, o2 \in Finished : ErrorOf[o1] = ErrorOf[o2] => o1 = o2
BY DEF Finished, ErrorOf, Errors, ERROR_TIMEOUT, ERROR_NETWORK, ERROR_INTERNAL

\* RecordsSoFar, for one call and backend.
ExactFor(c, b) ==
    /\ \A outcome \in Finished :
          /\ IsFiniteSet(SettledAs(c, b, outcome))
          /\ records[c][b][ErrorOf[outcome]] = Cardinality(SettledAs(c, b, outcome))
    /\ records[c][b][ERROR_TIMEOUT] = IF b \in timedOut[c] THEN 1 ELSE 0
    /\ b \in timedOut[c] <=> GivenUp(c, b) # {}

\* A step that visits no future of a call, and moves none that is visited and
\* done, leaves its records exact.
LEMMA ExactKept ==
    ASSUME NEW c \in Calls, NEW b \in Backends, ExactFor(c, b),
           records'[c] = records[c], timedOut'[c] = timedOut[c],
           Visited(c)' = Visited(c),
           Visited(c) \cap done'[c] = Visited(c) \cap done[c],
           \A k \in Visited(c) \cap done[c] : future'[c][k] = future[c][k]
    PROVE  ExactFor(c, b)'
<1>1. ASSUME NEW outcome PROVE SettledAs(c, b, outcome)' = SettledAs(c, b, outcome)
  BY DEF SettledAs, InTime
<1>2. GivenUp(c, b)' = GivenUp(c, b)
  BY DEF GivenUp, Stranded, Visited
<1> HIDE DEF SettledAs, GivenUp
<1> QED BY <1>1, <1>2 DEF ExactFor

\* A step that visits no future of any call leaves all records exact.
LEMMA NothingVisited ==
    ASSUME RecordsSoFar, UNCHANGED recording,
           \A c \in Calls :
              /\ Visited(c)' = Visited(c)
              /\ Visited(c) = {} \/ done'[c] = done[c]
              /\ \A k \in Visited(c) \cap done[c] : future'[c][k] = future[c][k]
    PROVE  RecordsSoFar'
<1> SUFFICES ASSUME NEW c \in Calls, NEW b \in Backends PROVE ExactFor(c, b)'
  BY DEF RecordsSoFar, ExactFor
<1>1. ExactFor(c, b)
  BY DEF RecordsSoFar, ExactFor
<1> QED BY <1>1, ExactKept DEF recording

\* A stranded future adds a timeout if it is the first of its backend.
LEMMA RecordsCollectTimeout ==
    ASSUME Inv, FuturesArePlanned, RecordsSoFar,
           NEW c \in Calls, NEW k \in todo[c], CollectTimeout(c, k)
    PROVE  RecordsSoFar'
<1> SUFFICES ASSUME NEW d \in Calls, NEW b \in Backends PROVE ExactFor(d, b)'
  BY DEF RecordsSoFar, ExactFor
<1>1. ExactFor(d, b)
  BY DEF RecordsSoFar, ExactFor
<1>2. /\ k \in CacheKey /\ k.backend \in Backends /\ k \in Submitted(c) /\ k \notin done[c]
      /\ pc[c] = "collect" /\ UNCHANGED done
      /\ todo' = [todo EXCEPT ![c] = @ \ {k}]
      /\ timedOut' = [timedOut EXCEPT ![c] = @ \cup {k.backend}]
      /\ records' = TimeoutRecorded(c, k.backend)
  BY DEF CollectTimeout, Inv, TypeOK, FuturesArePlanned, CacheKey
<1>3. \A e \in Calls : Submitted(e)' = Submitted(e)
  BY DEF CollectTimeout, CancelledState, Submitted, Inv, TypeOK
<1>4. \A e \in Calls, j \in CacheKey : (e = c /\ j = k) \/ future'[e][j] = future[e][j]
  BY <1>2 DEF CollectTimeout, Inv, TypeOK
<1>t. todo \in [Calls -> SUBSET CacheKey] /\ timedOut \in [Calls -> SUBSET Backends]
      /\ records \in [Calls -> [Backends -> [{"none"} \cup Errors -> Nat]]]
      /\ done \in [Calls -> SUBSET CacheKey]
  BY DEF Inv, TypeOK
<1>5. CASE d # c
  <2>1. records'[d] = records[d] /\ timedOut'[d] = timedOut[d] /\ todo'[d] = todo[d]
    BY <1>2, <1>5, <1>t DEF TimeoutRecorded, Recorded
  <2>2. Visited(d)' = Visited(d)
    BY <1>3, <2>1 DEF Visited
  <2> QED BY <1>1, <1>2, <1>4, <1>5, <1>t, <2>1, <2>2, ExactKept
<1>6. CASE d = c
  <2>1. Visited(c)' = Visited(c) \cup {k}
    BY <1>2, <1>3, <1>t DEF Visited
  <2>2. ASSUME NEW outcome
        PROVE  SettledAs(c, b, outcome)' = SettledAs(c, b, outcome)
    BY <1>2, <1>4, <1>t, <2>1 DEF SettledAs, InTime
  <2>3. GivenUp(c, b)' = IF b = k.backend THEN GivenUp(c, b) \cup {k} ELSE GivenUp(c, b)
    BY <1>2, <1>3, <1>t, <2>1 DEF GivenUp, Stranded
  <2>4. \A outcome \in Finished :
           records'[c][b][ErrorOf[outcome]] = records[c][b][ErrorOf[outcome]]
    <3>1. \A e \in {"none"} \cup Errors : e # ERROR_TIMEOUT => records'[c][b][e] = records[c][b][e]
      BY <1>2, <1>t DEF TimeoutRecorded, Recorded
    <3> QED BY <3>1, OutcomeWords
  <2>5. timedOut'[c] = timedOut[c] \cup {k.backend}
    BY <1>2, <1>t
  <2>6. records'[c][b][ERROR_TIMEOUT] = IF b \in timedOut'[c] THEN 1 ELSE 0
    <3>1. records[c][b][ERROR_TIMEOUT] = IF b \in timedOut[c] THEN 1 ELSE 0
      BY <1>1, <1>6 DEF ExactFor
    <3>2. ERROR_TIMEOUT \in {"none"} \cup Errors
      BY DEF Errors
    <3> QED BY <1>2, <1>t, <2>5, <3>1, <3>2 DEF TimeoutRecorded, Recorded
  <2>7. b \in timedOut'[c] <=> GivenUp(c, b)' # {}
    BY <1>1, <1>6, <2>3, <2>5 DEF ExactFor
  <2> HIDE DEF SettledAs, GivenUp
  <2> QED BY <1>1, <1>6, <2>2, <2>4, <2>6, <2>7 DEF ExactFor
<1> QED BY <1>5, <1>6

\* A future done in time adds the one record of what it came to.
LEMMA RecordsSettle ==
    ASSUME Inv, FuturesArePlanned, RecordsSoFar,
           NEW c \in Calls, NEW k \in todo[c], Settle(c, k)
    PROVE  RecordsSoFar'
<1> SUFFICES ASSUME NEW d \in Calls, NEW b \in Backends PROVE ExactFor(d, b)'
  BY DEF RecordsSoFar, ExactFor
<1>1. ExactFor(d, b)
  BY DEF RecordsSoFar, ExactFor
<1> DEFINE came == future[c][k]
<1>2. /\ k \in CacheKey /\ k.backend \in Backends /\ k \in Submitted(c) /\ k \in done[c]
      /\ came \in Finished
      /\ UNCHANGED <<future, done, timedOut>>
      /\ todo' = [todo EXCEPT ![c] = @ \ {k}]
  BY DEF Settle, Inv, TypeOK, CallInv, AnswersAreKept, FuturesArePlanned, CacheKey
<1>3. Collected(c, k).error = ErrorOf[came]
  BY <1>2 DEF Collected, Data, Failure, ErrorOf, Finished
<1>4. records' = Recorded(c, k.backend, ErrorOf[came])
  BY <1>3 DEF Settle
<1>5. \A e \in Calls : Submitted(e)' = Submitted(e)
  BY <1>2 DEF Submitted
<1>t. todo \in [Calls -> SUBSET CacheKey]
      /\ records \in [Calls -> [Backends -> [{"none"} \cup Errors -> Nat]]]
  BY DEF Inv, TypeOK
<1> HIDE DEF came
<1>6. CASE d # c
  <2>1. records'[d] = records[d] /\ todo'[d] = todo[d]
    BY <1>2, <1>4, <1>6, <1>t DEF Recorded
  <2>2. Visited(d)' = Visited(d)
    BY <1>5, <2>1 DEF Visited
  <2> QED BY <1>1, <1>2, <2>1, <2>2, ExactKept
<1>7. CASE d = c
  <2>1. Visited(c)' = Visited(c) \cup {k} /\ k \notin Visited(c)
    BY <1>2, <1>5, <1>t DEF Visited
  <2>2. GivenUp(c, b)' = GivenUp(c, b)
    BY <1>2, <1>5, <2>1 DEF GivenUp, Stranded
  <2>3. ASSUME NEW outcome \in Finished
        PROVE  /\ IsFiniteSet(SettledAs(c, b, outcome)')
               /\ records'[c][b][ErrorOf[outcome]] = Cardinality(SettledAs(c, b, outcome)')
    <3>1. /\ IsFiniteSet(SettledAs(c, b, outcome))
          /\ records[c][b][ErrorOf[outcome]] = Cardinality(SettledAs(c, b, outcome))
      BY <1>1, <1>7 DEF ExactFor
    <3>2. CASE b = k.backend /\ outcome = came
      <4>1. /\ SettledAs(c, b, outcome)' = SettledAs(c, b, outcome) \cup {k}
            /\ k \notin SettledAs(c, b, outcome)
        BY <1>2, <2>1, <3>2 DEF SettledAs, InTime, came
      <4>2. /\ IsFiniteSet(SettledAs(c, b, outcome)')
            /\ Cardinality(SettledAs(c, b, outcome)') = Cardinality(SettledAs(c, b, outcome)) + 1
        BY <3>1, <4>1, FS_AddElement
      <4>3. records'[c][b][ErrorOf[outcome]] = records[c][b][ErrorOf[outcome]] + 1
        BY <1>4, <1>t, <3>2, OutcomeWords DEF Recorded
      <4> QED BY <3>1, <4>2, <4>3
    <3>3. CASE ~(b = k.backend /\ outcome = came)
      <4>1. SettledAs(c, b, outcome)' = SettledAs(c, b, outcome)
        BY <1>2, <2>1, <3>3 DEF SettledAs, InTime, came
      <4>2. records'[c][b][ErrorOf[outcome]] = records[c][b][ErrorOf[outcome]]
        <5>1. ErrorOf[outcome] \in {"none"} \cup Errors /\ ErrorOf[came] \in {"none"} \cup Errors
          BY <1>2, OutcomeWords
        <5>2. ~(b = k.backend /\ ErrorOf[outcome] = ErrorOf[came])
          BY <1>2, <3>3, OutcomeWords
        <5> QED BY <1>4, <1>t, <5>1, <5>2 DEF Recorded
      <4> QED BY <3>1, <4>1, <4>2
    <3> QED BY <3>2, <3>3
  <2>4. records'[c][b][ERROR_TIMEOUT] = records[c][b][ERROR_TIMEOUT]
    <3>1. ErrorOf[came] # ERROR_TIMEOUT /\ ERROR_TIMEOUT \in {"none"} \cup Errors
      BY <1>2, OutcomeWords DEF Errors
    <3> QED BY <1>4, <1>t, <3>1 DEF Recorded
  <2> HIDE DEF SettledAs, GivenUp
  <2> QED BY <1>1, <1>2, <1>7, <2>2, <2>3, <2>4 DEF ExactFor
<1> QED BY <1>6, <1>7

\* Every step keeps the records those of the futures visited.
LEMMA RecordsStep ==
    Inv /\ FuturesArePlanned /\ RecordsSoFar /\ [Next]_vars => RecordsSoFar'
<1> SUFFICES ASSUME Inv, FuturesArePlanned, RecordsSoFar, [Next]_vars
             PROVE  RecordsSoFar'
  OBVIOUS
<1> FuturesArePlanned'
  BY PlannedStep
<1>t. /\ pc \in [Calls -> Places] /\ todo \in [Calls -> SUBSET CacheKey]
      /\ future \in [Calls -> [CacheKey -> FutureState]] /\ done \in [Calls -> SUBSET CacheKey]
  BY DEF Inv, TypeOK
<1>v. \A c \in Calls : pc[c] \in {"idle", "lookup", "waiting"} => Visited(c) = {}
  BY DEF FuturesArePlanned, Visited
<1>w. \A c \in Calls : pc'[c] = "lookup" => Visited(c)' = {}
  BY DEF FuturesArePlanned, Visited
<1>1. ASSUME NEW c \in Calls, Refuse(c) \/ Begin(c) \/ Return(c) PROVE RecordsSoFar'
  <2>1. UNCHANGED <<future, done, recording>>
    BY <1>1 DEF Refuse, Begin, Return
  <2>2. Submitted(c)' = Submitted(c)
    BY <2>1 DEF Submitted
  <2>3. \A d \in Calls : Visited(d)' = Visited(d)
    BY <1>1, <1>t, <1>v, <1>w, <2>1, <2>2 DEF Refuse, Begin, Return, Visited, Submitted
  <2> QED BY <2>1, <2>3, NothingVisited
<1>2. ASSUME NEW c \in Calls, NEW k \in todo[c], LookUp(c, k) PROVE RecordsSoFar'
  <2>1. /\ UNCHANGED <<pc, future, done, recording>> /\ pc[c] = "lookup"
        /\ todo' = [todo EXCEPT ![c] = @ \ {k}]
    BY <1>2, LookUpFacts
  <2>2. \A d \in Calls : Visited(d)' = Visited(d)
    BY <1>t, <1>v, <1>w, <2>1 DEF Visited, Submitted
  <2> QED BY <2>1, <2>2, NothingVisited
<1>3. ASSUME NEW c \in Calls, Submit(c) PROVE RecordsSoFar'
  <2>1. Visited(c) = {}
    BY <1>3, <1>v DEF Submit
  <2>2. /\ UNCHANGED <<done, recording>>
        /\ \A d \in Calls \ {c} : todo'[d] = todo[d] /\ future'[d] = future[d]
    BY <1>3, <1>t DEF Submit
  <2>3. Visited(c)' = {}
    <3>1. todo'[c] = Pending(c)
      BY <1>3, <1>t DEF Submit
    <3>2. future'[c] = [k \in CacheKey |-> IF k \in Pending(c) THEN "queued" ELSE "none"]
      BY <1>3, <1>t DEF Submit
    <3> QED BY <3>1, <3>2 DEF Visited, Submitted
  <2>4. \A d \in Calls : Visited(d)' = Visited(d)
    BY <2>1, <2>2, <2>3 DEF Visited, Submitted
  <2>5. \A d \in Calls : \A k \in Visited(d) \cap done[d] : future'[d][k] = future[d][k]
    BY <2>1, <2>2
  <2> QED BY <2>2, <2>4, <2>5, NothingVisited
<1>4. ASSUME NEW c \in Calls, AllDone(c) \/ Deadline(c) PROVE RecordsSoFar'
  <2>1. /\ UNCHANGED <<todo, future, recording>> /\ pc[c] = "waiting"
        /\ \A d \in Calls \ {c} : done'[d] = done[d]
    BY <1>4, <1>t DEF AllDone, Deadline
  <2>2. \A d \in Calls : Visited(d)' = Visited(d)
    BY <2>1 DEF Visited, Submitted
  <2> QED BY <1>v, <2>1, <2>2, NothingVisited
<1>5. ASSUME NEW c \in Calls, NEW k \in CacheKey, Start(c, k) \/ Respond(c, k)
      PROVE  RecordsSoFar'
  <2>1. /\ UNCHANGED <<todo, done, recording>> /\ future[c][k] \in {"queued", "running"}
        /\ \A d \in Calls : Submitted(d)' = Submitted(d)
        /\ \E s : future' = [future EXCEPT ![c][k] = s]
    BY <1>5, PoolMoves DEF Inv
  <2>2. k \notin done[c]
    BY <2>1 DEF Inv, CallInv, AnswersAreKept, Finished
  <2>3. \A d \in Calls : \A j \in done[d] : future'[d][j] = future[d][j]
    BY <1>t, <2>1, <2>2
  <2>4. \A d \in Calls : Visited(d)' = Visited(d)
    BY <2>1 DEF Visited
  <2> QED BY <2>1, <2>3, <2>4, NothingVisited
<1>6. ASSUME UNCHANGED <<todo, future, done, recording>> PROVE RecordsSoFar'
  <2>1. \A d \in Calls : Visited(d)' = Visited(d)
    BY <1>6 DEF Visited, Submitted
  <2> QED BY <1>6, <2>1, NothingVisited
<1> QED BY <1>1, <1>2, <1>3, <1>4, <1>5, <1>6, RecordsCollectTimeout, RecordsSettle
        DEF Next, Thread, Pool, CollectDone, Forget, vars

\* What a call tells the health records of its backends: each fetch done in time
\* once, as it ended; a backend that had to be given up, once; no late end.
THEOREM RecordsAreOfTheCall == Spec => []RecordsAreExact
<1>1. Init => RecordsSoFar
  <2> SUFFICES ASSUME Init, NEW c \in Calls, NEW b \in Backends PROVE ExactFor(c, b)
    BY DEF RecordsSoFar, ExactFor
  <2>1. Visited(c) = {}
    BY DEF Init, Visited, Submitted
  <2>2. GivenUp(c, b) = {} /\ \A outcome : SettledAs(c, b, outcome) = {}
    BY <2>1 DEF GivenUp, SettledAs
  <2>3. timedOut[c] = {} /\ \A e \in {"none"} \cup Errors : records[c][b][e] = 0
    BY DEF Init
  <2>4. ERROR_TIMEOUT \in {"none"} \cup Errors
    BY DEF Errors
  <2> HIDE DEF GivenUp, SettledAs
  <2> QED BY <2>2, <2>3, <2>4, OutcomeWords, FS_EmptySet DEF ExactFor
<1>2. Inv /\ FuturesArePlanned /\ RecordsSoFar => RecordsAreExact
  <2> SUFFICES ASSUME Inv, FuturesArePlanned, RecordsSoFar,
                      NEW c \in Calls, pc[c] = "returned", NEW b \in Backends
               PROVE  /\ \A outcome \in Finished :
                            records[c][b][ErrorOf[outcome]] = Cardinality(InTime(c, b, outcome))
                      /\ records[c][b][ERROR_TIMEOUT] = IF Stranded(c, b) = {} THEN 0 ELSE 1
    BY DEF RecordsAreExact
  <2>1. Visited(c) = Submitted(c)
    BY DEF FuturesArePlanned, Visited
  <2>2. done[c] \subseteq Submitted(c)
    BY DEF Inv, TypeOK, CallInv, AnswersAreKept, Submitted, Finished
  <2>3. \A outcome : SettledAs(c, b, outcome) = InTime(c, b, outcome)
    BY <2>1, <2>2 DEF SettledAs, InTime
  <2>4. GivenUp(c, b) = Stranded(c, b)
    BY <2>1 DEF GivenUp, Stranded
  <2>5. ExactFor(c, b)
    BY DEF RecordsSoFar, ExactFor
  <2> QED BY <2>3, <2>4, <2>5 DEF ExactFor
<1> QED BY <1>1, <1>2, RecordsStep, Planned, Invariance, PTL DEF Spec

-----------------------------------------------------------------------------
(* The refinement. *)

\* The keys of a call's plan that came to nothing.
UnansweredOf(c) == {k \in Plan(req[c]) : ~HasData(ranges[c][k])}

\* The service's words for results and verdicts are this module's.
LEMMA ServiceWords ==
    /\ Service!Backends = Backends
    /\ \A a : Service!Applicable(a) = Applicable(a)
    /\ \A r : Service!Plan(r) = Plan(r)
    /\ \A r, u, b, d : Service!ResultWhen(r, u, b, d) = ResultWhen(r, u, b, d)
    /\ \A results : Service!Failed(results) = Failed(results)
    /\ \A results : Service!WorstHit(results) = WorstHit(results)
<1>1. Service!Backends = Backends
  BY DEF Backends, Service!Backends
<1>2. \A a : Service!Applicable(a) = Applicable(a)
  BY DEF Applicable, Service!Applicable
<1>3. \A b, a, d : Service!KeyOf(b, a, d) = KeyOf(b, a, d)
  BY DEF KeyOf, Service!KeyOf
<1>4. \A r : Service!Plan(r) = Plan(r)
  BY <1>2, <1>3 DEF Plan, Service!Plan
<1>5. \A k : Service!Listed(k) = Listed(k)
  BY DEF Listed, Service!Listed
<1>6. ASSUME NEW r, NEW u, NEW b, NEW d
      PROVE  Service!ResultWhen(r, u, b, d) = ResultWhen(r, u, b, d)
  <2>1. Service!KeyOf(b, r.algorithm, d) = KeyOf(b, r.algorithm, d)
    BY <1>3
  <2>2. Service!Listed(Service!KeyOf(b, r.algorithm, d)) = Listed(KeyOf(b, r.algorithm, d))
    BY <1>5, <2>1
  <2>3. Service!Answered(d \in Service!Listed(Service!KeyOf(b, r.algorithm, d)))
           = Answered(d \in Listed(KeyOf(b, r.algorithm, d)))
    BY <2>2, Zenon DEF Answered, Service!Answered
  <2>4. Service!Unanswered(Service!ERROR_TIMEOUT) = Unanswered(ERROR_TIMEOUT)
    BY DEF Unanswered, Service!Unanswered, ERROR_TIMEOUT, Service!ERROR_TIMEOUT
  <2>5. Service!NotApplicable = NotApplicable
    BY DEF NotApplicable, Service!NotApplicable
  <2>6. Service!Placeholder(b, FALSE) = Placeholder(b, FALSE)
    BY Zenon DEF Placeholder, Service!Placeholder
  <2> QED BY <1>2, <2>1, <2>3, <2>4, <2>5, <2>6, Zenon DEF ResultWhen, Service!ResultWhen
<1>7. \A results : Service!Failed(results) = Failed(results)
  BY <1>1 DEF Failed, Service!Failed
<1>8. \A results : Service!WorstHit(results) = WorstHit(results)
  BY DEF WorstHit, Service!WorstHit, Hit, Service!Hit
<1> QED BY <1>1, <1>2, <1>4, <1>6, <1>7, <1>8

\* Reasons do not show in a verdict: if two sets of results differ only in why a
\* backend did not answer, they resolve alike.
LEMMA ReasonsDoNotShow ==
    ASSUME NEW results, NEW others,
           \A b \in Backends :
              \/ results[b] = others[b]
              \/ /\ \E e \in Errors : results[b] = Unanswered(e)
                 /\ \E e \in Errors : others[b] = Unanswered(e)
    PROVE  /\ Failed(results) = Failed(others)
           /\ WorstHit(results) = WorstHit(others)
<1>1. ASSUME NEW b \in Backends
      PROVE  (b \in Failed(results) <=> b \in Failed(others))
             /\ (Hit(results, b) <=> Hit(others, b))
  <2>1. CASE results[b] = others[b]
    BY <2>1 DEF Failed, Hit
  <2>2. CASE /\ \E e \in Errors : results[b] = Unanswered(e)
             /\ \E e \in Errors : others[b] = Unanswered(e)
    BY <2>2 DEF Failed, Hit, Unanswered, Errors, ERROR_TIMEOUT, ERROR_NETWORK, ERROR_INTERNAL
  <2> QED BY <1>1, <2>1, <2>2
<1>2. Failed(results) = Failed(others)
  <2>1. Failed(results) \subseteq Backends /\ Failed(others) \subseteq Backends
    BY DEF Failed
  <2> QED BY <1>1, <2>1
<1>3. WorstHit(results) = WorstHit(others)
  <2>1. \A b \in {"hibp", "weakpass", "denylist"} : Hit(results, b) <=> Hit(others, b)
    BY <1>1 DEF Backends
  <2> QED BY <2>1 DEF WorstHit
<1> QED BY <1>2, <1>3

\* A call that has decided its plan has for each backend what the service says
\* of it, up to the reason of a failure.
LEMMA ResultsMatch ==
    ASSUME Inv, NEW c \in Calls, \A k \in Plan(req[c]) : ranges[c][k] # Absent,
           NEW d \in Items(c), NEW b \in Backends
    PROVE  \/ ResultOf(c, b, d) = ResultWhen(req[c], UnansweredOf(c), b, d)
           \/ /\ \E e \in Errors : ResultOf(c, b, d) = Unanswered(e)
              /\ \E e \in Errors : ResultWhen(req[c], UnansweredOf(c), b, d) = Unanswered(e)
<1> DEFINE k == KeyOf(b, req[c].algorithm, d)
<1>1. CASE b \notin Enabled
  <2> b \notin Applicable(req[c].algorithm)
    BY <1>1 DEF Applicable
  <2>1. ResultOf(c, b, d) = Placeholder(b, FALSE)
    BY <1>1 DEF ResultOf
  <2>2. ResultWhen(req[c], UnansweredOf(c), b, d) = Placeholder(b, FALSE)
    BY <1>1 DEF ResultWhen
  <2> QED BY <2>1, <2>2
<1>2. CASE b \in Enabled /\ b \notin Applicable(req[c].algorithm)
  <2>1. ResultOf(c, b, d) = NotApplicable
    BY <1>2 DEF ResultOf
  <2>2. ResultWhen(req[c], UnansweredOf(c), b, d) = NotApplicable
    BY <1>2 DEF ResultWhen
  <2> QED BY <2>1, <2>2
<1>3. CASE b \in Applicable(req[c].algorithm)
  <2>1. b \in Enabled
    BY <1>3 DEF Applicable
  <2>2. k \in Plan(req[c])
    BY <1>3 DEF Plan, Items
  <2>3. k \in CacheKey /\ ranges[c][k] \in RangeFetch
    BY <2>2, PlanIsKeys DEF Inv, TypeOK, Slot
  <2>4. CASE HasData(ranges[c][k])
    <3>1. ranges[c][k].data = Listed(k)
      <4>1. ranges[c][k] = Data(Listed(k))
        BY <2>3, <2>4 DEF Inv, CallInv, RangesAreTrue
      <4> QED BY <4>1 DEF Data
    <3>2. k \notin UnansweredOf(c)
      BY <2>4, Zenon DEF UnansweredOf
    <3>3. ResultOf(c, b, d) = Answered(d \in ranges[c][k].data)
      BY <1>3, <2>1, <2>4 DEF ResultOf
    <3>4. ResultWhen(req[c], UnansweredOf(c), b, d) = Answered(d \in Listed(k))
      BY <1>3, <2>1, <3>2 DEF ResultWhen
    <3> QED BY <3>1, <3>3, <3>4, Zenon
  <2>5. CASE ~HasData(ranges[c][k])
    <3>1. k \in UnansweredOf(c)
      BY <2>2, <2>5 DEF UnansweredOf
    <3>2. ResultOf(c, b, d) = Unanswered(ranges[c][k].error)
      BY <1>3, <2>1, <2>2, <2>5 DEF ResultOf
    <3>3. ranges[c][k].error \in Errors
      BY <2>3, <2>5 DEF RangeFetch, HasData
    <3>4. ResultWhen(req[c], UnansweredOf(c), b, d) = Unanswered(ERROR_TIMEOUT)
      BY <1>3, <2>1, <3>1 DEF ResultWhen
    <3> QED BY <3>2, <3>3, <3>4 DEF Errors
  <2> QED BY <2>4, <2>5
<1> QED BY <1>1, <1>2, <1>3

\* So the answer of such a call is one the service may give.
LEMMA GivenIsPossible ==
    ASSUME Inv, NEW c \in Calls, \A k \in Plan(req[c]) : ranges[c][k] # Absent
    PROVE  Given(c) = Service!EvaluationsWhen(req[c], UnansweredOf(c))
<1> DEFINE When(d) == [b \in Backends |-> ResultWhen(req[c], UnansweredOf(c), b, d)]
<1>1. ASSUME NEW d \in Items(c)
      PROVE  /\ Failed(Results(c, d)) = Failed(When(d))
             /\ WorstHit(Results(c, d)) = WorstHit(When(d))
  <2>1. \A b \in Backends : Results(c, d)[b] = ResultOf(c, b, d)
    BY DEF Results
  <2>2. \A b \in Backends : When(d)[b] = ResultWhen(req[c], UnansweredOf(c), b, d)
    OBVIOUS
  <2> HIDE DEF When
  <2> QED BY <1>1, <2>1, <2>2, ResultsMatch, ReasonsDoNotShow
<1>2. ASSUME NEW d \in Items(c)
      PROVE  /\ VerdictOf(c, d) = Service!Resolve(When(d))
             /\ Degraded(Results(c, d)) = Service!Degraded(When(d))
  <2> HIDE DEF When
  <2>1. Service!Failed(When(d)) = Failed(Results(c, d))
    BY <1>1, <1>2, ServiceWords
  <2>2. Service!WorstHit(When(d)) = WorstHit(Results(c, d))
    BY <1>1, <1>2, ServiceWords
  <2>3. VerdictOf(c, d) = Service!Resolve(When(d))
    BY <2>1, <2>2 DEF VerdictOf, Resolve, Service!Resolve
  <2>4. Degraded(Results(c, d)) = Service!Degraded(When(d))
    BY <2>1, Zenon DEF Degraded, Service!Degraded
  <2> QED BY <2>3, <2>4
<1>3. \A d : [b \in Service!Backends |-> Service!ResultWhen(req[c], UnansweredOf(c), b, d)] = When(d)
  BY ServiceWords
<1> HIDE DEF When
<1>4. Service!EvaluationsWhen(req[c], UnansweredOf(c))
         = [d \in Items(c) |-> [verdict |-> Service!Resolve(When(d)),
                                degraded |-> Service!Degraded(When(d))]]
  BY <1>3, Zenon DEF Service!EvaluationsWhen, Items
<1> QED BY <1>2, <1>4, Zenon DEF Given

\* To a client, a call is one step of the service: refused, or answered as if
\* every range had been asked for then.  All other steps of the calls, their
\* pools and the cache change nothing the service speaks of.
THEOREM Refinement == Spec => ImplementsService
<1>1. Init => Service!Init
  <2> SUFFICES ASSUME Init PROVE Service!Init
    OBVIOUS
  <2>1. Phase = [c \in Calls |-> "asked"]
    BY DEF Init, Phase
  <2>2. [c \in Calls |-> IF pc[c] = "returned" THEN Given(c) ELSE <<>>] = [c \in Calls |-> <<>>]
    BY DEF Init
  <2> QED BY <2>1, <2>2 DEF Init, Service!Init, Service!NoAnswer
<1>2. ASSUME Inv, [Next]_vars
      PROVE  [Service!Next]_(Service!vars)
  <2> DEFINE answers == [c \in Calls |-> IF pc[c] = "returned" THEN Given(c) ELSE <<>>]
  <2>0. ASSUME NEW c \in Calls, req'[c] = req[c], ranges'[c] = ranges[c]
        PROVE  Given(c)' = Given(c)
    <3>1. ASSUME NEW b, NEW d PROVE ResultOf(c, b, d)' = ResultOf(c, b, d)
      BY <2>0, Zenon DEF ResultOf
    <3>2. ASSUME NEW d PROVE Results(c, d)' = Results(c, d)
      BY <3>1, Zenon DEF Results
    <3>3. ASSUME NEW d PROVE VerdictOf(c, d)' = VerdictOf(c, d)
      BY <3>2, Zenon DEF VerdictOf
    <3>4. Items(c)' = Items(c)
      BY <2>0 DEF Items
    <3> QED BY <3>2, <3>3, <3>4, Zenon DEF Given
  <2>t. /\ pc \in [Calls -> Places]
        /\ req \in [Calls -> Requests]
        /\ todo \in [Calls -> SUBSET CacheKey]
        /\ ranges \in [Calls -> [CacheKey -> Slot]]
    BY <1>2 DEF Inv, TypeOK
  <2>i. BegunIsSupported /\ PlanProgress
    BY <1>2 DEF Inv, CallInv
  <2>p. \A c \in Calls : Phase[c] = CASE pc[c] = "refused" -> "refused"
                                   [] pc[c] = "returned" -> "answered"
                                   [] OTHER -> "asked"
    BY DEF Phase
  <2>1. ASSUME UNCHANGED <<pc, req>>,
               \A c \in Calls : pc[c] = "returned" => UNCHANGED ranges[c]
        PROVE  UNCHANGED <<Phase, req, answers>>
    <3>1. ASSUME NEW c \in Calls, pc[c] = "returned" PROVE Given(c)' = Given(c)
      BY <2>0, <2>1, <3>1
    <3>2. answers' = answers
      BY <2>1, <3>1
    <3>3. Phase' = Phase
      BY <2>1 DEF Phase
    <3> QED BY <2>1, <3>2, <3>3
  <2>2. ASSUME NEW c \in Calls, UNCHANGED <<req, ranges>>,
               pc[c] \notin {"refused", "returned"},
               NEW p \in Places \ {"refused", "returned"}, pc' = [pc EXCEPT ![c] = p]
        PROVE  UNCHANGED <<Phase, req, answers>>
    <3>1. ASSUME NEW d \in Calls PROVE Given(d)' = Given(d)
      BY <2>0, <2>2
    <3>2. answers' = answers
      BY <2>2, <2>t, <3>1
    <3>3. Phase' = Phase
      BY <2>2, <2>t DEF Phase, Places
    <3> QED BY <2>2, <3>2, <3>3
  <2>3. ASSUME UNCHANGED <<Phase, req, answers>>
        PROVE  [Service!Next]_(Service!vars)
    BY <2>3 DEF Service!vars
  <2>4. ASSUME NEW c \in Calls, UNCHANGED <<req, ranges>>,
               pc[c] \notin {"idle", "refused", "returned"},
               pc' = [pc EXCEPT ![c] = "returned"],
               \A k \in Plan(req[c]) : ranges[c][k] # Absent
        PROVE  Service!Answer(c)
    <3>1. \A d \in Calls : Given(d)' = Given(d)
      BY <2>0, <2>4
    <3>2. answers' = [answers EXCEPT ![c] = Given(c)]
      BY <2>4, <2>t, <3>1
    <3>3. Phase[c] = "asked" /\ Phase' = [Phase EXCEPT ![c] = "answered"]
      <4>1. Phase[c] = "asked"
        BY <2>4, <2>p
      <4> QED BY <2>4, <2>t, <4>1 DEF Phase
    <3>4. Given(c) = Service!EvaluationsWhen(req[c], UnansweredOf(c))
      BY <1>2, <2>4, GivenIsPossible
    <3>5. UnansweredOf(c) \in SUBSET Service!Plan(req[c])
      BY ServiceWords DEF UnansweredOf
    <3>6. Service!Applicable(req[c].algorithm) # {}
      BY <2>4, <2>i, ServiceWords DEF BegunIsSupported
    <3> QED BY <2>4, <3>2, <3>3, <3>4, <3>5, <3>6 DEF Service!Answer
  <2>5. ASSUME NEW c \in Calls, Refuse(c)
        PROVE  Service!Refuse(c)
    <3>1. \A d \in Calls : Given(d)' = Given(d)
      BY <2>0, <2>5 DEF Refuse
    <3>2. answers' = answers
      BY <2>5, <2>t, <3>1 DEF Refuse
    <3>3. Phase[c] = "asked" /\ Phase' = [Phase EXCEPT ![c] = "refused"]
      <4>1. Phase[c] = "asked"
        BY <2>5, <2>p DEF Refuse
      <4> QED BY <2>5, <2>t, <4>1 DEF Refuse, Phase
    <3>4. Service!Applicable(req[c].algorithm) = {}
      BY <2>5, ServiceWords DEF Refuse
    <3> QED BY <2>5, <3>2, <3>3, <3>4 DEF Refuse, Service!Refuse
  <2>6. ASSUME NEW c \in Calls, Submit(c), Pending(c) = {}
        PROVE  Service!Answer(c)
    BY <2>4, <2>6, <2>t DEF Submit, Pending
  <2>7. ASSUME NEW c \in Calls, Return(c)
        PROVE  Service!Answer(c)
    BY <2>4, <2>7, <2>i, <2>t DEF Return, PlanProgress
  <2>8. ASSUME NEW c \in Calls,
               Begin(c) \/ (Submit(c) /\ Pending(c) # {}) \/ AllDone(c) \/ Deadline(c)
        PROVE  UNCHANGED <<Phase, req, answers>>
    BY <2>2, <2>8 DEF Begin, Submit, AllDone, Deadline, Places
  <2>9. ASSUME NEW c \in Calls, NEW k \in todo[c],
               LookUp(c, k) \/ CollectTimeout(c, k) \/ CollectDone(c, k)
        PROVE  UNCHANGED <<Phase, req, answers>>
    <3>1. UNCHANGED <<pc, req>> /\ pc[c] # "returned"
      BY <2>9 DEF LookUp, Take, CollectTimeout, CollectDone, Settle
    <3>2. \A d \in Calls \ {c} : UNCHANGED ranges[d]
      BY <2>9, <2>t DEF LookUp, Take, CollectTimeout, CollectDone, Settle
    <3> QED BY <2>1, <3>1, <3>2
  <2>10. ASSUME NEW c \in Calls, NEW k \in CacheKey, Start(c, k) \/ Respond(c, k)
         PROVE  UNCHANGED <<Phase, req, answers>>
    BY <2>1, <2>10 DEF Start, Respond
  <2>11. ASSUME UNCHANGED vars
         PROVE  UNCHANGED <<Phase, req, answers>>
    BY <2>1, <2>11 DEF vars
  <2>12. ASSUME Forget
         PROVE  UNCHANGED <<Phase, req, answers>>
    BY <2>1, <2>12 DEF Forget
  <2> HIDE DEF answers
  <2> QED BY <1>2, <2>3, <2>5, <2>6, <2>7, <2>8, <2>9, <2>10, <2>11, <2>12
          DEF Next, Thread, Pool, Service!Next
<1> QED BY <1>1, <1>2, Invariance, PTL DEF Spec, ImplementsService, Service!Spec

-----------------------------------------------------------------------------
(* The cache as its threads meet it. *)

\* What a step of one call leaves alone of another: all but the cache.
Apart(c) ==
    /\ req' = req /\ pc'[c] = pc[c] /\ todo'[c] = todo[c] /\ done'[c] = done[c]
    /\ \A k \in done[c] : future'[c][k] = future[c][k]

\* A call to the cache stays its thread's as long as the thread stays put.
LEMMA OwnKept ==
    ASSUME NEW c \in Calls, Apart(c), call'[c] = call[c]
    PROVE  /\ OwnGet(c) => OwnGet(c)'
           /\ OwnPut(c) => OwnPut(c)'
<1>1. OwnGet(c) => OwnGet(c)'
  BY DEF OwnGet, Apart
<1>2. OwnPut(c) => OwnPut(c)'
  <2> SUFFICES ASSUME OwnPut(c) PROVE OwnPut(c)'
    OBVIOUS
  <2> DEFINE k == call[c].key
  <2>1. future'[c][k] = future[c][k]
    BY DEF OwnPut, Apart
  <2>2. Collected(c, k)' = Collected(c, k) /\ Stored(c, k)' = Stored(c, k)
    BY <2>1 DEF Collected, Stored
  <2> QED BY <2>2 DEF OwnPut, Apart
<1> QED BY <1>1, <1>2

\* The pool of a call never touches a future that wait() returned as done.
LEMMA PoolIsApart ==
    ASSUME Inv, NEW c \in Calls, NEW d \in Calls, Pool(d)
    PROVE  Apart(c) /\ UNCHANGED cache
<1> PICK k \in CacheKey : Start(d, k) \/ Respond(d, k)
  BY DEF Pool
<1>1. future[d][k] \in {"queued", "running"}
  BY DEF Start, Respond, FirstOf, Queued, InFlight
<1>2. k \notin done[d]
  BY <1>1 DEF Inv, CallInv, AnswersAreKept, Finished
<1>3. \A j \in done[c] : future'[c][j] = future[c][j]
  <2>1. \E s : future' = [future EXCEPT ![d][k] = s]
    BY DEF Start, Respond
  <2> QED BY <1>2, <2>1 DEF Inv, TypeOK
<1>4. UNCHANGED <<cache, pc, req, todo, done>>
  BY DEF Start, Respond
<1> QED BY <1>3, <1>4 DEF Apart

\* No more does another thread.
LEMMA ThreadIsApart ==
    ASSUME TypeOK, NEW c \in Calls, NEW d \in Calls, c # d,
           \/ Refuse(d) \/ Begin(d) \/ Submit(d)
           \/ AllDone(d) \/ Deadline(d) \/ Return(d)
           \/ \E k, cached : Take(d, k, cached) \/ Settle(d, k) \/ CollectTimeout(d, k)
    PROVE  Apart(c)
<1> USE DEF Apart, TypeOK
<1>1. CASE Refuse(d) \/ Begin(d) \/ AllDone(d) \/ Deadline(d) \/ Return(d)
  BY <1>1 DEF Refuse, Begin, AllDone, Deadline, Return
<1>2. CASE Submit(d)
  BY <1>2 DEF Submit
<1>3. ASSUME NEW k, NEW cached, Take(d, k, cached) \/ Settle(d, k)
      PROVE  Apart(c)
  BY <1>3 DEF Take, Settle
<1>4. ASSUME NEW k, CollectTimeout(d, k)
      PROVE  Apart(c)
  BY <1>4 DEF CollectTimeout
<1> QED BY <1>1, <1>2, <1>3, <1>4

\* The steps at the cache, as steps of the fan-out and of the cache.
LEMMA GetStep ==
    ASSUME Inv, CachedTypeOK, CallsAreOwn, NEW c \in Calls, GetReturns(c)
    PROVE  /\ call[c].key \in todo[c] /\ LookUp(c, call[c].key)
           /\ call' = [call EXCEPT ![c] = Cache!NoCall]
           /\ CachedTypeOK'
<1> DEFINE k == call[c].key
<1>1. k \in CacheKey /\ Cacheable(k) /\ k \in todo[c]
  BY DEF GetReturns, CallsAreOwn, OwnGet, FirstOf
<1>2. PICK gone \in SUBSET Full : cache' = Without(gone, cache)
  BY DEF GetReturns, Cache!Get, Cache!Without, Cache!Full, Full, Without
<1>3. /\ call' = [call EXCEPT ![c] = Cache!NoCall]
      /\ answer' = [answer EXCEPT ![c] = cache'[k]]
  BY DEF GetReturns, Cache!Get, Cache!Ends
<1>4. cache' \in [CacheKey -> Slot]
  BY <1>2, CacheShrinks DEF Inv, TypeOK
<1>5. answer'[c] = cache'[k]
  BY <1>3 DEF CachedTypeOK
<1>6. LookUp(c, k)
  BY <1>1, <1>2, <1>5 DEF GetReturns, LookUp
<1>7. CachedTypeOK'
  BY <1>1, <1>3, <1>4 DEF CachedTypeOK
<1> QED BY <1>1, <1>3, <1>6, <1>7

LEMMA PutStep ==
    ASSUME Inv, CachedTypeOK, CallsAreOwn, NEW c \in Calls, PutReturns(c)
    PROVE  /\ call[c].key \in todo[c] /\ CollectDone(c, call[c].key)
           /\ call' = [call EXCEPT ![c] = Cache!NoCall]
           /\ CachedTypeOK'
<1> DEFINE k == call[c].key
<1>1. k \in CacheKey /\ Stored(c, k) /\ k \in todo[c] /\ call[c].range = Collected(c, k)
  BY DEF PutReturns, CallsAreOwn, OwnPut, FirstOf
<1>2. PICK gone \in SUBSET Full : cache' = [Without(gone, cache) EXCEPT ![k] = Collected(c, k)]
  BY <1>1 DEF PutReturns, Cache!Put, Cache!Without, Cache!Full, Full, Without
<1>3. cache' = Without(gone \ {k}, [cache EXCEPT ![k] = Collected(c, k)])
  BY <1>1, <1>2 DEF Without, Inv, TypeOK
<1>4. CollectDone(c, k)
  BY <1>1, <1>3 DEF PutReturns, CollectDone
<1>5. UNCHANGED answer /\ call' = [call EXCEPT ![c] = Cache!NoCall]
  BY DEF PutReturns, Cache!Put, Cache!Ends
<1> QED BY <1>1, <1>4, <1>5 DEF CachedTypeOK

\* To be turned away is to find nothing, and to have what is stored forgotten.
LEMMA TurnedAwayStep ==
    ASSUME Inv, CachedTypeOK, NEW c \in Calls, NEW k \in todo[c],
           GetTurnedAway(c, k) \/ PutTurnedAway(c, k)
    PROVE  /\ LookUp(c, k) \/ CollectDone(c, k)
           /\ call[c] = Cache!NoCall /\ UNCHANGED call
           /\ Cache!TurnAway(c)
           /\ CachedTypeOK'
<1>1. TurnedAway(c) /\ k \in CacheKey
  BY DEF GetTurnedAway, PutTurnedAway, Inv, TypeOK
<1>2. UNCHANGED <<cache, call>> /\ answer' = [answer EXCEPT ![c] = Absent] /\ answer'[c] = Absent
  BY <1>1 DEF TurnedAway, CachedTypeOK
<1>3. Full = {} /\ cache = [j \in CacheKey |-> Absent]
  BY <1>1 DEF TurnedAway, Full, Inv, TypeOK
<1>4. ASSUME GetTurnedAway(c, k) PROVE LookUp(c, k)
  <2>1. cache' = Without({}, cache)
    BY <1>2, <1>3 DEF Without
  <2>2. cache'[k] = Absent
    BY <1>1, <1>2, <1>3
  <2> QED BY <1>2, <1>4, <2>1, <2>2 DEF GetTurnedAway, LookUp
<1>5. ASSUME PutTurnedAway(c, k) PROVE CollectDone(c, k)
  <2>1. cache' = Without({k}, [cache EXCEPT ![k] = Collected(c, k)])
    BY <1>1, <1>2, <1>3 DEF Without
  <2> QED BY <1>5, <2>1 DEF PutTurnedAway, CollectDone
<1>6. Cache!TurnAway(c)
  BY <1>1 DEF TurnedAway, Cache!TurnAway, Cache!Full, Full
<1>7. CachedTypeOK'
  BY <1>2 DEF CachedTypeOK, Slot
<1> QED BY <1>1, <1>4, <1>5, <1>6, <1>7 DEF TurnedAway

LEMMA AskStep ==
    ASSUME Inv, CachedTypeOK, NEW c \in Calls, NEW k \in todo[c], AskGet(c, k) \/ AskPut(c, k)
    PROVE  /\ Cache!Ask(c) /\ UNCHANGED vars
           /\ \A d \in Calls \ {c} : call'[d] = call[d]
           /\ Calling(c, "get")' => OwnGet(c)'
           /\ Calling(c, "put")' => OwnPut(c)'
           /\ CachedTypeOK'
<1>1. k \in CacheKey
  BY DEF Inv, TypeOK
<1>2. ASSUME NEW what \in Cache!Call, Ask(c, what)
      PROVE  /\ Cache!Ask(c) /\ UNCHANGED vars
             /\ call'[c] = what /\ \A d \in Calls \ {c} : call'[d] = call[d]
             /\ CachedTypeOK'
  BY <1>2 DEF Ask, Cache!Ask, CachedTypeOK, vars
<1>3. CASE AskGet(c, k)
  <2>1. [kind |-> "get", key |-> k] \in Cache!Call
    BY <1>1 DEF Cache!Call
  <2>2. call'[c] = [kind |-> "get", key |-> k]
    BY <1>2, <1>3, <2>1 DEF AskGet
  <2>3. OwnGet(c)'
    <3>1. call'[c].key = k
      BY <2>2
    <3>2. UNCHANGED vars /\ pc[c] = "lookup" /\ FirstOf(req[c], todo[c], k) /\ Cacheable(k)
      BY <1>3 DEF AskGet, Ask
    <3> QED BY <1>1, <3>1, <3>2 DEF OwnGet, vars
  <2> QED BY <1>2, <1>3, <2>1, <2>2, <2>3 DEF AskGet, Calling
<1>4. CASE AskPut(c, k)
  <2> DEFINE r == Collected(c, k)
  <2>1. r \in {Data(listed) : listed \in SUBSET Digests}
    BY <1>1, <1>4, CollectedFacts, ListedIsDigests DEF AskPut, Stored
  <2>2. [kind |-> "put", key |-> k, range |-> r] \in Cache!Call
    BY <1>1, <2>1 DEF Cache!Call
  <2>3. call'[c] = [kind |-> "put", key |-> k, range |-> r]
    BY <1>2, <1>4, <2>2 DEF AskPut
  <2>4. UNCHANGED vars
    BY <1>4 DEF AskPut, Ask
  <2>5. Collected(c, k)' = r /\ Stored(c, k)' = Stored(c, k)
    BY <2>4 DEF vars, Collected, Stored
  <2>6. OwnPut(c)'
    BY <1>1, <1>4, <2>3, <2>4, <2>5 DEF AskPut, OwnPut, vars
  <2> QED BY <1>2, <1>4, <2>2, <2>3, <2>6 DEF AskPut, Calling
<1> QED BY <1>3, <1>4

\* While one thread moves, the calls of the others stay theirs.
LEMMA OwnStep ==
    ASSUME CallsAreOwn, NEW c \in Calls,
           \A d \in Calls \ {c} : Apart(d) /\ call'[d] = call[d],
           Calling(c, "get")' => OwnGet(c)',
           Calling(c, "put")' => OwnPut(c)'
    PROVE  CallsAreOwn'
<1>1. ASSUME NEW d \in Calls \ {c}
      PROVE  /\ Calling(d, "get")' => OwnGet(d)'
             /\ Calling(d, "put")' => OwnPut(d)'
  BY <1>1, OwnKept DEF CallsAreOwn, Calling
<1> QED BY <1>1 DEF CallsAreOwn

\* A step away from the cache is a step of the fan-out, and none of the cache.
LEMMA ElsewhereStep ==
    ASSUME Inv, CachedTypeOK, CallsAreOwn, NEW c \in Calls, Elsewhere(c)
    PROVE  /\ Next /\ UNCHANGED <<cache, call, answer>>
           /\ CachedTypeOK' /\ CallsAreOwn'
<1>1. UNCHANGED <<call, answer>>
  BY DEF Elsewhere, cacheCalls
<1>2. CASE Pool(c)
  <2>1. \A d \in Calls : Apart(d) /\ UNCHANGED cache
    BY <1>2, PoolIsApart
  <2>2. CallsAreOwn'
    BY <1>1, <2>1, OwnKept DEF CallsAreOwn, Calling
  <2> QED BY <1>1, <1>2, <2>1, <2>2 DEF Next, CachedTypeOK
<1>3. CASE /\ call[c] = Cache!NoCall
           /\ \/ Refuse(c) \/ Begin(c) \/ Submit(c)
              \/ AllDone(c) \/ Deadline(c) \/ Return(c)
              \/ \E k \in todo[c] : CollectTimeout(c, k)
  <2>1. \A d \in Calls \ {c} : Apart(d)
    BY <1>3, ThreadIsApart DEF Inv
  <2>2. UNCHANGED cache
    BY <1>3 DEF Refuse, Begin, Submit, AllDone, Deadline, Return, CollectTimeout
  <2>3. ~Calling(c, "get")' /\ ~Calling(c, "put")'
    BY <1>1, <1>3 DEF Calling, Cache!NoCall
  <2>4. CallsAreOwn'
    BY <1>1, <2>1, <2>3, OwnStep
  <2> QED BY <1>1, <1>3, <2>2, <2>4 DEF Next, Thread, CachedTypeOK
<1> QED BY <1>2, <1>3 DEF Elsewhere

\* A step at the cache is the step of the fan-out that reads or fills it, or
\* none at all when the thread has only asked.
LEMMA AtCacheStep ==
    ASSUME Inv, CachedTypeOK, CallsAreOwn, NEW c \in Calls, AtCache(c)
    PROVE  /\ [Next]_vars /\ [Cache!Next]_<<cache, call, answer>>
           /\ CachedTypeOK' /\ CallsAreOwn'
<1> DEFINE Goal == /\ [Next]_vars /\ [Cache!Next]_<<cache, call, answer>>
                   /\ CachedTypeOK' /\ CallsAreOwn'
<1>1. CASE GetReturns(c)
  <2>1. Next
    BY <1>1, GetStep DEF Next, Thread
  <2>2. Cache!Next
    BY <1>1 DEF GetReturns, Cache!Next
  <2>3. CachedTypeOK' /\ call' = [call EXCEPT ![c] = Cache!NoCall]
    BY <1>1, GetStep
  <2>4. \A d \in Calls \ {c} : Apart(d)
    BY <1>1, ThreadIsApart DEF GetReturns, Inv
  <2>5. call'[c] = Cache!NoCall /\ \A d \in Calls \ {c} : call'[d] = call[d]
    BY <2>3 DEF CachedTypeOK
  <2>6. ~Calling(c, "get")' /\ ~Calling(c, "put")'
    BY <2>5 DEF Calling, Cache!NoCall
  <2>7. CallsAreOwn'
    BY <2>4, <2>5, <2>6, OwnStep
  <2> QED BY <2>1, <2>2, <2>3, <2>7
<1>2. CASE PutReturns(c)
  <2>1. Next
    BY <1>2, PutStep DEF Next, Thread
  <2>2. Cache!Next
    BY <1>2 DEF PutReturns, Cache!Next
  <2>3. CachedTypeOK' /\ call' = [call EXCEPT ![c] = Cache!NoCall]
    BY <1>2, PutStep
  <2>4. \A d \in Calls \ {c} : Apart(d)
    BY <1>2, ThreadIsApart DEF PutReturns, Inv
  <2>5. call'[c] = Cache!NoCall /\ \A d \in Calls \ {c} : call'[d] = call[d]
    BY <2>3 DEF CachedTypeOK
  <2>6. ~Calling(c, "get")' /\ ~Calling(c, "put")'
    BY <2>5 DEF Calling, Cache!NoCall
  <2>7. CallsAreOwn'
    BY <2>4, <2>5, <2>6, OwnStep
  <2> QED BY <2>1, <2>2, <2>3, <2>7
<1>3. ASSUME NEW k \in todo[c], AskGet(c, k) \/ AskPut(c, k)
      PROVE  Goal
  <2>1. UNCHANGED vars /\ CachedTypeOK' /\ \A d \in Calls \ {c} : call'[d] = call[d]
    BY <1>3, AskStep
  <2>2. Cache!Next
    BY <1>3, AskStep DEF Cache!Next
  <2>3. \A d \in Calls : Apart(d)
    BY <2>1 DEF Apart, vars
  <2>4. CallsAreOwn'
    BY <1>3, <2>1, <2>3, AskStep, OwnStep
  <2> QED BY <2>1, <2>2, <2>4
<1>4. ASSUME NEW k \in todo[c], GetTurnedAway(c, k) \/ PutTurnedAway(c, k)
      PROVE  Goal
  <2>1. Next /\ Cache!Next
    BY <1>4, TurnedAwayStep DEF Next, Thread, Cache!Next
  <2>2. call[c] = Cache!NoCall /\ UNCHANGED call /\ CachedTypeOK'
    BY <1>4, TurnedAwayStep
  <2>3. \A d \in Calls \ {c} : Apart(d)
    BY <1>4, ThreadIsApart DEF GetTurnedAway, PutTurnedAway, Inv
  <2>4. ~Calling(c, "get")' /\ ~Calling(c, "put")'
    BY <2>2 DEF Calling, Cache!NoCall
  <2>5. CallsAreOwn'
    BY <2>2, <2>3, <2>4, OwnStep
  <2> QED BY <2>1, <2>2, <2>5
<1>5. ASSUME NEW k \in todo[c], SkipCache(c, k) \/ KeepUncached(c, k)
      PROVE  Goal
  <2>1. call[c] = Cache!NoCall /\ UNCHANGED <<cache, call, answer>>
    BY <1>5 DEF SkipCache, KeepUncached, cacheCalls
  <2>2. LookUp(c, k) \/ CollectDone(c, k)
    BY <1>5 DEF SkipCache, KeepUncached, LookUp, CollectDone
  <2>3. \A d \in Calls \ {c} : Apart(d)
    BY <1>5, ThreadIsApart DEF SkipCache, KeepUncached, Inv
  <2>4. ~Calling(c, "get")' /\ ~Calling(c, "put")'
    BY <2>1 DEF Calling, Cache!NoCall
  <2>5. CallsAreOwn'
    BY <2>1, <2>3, <2>4, OwnStep
  <2> QED BY <2>1, <2>2, <2>5 DEF Next, Thread, CachedTypeOK
<1> QED BY <1>1, <1>2, <1>3, <1>4, <1>5 DEF AtCache

CachedInv == Inv /\ CachedTypeOK /\ CallsAreOwn

\* Every step of the composition is one of the fan-out and one of the cache,
\* or none of theirs.
LEMMA CachedStep ==
    ASSUME CachedInv, [CachedNext]_cachedVars
    PROVE  [Next]_vars /\ [Cache!Next]_(Cache!vars) /\ CachedInv'
<1>1. [Next]_vars /\ [Cache!Next]_<<cache, call, answer>> /\ CachedTypeOK' /\ CallsAreOwn'
  <2>1. CASE CacheForgets
    <3>1. PICK gone \in SUBSET Full : cache' = Without(gone, cache)
      BY <2>1 DEF CacheForgets, Cache!Forget, Cache!Full, Cache!Without, Full, Without
    <3>2. Forget /\ UNCHANGED <<call, answer>>
      BY <2>1, <3>1 DEF CacheForgets, Cache!Forget, Forget
    <3>3. \A c \in Calls : Apart(c)
      BY <3>2 DEF Forget, Apart
    <3>4. CallsAreOwn'
      BY <3>2, <3>3, OwnKept DEF CachedInv, CallsAreOwn, Calling
    <3>5. Next /\ Cache!Next
      BY <2>1, <3>2 DEF Next, CacheForgets, Cache!Next
    <3> QED BY <3>2, <3>4, <3>5 DEF CachedInv, CachedTypeOK
  <2>2. ASSUME NEW c \in Calls, AtCache(c)
        PROVE  /\ [Next]_vars /\ [Cache!Next]_<<cache, call, answer>>
               /\ CachedTypeOK' /\ CallsAreOwn'
    BY <2>2, AtCacheStep DEF CachedInv
  <2>3. ASSUME NEW c \in Calls, Elsewhere(c)
        PROVE  /\ [Next]_vars /\ [Cache!Next]_<<cache, call, answer>>
               /\ CachedTypeOK' /\ CallsAreOwn'
    BY <2>3, ElsewhereStep DEF CachedInv
  <2>4. CASE UNCHANGED cachedVars
    <3>1. UNCHANGED vars /\ UNCHANGED <<cache, call, answer>>
      BY <2>4 DEF cachedVars, cacheCalls, vars
    <3>2. \A c \in Calls : Apart(c)
      BY <3>1 DEF vars, Apart
    <3>3. CallsAreOwn'
      BY <3>1, <3>2, OwnKept DEF CachedInv, CallsAreOwn, Calling
    <3> QED BY <3>1, <3>3 DEF CachedInv, CachedTypeOK
  <2> QED BY <2>1, <2>2, <2>3, <2>4 DEF CachedNext
<1>2. Inv'
  BY <1>1, InvStep DEF CachedInv
<1> QED BY <1>1, <1>2 DEF CachedInv, Cache!vars

LEMMA CachedStart == CachedInit => Cache!Init /\ CachedInv
<1> SUFFICES ASSUME CachedInit PROVE Cache!Init /\ CachedInv
  OBVIOUS
<1>1. Cache!Init
  BY DEF CachedInit, Init, Cache!Init
<1>2. Inv
  BY InitInv DEF CachedInit
<1>3. CachedTypeOK
  BY DEF CachedInit, CachedTypeOK
<1>4. CallsAreOwn
  BY DEF CachedInit, CallsAreOwn, Calling, Cache!NoCall
<1> QED BY <1>1, <1>2, <1>3, <1>4 DEF CachedInv

\* A call to the cache is still its thread's own when it returns.
THEOREM CallsStayOwn == CachedSpec => []CallsAreOwn
<1>1. CachedInv /\ [CachedNext]_cachedVars => CachedInv'
  BY CachedStep
<1>2. CachedInv => CallsAreOwn
  BY DEF CachedInv
<1> QED BY <1>1, <1>2, CachedStart, PTL DEF CachedSpec

\* The fan-out whose threads wait for the cache's lock implements the one that
\* reads and fills the cache in a step: all that is proved of it holds here.
THEOREM CachedIsFanOut == CachedSpec => ImplementsFanOut
<1>1. CachedInv /\ [CachedNext]_cachedVars => CachedInv' /\ [Next]_vars
  BY CachedStep
<1>2. CachedInit => Init
  BY DEF CachedInit
<1> QED BY <1>1, <1>2, CachedStart, PTL DEF CachedSpec, ImplementsFanOut, Spec

\* Its threads use the cache as RangeCache has it: what Startup's cache is
\* proved to give is all that they rely on.
THEOREM CachedUsesTheCache == CachedSpec => UsesRangeCache
<1>1. CachedInv /\ [CachedNext]_cachedVars => CachedInv' /\ [Cache!Next]_(Cache!vars)
  BY CachedStep
<1> QED BY <1>1, CachedStart, PTL DEF CachedSpec, UsesRangeCache, Cache!Spec

\* And to a client it is the service still: no wait at the cache, no entry that
\* comes or goes meanwhile, shows in an answer.
THEOREM CachedIsTheService == CachedSpec => ImplementsService
BY CachedIsFanOut, Refinement DEF ImplementsFanOut

=============================================================================
