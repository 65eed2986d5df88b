-------------------------- MODULE RateLimitProofs ---------------------------
(***************************************************************************)
(* Theorems about RateLimit, for any number of workers, threads, limiters  *)
(* and buckets, any capacities, waits and clock corrections.               *)
(*                                                                         *)
(* The argument is a potential.  A bucket with tokens at `last` is a line  *)
(* of slope rate through that point; what it grants lowers the line, and   *)
(* nothing ever raises it but its being full.  From the first grant of a   *)
(* window on, grants and line together stay below the Budget of the        *)
(* window, and a bucket is only evicted when its line has reached the      *)
(* capacity, with time to spare for a thread that reads an old clock.      *)
(***************************************************************************)
EXTENDS RateLimit, TLAPS

-----------------------------------------------------------------------------
(* Arithmetic. *)

\* What a bucket refills in a number of ticks.
Line(k, ticks) == RateOf(k) * ticks

\* Rates, periods and capacities of buckets are natural numbers.
LEMMA RateFacts ==
    ASSUME NEW k \in Keys
    PROVE  /\ NamespaceOf[k] \in Namespaces
           /\ RateOf(k) \in Nat \ {0}
           /\ PeriodOf(k) \in Nat \ {0}
           /\ Capacity(k) \in Nat
           /\ Capacity(k) = Line(k, PeriodOf(k))
<1>1. RateOf(k) \in Nat \ {0} /\ PeriodOf(k) \in Nat \ {0} /\ NamespaceOf[k] \in Namespaces
  BY LimiterAssumption DEF RateOf, PeriodOf
<1>2. \A r, p \in Nat : r * p \in Nat
  OBVIOUS
<1> QED BY <1>1, <1>2 DEF RateOf, PeriodOf, Capacity, Line

\* The line is linear, and rises with time.
LEMMA LineFacts ==
    ASSUME NEW k \in Keys, NEW x \in Int, NEW y \in Int
    PROVE  /\ Line(k, x) \in Int
           /\ Line(k, x + y) = Line(k, x) + Line(k, y)
           /\ Line(k, x - y) = Line(k, x) - Line(k, y)
           /\ x <= y => Line(k, x) <= Line(k, y)
<1>1. RateOf(k) \in Nat
  BY RateFacts
<1>2. \A r \in Nat : /\ r * x \in Int
                     /\ r * (x + y) = r * x + r * y
                     /\ r * (x - y) = r * x - r * y
  OBVIOUS
<1>3. \A r \in Nat : x <= y => r * x <= r * y
  OBVIOUS
<1> QED BY <1>1, <1>2, <1>3 DEF Line

\* It is a line of integers.
LEMMA LineType ==
    ASSUME NEW k \in Keys, NEW x \in Int
    PROVE  Line(k, x) \in Int
BY LineFacts

\* What spend() makes of a row: never more than the capacity, and never above
\* the line through the row.
LEMMA RefilledFacts ==
    ASSUME NEW k \in Keys, NEW b \in Row, NEW when \in Int
    PROVE  LET f == Refilled(k, b, when)
           IN  /\ f \in Int
               /\ f <= Capacity(k)
               /\ f - Line(k, when) <= b.tokens - Line(k, b.last)
               /\ f = Capacity(k) \/ f - Line(k, when) = b.tokens - Line(k, b.last)
<1>1. b.tokens \in Int /\ b.last \in Int /\ Capacity(k) \in Int
  BY RateFacts DEF Row
<1>2. (when - b.last) * RateOf(k) = Line(k, when) - Line(k, b.last)
  <2>1. RateOf(k) \in Int
    BY RateFacts
  <2>2. \A r \in Int, d \in Int : d * r = r * d
    OBVIOUS
  <2>3. (when - b.last) * RateOf(k) = Line(k, when - b.last)
    BY <1>1, <2>1, <2>2 DEF Line
  <2> QED BY <1>1, <2>3, LineFacts
<1>3. Line(k, when) \in Int /\ Line(k, b.last) \in Int
  BY <1>1, LineFacts
<1>4. Refilled(k, b, when) = AtMost(Capacity(k), b.tokens + (Line(k, when) - Line(k, b.last)))
  BY <1>2 DEF Refilled
<1> QED BY <1>1, <1>3, <1>4 DEF AtMost

-----------------------------------------------------------------------------
(* Type correctness. *)

\* The row spend() starts from, found or made, is a row, and holds no more than
\* the capacity.
LEMMA RowOfFacts ==
    ASSUME TypeOK, NEW s \in Stores, NEW k \in Keys, NEW when \in 0..MaxClock
    PROVE  RowOf(s, k, when) \in Row
<1>1. Capacity(k) \in Int
  BY RateFacts
<1>2. when \in Nat
  BY TimeAssumption
<1> QED BY <1>1, <1>2 DEF TypeOK, RowOf, Row

\* What it ends with, too.
LEMMA AfterFacts ==
    ASSUME NEW k \in Keys, NEW b \in Row, NEW when \in 0..MaxClock, NEW c \in Nat
    PROVE  LET a == After(k, b, c, when)
               spent == IF Passes(k, b, c, when) THEN c ELSE 0
           IN  /\ a \in Row
               /\ a.last = when
               /\ a.tokens = Refilled(k, b, when) - spent
               /\ a.tokens <= Capacity(k)
               /\ Passes(k, b, c, when) => 0 <= a.tokens
<1>1. Refilled(k, b, when) \in Int /\ Refilled(k, b, when) <= Capacity(k)
  BY RefilledFacts, TimeAssumption
<1>2. Capacity(k) \in Int /\ when \in Nat
  BY RateFacts, TimeAssumption
<1> QED BY <1>1, <1>2 DEF After, Passes, Row

\* A thread under way serves a request, and one that is about to commit has read
\* a row.
BusyInv ==
    \A t \in Threads :
        /\ pc[t] # "idle" => key[t] \in Keys
        /\ pc[t] = "commit" => row[t] \in Row

\* Spending keeps every type.
LEMMA SpendType ==
    ASSUME TypeOK, BusyInv, NEW t \in Threads, pc[t] # "idle", NEW s \in Stores, NEW b \in Row,
           Spend(t, s, b), row' \in [Threads -> Row \cup {NoRow}],
           \A u \in Threads \ {t} : row'[u] = row[u]
    PROVE  /\ pc' \in [Threads -> Places]
           /\ key' \in [Threads -> Keys \cup {NoKey}]
           /\ cost' \in [Threads -> Nat]
           /\ now' \in [Threads -> 0..MaxClock]
           /\ answer' \in [Threads -> Answers]
           /\ bucket' \in [Stores -> [Keys -> Row \cup {NoRow}]]
           /\ \A u \in Stores, k \in Keys : bucket'[u][k].tokens <= Capacity(k)
           /\ window' \in Window \cup {NoWindow}
           /\ granted' \in Nat
           /\ steps' \in 0..MaxSteps
           /\ BusyInv'
<1> USE DEF TypeOK, Spend
<1>1. key[t] \in Keys /\ cost[t] \in Nat /\ now[t] \in 0..MaxClock /\ 0 \in 0..MaxClock
  BY TimeAssumption DEF BusyInv
<1>2. After(key[t], b, cost[t], now[t]) \in Row
      /\ After(key[t], b, cost[t], now[t]).tokens <= Capacity(key[t])
  BY <1>1, AfterFacts
<1>3. bucket' \in [Stores -> [Keys -> Row \cup {NoRow}]]
  BY <1>1, <1>2
<1>4. \A u \in Stores, k \in Keys : bucket'[u][k].tokens <= Capacity(k)
  BY <1>1, <1>2
<1>5. granted' \in Nat /\ window' \in Window \cup {NoWindow} /\ steps' \in 0..MaxSteps
  BY <1>1 DEF Observe
<1>6. BusyInv'
  BY DEF BusyInv
<1> QED BY <1>1, <1>3, <1>4, <1>5, <1>6 DEF Places, Answers

\* Evicting a row leaves a full bucket's worth, and no more.
LEMMA EvictType ==
    ASSUME TypeOK, NEW s \in Stores, NEW gone \in SUBSET Keys,
           bucket' = [bucket EXCEPT ![s] = Without(s, gone)]
    PROVE  /\ bucket' \in [Stores -> [Keys -> Row \cup {NoRow}]]
           /\ \A u \in Stores, k \in Keys : bucket'[u][k].tokens <= Capacity(k)
<1> USE DEF TypeOK
<1>1. \A k \in Keys : NoRow.tokens <= Capacity(k)
  BY RateFacts DEF NoRow
<1>2. bucket' \in [Stores -> [Keys -> Row \cup {NoRow}]]
  BY DEF Without
<1>3. \A u \in Stores, k \in Keys : bucket'[u][k] \in {bucket[u][k], NoRow}
  BY DEF Without
<1> QED BY <1>1, <1>2, <1>3

\* Every variable of the limiter keeps its type, and a thread that is under way
\* serves a request.
LEMMA TypeInvariance == Spec => [](TypeOK /\ BusyInv)
<1>1. Init => TypeOK /\ BusyInv
  <2> SUFFICES ASSUME Init PROVE TypeOK /\ BusyInv
    OBVIOUS
  <2>1. 0 \in 0..MaxClock /\ 0 \in 0..MaxSteps /\ \A k \in Keys : NoRow.tokens <= Capacity(k)
    BY TimeAssumption, RateFacts DEF NoRow
  <2> QED BY <2>1 DEF Init, TypeOK, BusyInv, Places, Answers
<1>2. TypeOK /\ BusyInv /\ [Next]_vars => (TypeOK /\ BusyInv)'
  <2> SUFFICES ASSUME TypeOK, BusyInv, [Next]_vars
               PROVE  (TypeOK /\ BusyInv)'
    OBVIOUS
  <2>1. ASSUME NEW t \in Threads, Arrive(t) PROVE (TypeOK /\ BusyInv)'
    <3>0. PICK k \in Keys : \E c \in Costs[NamespaceOf[k]] :
             key' = [key EXCEPT ![t] = k] /\ cost' = [cost EXCEPT ![t] = c]
      BY <2>1 DEF Arrive
    <3>1. PICK c \in Costs[NamespaceOf[k]] :
             key' = [key EXCEPT ![t] = k] /\ cost' = [cost EXCEPT ![t] = c]
      BY <3>0
    <3>2. c \in Nat
      BY LimiterAssumption
    <3>3. /\ pc' = [pc EXCEPT ![t] = "arrived"]
          /\ now' = [now EXCEPT ![t] = clock] /\ answer' = [answer EXCEPT ![t] = "none"]
          /\ UNCHANGED <<clock, row, writer, bucket, nextEviction, observers>>
      BY <2>1 DEF Arrive
    <3>4. TypeOK'
      BY <3>1, <3>2, <3>3 DEF TypeOK, Places, Answers, observers
    <3>5. BusyInv'
      BY <3>1, <3>3 DEF BusyInv, TypeOK
    <3> QED BY <3>4, <3>5
  <2>2. ASSUME NEW t \in Threads, EvictShared(t) PROVE (TypeOK /\ BusyInv)'
    <3>1. Primary \in Stores /\ Stale(Primary, t) \in SUBSET Keys
      BY DEF Stores, Stale
    <3>2. /\ bucket' \in [Stores -> [Keys -> Row \cup {NoRow}]]
          /\ \A u \in Stores, k \in Keys : bucket'[u][k].tokens <= Capacity(k)
      BY <2>2, <3>1, EvictType DEF EvictShared
    <3> QED BY <2>2, <3>2 DEF EvictShared, TypeOK, BusyInv, Places, request, observers
  <2>3. ASSUME NEW t \in Threads, EvictOwn(t) PROVE (TypeOK /\ BusyInv)'
    <3>1. PICK gone \in SUBSET Keys :
             bucket' = [bucket EXCEPT ![WorkerOf[t]] = Without(WorkerOf[t], gone)]
      <4>1. Stale(WorkerOf[t], t) \in SUBSET Keys /\ {} \in SUBSET Keys
        BY DEF Stale
      <4> QED BY <2>3, <4>1 DEF EvictOwn
    <3>2. WorkerOf[t] \in Stores
      BY WorkerAssumption DEF Stores
    <3>3. /\ bucket' \in [Stores -> [Keys -> Row \cup {NoRow}]]
          /\ \A u \in Stores, k \in Keys : bucket'[u][k].tokens <= Capacity(k)
      BY <3>1, <3>2, EvictType
    <3> QED BY <2>3, <3>3 DEF EvictOwn, TypeOK, BusyInv, Places, request, observers
  <2>4. ASSUME NEW t \in Threads, Begin(t) PROVE (TypeOK /\ BusyInv)'
    <3>1. RowOf(Primary, key[t], now[t]) \in Row
      BY <2>4, RowOfFacts DEF Begin, BusyInv, TypeOK, Stores
    <3> QED BY <2>4, <3>1 DEF Begin, TypeOK, BusyInv, Places, request, observers
  <2>5. ASSUME NEW t \in Threads, Commit(t) PROVE (TypeOK /\ BusyInv)'
    <3>1. pc[t] # "idle" /\ Primary \in Stores /\ row[t] \in Row
      BY <2>5 DEF Commit, BusyInv, Stores
    <3>2. /\ row' \in [Threads -> Row \cup {NoRow}]
          /\ \A u \in Threads \ {t} : row'[u] = row[u]
          /\ writer' \in Threads \cup {Nobody}
      BY <2>5 DEF Commit, TypeOK
    <3> QED BY <2>5, <3>1, <3>2, SpendType DEF Commit, TypeOK
  <2>6. ASSUME NEW t \in Threads, StoreFails(t) PROVE (TypeOK /\ BusyInv)'
    BY <2>6 DEF StoreFails, TypeOK, BusyInv, Places, request, observers
  <2>7. ASSUME NEW t \in Threads, Fallback(t) PROVE (TypeOK /\ BusyInv)'
    <3>1. pc[t] # "idle" /\ WorkerOf[t] \in Stores
      BY <2>7, WorkerAssumption DEF Fallback, Stores
    <3>2. RowOf(WorkerOf[t], key[t], now[t]) \in Row
      BY <3>1, RowOfFacts DEF BusyInv, TypeOK
    <3> QED BY <2>7, <3>1, <3>2, SpendType DEF Fallback, TypeOK
  <2>8. CASE Tick
    BY <2>8, TimeAssumption DEF Tick, TypeOK, BusyInv, request, observers
  <2>9. CASE StepBack
    BY <2>9, TimeAssumption DEF StepBack, TypeOK, BusyInv, request
  <2>10. CASE OpenWindow
    BY <2>10 DEF OpenWindow, TypeOK, BusyInv, Window, request
  <2>11. CASE UNCHANGED vars
    BY <2>11 DEF vars, TypeOK, BusyInv, request, observers
  <2>12. ASSUME NEW t \in Threads, FindDue(t) PROVE (TypeOK /\ BusyInv)'
    BY <2>12 DEF FindDue, TypeOK, BusyInv, Places, request, observers
  <2>13. ASSUME NEW t \in Threads, PutOff(t) PROVE (TypeOK /\ BusyInv)'
    <3>1. now[t] \in Nat /\ now[t] + EvictionInterval \in Nat
      BY TimeAssumption DEF TypeOK
    <3>2. nextEviction' \in [Workers -> [Namespaces -> Nat]]
      BY <2>13, <3>1 DEF PutOff, TypeOK
    <3> QED BY <2>13, <3>2 DEF PutOff, TypeOK, BusyInv, Places, request, observers
  <2> QED BY <2>1, <2>2, <2>3, <2>4, <2>5, <2>6, <2>7, <2>8, <2>9, <2>10, <2>11, <2>12, <2>13
          DEF Next, Allow
<1> QED BY <1>1, <1>2, PTL DEF Spec

\* Every variable of the limiter keeps its type in every reachable state.
THEOREM TypeCorrect == Spec => []TypeOK
BY TypeInvariance, PTL

-----------------------------------------------------------------------------
(* The inductive invariant behind the allowance. *)

\* No thread under way has read a clock older than the longest wait.
LagInv ==
    \A t \in Threads : pc[t] # "idle" => now[t] <= clock /\ clock <= now[t] + MaxLag

\* Who is about to commit holds the lock, and the row it read is still the row.
CommitInv ==
    \A t \in Threads :
        pc[t] = "commit" => writer = t /\ row[t] = RowOf(Primary, key[t], now[t])

\* The observer counts from zero, from now on.
WindowInv ==
    /\ window = NoWindow => granted = 0
    /\ window # NoWindow => window.since <= clock

\* How high the line of a bucket may be, as of the tick 0, for the window.
Budget == Capacity(window.key) + Line(window.key, MaxLag) - Line(window.key, window.since)

\* Grants, and what is left of the bucket that made them.
LineInv ==
    window # NoWindow /\ granted > 0 =>
        LET k == window.key
            b == bucket[window.store][k]
        IN  /\ granted <= Budget + Line(k, clock)
            /\ b = NoRow => granted + Capacity(k) - Line(k, clock) + Line(k, MaxLag) <= Budget
            /\ b # NoRow =>
                  /\ granted + b.tokens - Line(k, b.last) <= Budget
                  /\ 0 <= b.tokens + Line(k, clock) - Line(k, b.last)
                  /\ 0 <= b.tokens + Line(k, MaxLag)

Inv == TypeOK /\ BusyInv /\ LagInv /\ CommitInv /\ WindowInv /\ LineInv

\* A window names a bucket and a tick.
LEMMA WindowFacts ==
    ASSUME TypeOK, window # NoWindow
    PROVE  /\ window.key \in Keys
           /\ window.store \in Stores
           /\ window.since \in Int
           /\ Budget \in Int
<1>1. window.key \in Keys /\ window.store \in Stores /\ window.since \in Int /\ MaxLag \in Int
  BY TimeAssumption DEF TypeOK, Window
<1>2. /\ Line(window.key, MaxLag) \in Int
      /\ Line(window.key, window.since) \in Int
      /\ Capacity(window.key) \in Int
  BY <1>1, LineType, RateFacts
<1> QED BY <1>1, <1>2 DEF Budget

\* Spending lowers the line by what it grants.
LEMMA SpendLine ==
    ASSUME Inv, NEW t \in Threads, pc[t] # "idle", NEW s \in Stores,
           Spend(t, s, RowOf(s, key[t], now[t])), UNCHANGED clock
    PROVE  LineInv'
<1> DEFINE k == key[t]
           when == now[t]
           b == RowOf(s, k, when)
           f == Refilled(k, b, when)
           a == After(k, b, cost[t], when)
           spent == IF Passes(k, b, cost[t], when) THEN cost[t] ELSE 0
<1>1. /\ k \in Keys /\ cost[t] \in Nat /\ when \in 0..MaxClock /\ when \in Int
      /\ clock \in Int /\ MaxLag \in Int /\ granted \in Nat
      /\ when <= clock /\ clock <= when + MaxLag
  BY TimeAssumption DEF Inv, TypeOK, BusyInv, LagInv
<1>2. b \in Row
  BY <1>1, RowOfFacts DEF Inv
<1>3. /\ window' = window
      /\ granted' = IF Watched(s, k) THEN granted + spent ELSE granted
      /\ bucket' = [bucket EXCEPT ![s][k] = a]
  BY DEF Spend, Observe
<1>4. CASE window = NoWindow
  BY <1>3, <1>4 DEF LineInv
<1>5. CASE window # NoWindow /\ ~Watched(s, k)
  <2>1. bucket'[window.store][window.key] = bucket[window.store][window.key]
    BY <1>1, <1>3, <1>5, WindowFacts DEF Watched, Inv, TypeOK
  <2> QED BY <1>3, <1>5, <2>1 DEF Inv, LineInv, Budget
<1>6. CASE Watched(s, k)
  <2>1. window # NoWindow /\ window.store = s /\ window.key = k
    BY <1>6 DEF Watched
  <2>2. /\ Line(k, when) \in Int /\ Line(k, clock) \in Int /\ Line(k, MaxLag) \in Int
        /\ Line(k, window.since) \in Int
        /\ Line(k, when) <= Line(k, clock)
        /\ Line(k, clock) <= Line(k, when) + Line(k, MaxLag)
        /\ Line(k, window.since) <= Line(k, clock)
    <3>1. when + MaxLag \in Int /\ window.since \in Int /\ window.since <= clock
      BY <1>1, <2>1, WindowFacts DEF Inv, WindowInv
    <3> QED BY <1>1, <3>1, LineFacts
  <2>3. /\ f \in Int /\ Capacity(k) \in Nat
        /\ f <= Capacity(k)
        /\ f - Line(k, when) <= b.tokens - Line(k, b.last)
        /\ f = Capacity(k) \/ f - Line(k, when) = b.tokens - Line(k, b.last)
    BY <1>1, <1>2, RefilledFacts, RateFacts
  <2>4. /\ a \in Row /\ a.last = when /\ a.tokens = f - spent
        /\ Passes(k, b, cost[t], when) => 0 <= a.tokens
    BY <1>1, <1>2, AfterFacts
  <2>5. spent \in Nat /\ (spent > 0 => Passes(k, b, cost[t], when))
    BY <1>1
  <2>6. bucket'[window.store][window.key] = a /\ a # NoRow
    <3>1. a # NoRow
      BY <1>1, <2>4 DEF NoRow, Never
    <3> QED BY <1>1, <1>3, <2>1, <3>1 DEF Inv, TypeOK
  <2>7. granted' = granted + spent
    BY <1>3, <1>6
  <2>8. Budget = Capacity(k) + Line(k, MaxLag) - Line(k, window.since) /\ Budget' = Budget
    BY <1>3, <2>1 DEF Budget
  <2>9. b.tokens \in Int /\ Line(k, b.last) \in Int /\ a.tokens \in Int
    <3>1. b.last \in Int /\ b.tokens \in Int /\ a.tokens \in Int
      BY <1>2, <2>4 DEF Row
    <3> QED BY <1>1, <3>1, LineFacts
  <2>10. ASSUME granted > 0
         PROVE  granted + f - Line(k, when) <= Budget
                /\ 0 <= f + Line(k, clock) - Line(k, when)
    <3>1. CASE bucket[s][k] = NoRow
      <4>1. b.tokens = Capacity(k) /\ b.last = when
        BY <3>1 DEF RowOf
      <4>2. f = Capacity(k)
        BY <2>2, <2>3, <2>9, <4>1
      <4>3. granted + Capacity(k) - Line(k, clock) + Line(k, MaxLag) <= Budget
        BY <2>1, <2>10, <3>1 DEF Inv, LineInv
      <4>4. Budget \in Int
        BY <2>1, WindowFacts DEF Inv
      <4> HIDE DEF f, k, when
      <4> QED BY <1>1, <2>2, <2>3, <4>2, <4>3, <4>4
    <3>2. CASE bucket[s][k] # NoRow
      <4>1. b = bucket[s][k]
        BY <3>2 DEF RowOf
      <4>2. /\ granted + b.tokens - Line(k, b.last) <= Budget
            /\ 0 <= b.tokens + Line(k, clock) - Line(k, b.last)
        BY <2>1, <2>10, <3>2, <4>1 DEF Inv, LineInv
      <4>3. Budget \in Int
        BY <2>1, WindowFacts DEF Inv
      <4> HIDE DEF f, k, when, b
      <4> QED BY <1>1, <2>2, <2>3, <2>9, <4>2, <4>3
    <3> QED BY <3>1, <3>2
  <2>11. ASSUME granted + spent > 0
         PROVE  /\ granted + spent + a.tokens - Line(k, when) <= Budget
                /\ 0 <= a.tokens + Line(k, clock) - Line(k, when)
                /\ 0 <= a.tokens + Line(k, MaxLag)
                /\ granted + spent <= Budget + Line(k, clock)
    <3>1. Budget \in Int
      BY <2>1, WindowFacts DEF Inv
    <3>2. granted + f - Line(k, when) <= Budget
      <4>1. CASE granted > 0
        BY <2>10, <4>1
      <4>2. CASE granted = 0
        <5> HIDE DEF f, k, when
        <5> QED BY <2>2, <2>3, <2>8, <4>2
      <4> QED BY <1>1, <4>1, <4>2
    <3>3. granted + spent + a.tokens - Line(k, when) <= Budget
      <4> HIDE DEF f, k, when, a, spent
      <4> QED BY <1>1, <2>2, <2>3, <2>4, <2>5, <2>9, <3>1, <3>2
    <3>4. 0 <= a.tokens + Line(k, clock) - Line(k, when)
      <4>1. CASE Passes(k, b, cost[t], when)
        <5> HIDE DEF f, k, when, a, b
        <5> QED BY <2>2, <2>4, <2>9, <4>1
      <4>2. CASE ~Passes(k, b, cost[t], when)
        <5>1. granted > 0 /\ a.tokens = f
          BY <1>1, <2>3, <2>4, <2>11, <4>2
        <5> HIDE DEF f, k, when, a, b
        <5> QED BY <2>10, <5>1
      <4> QED BY <4>1, <4>2
    <3>5. 0 <= a.tokens + Line(k, MaxLag)
      <4> HIDE DEF f, k, when, a, b
      <4> QED BY <2>2, <2>9, <3>4
    <3>6. granted + spent <= Budget + Line(k, clock)
      <4>1. CASE Passes(k, b, cost[t], when)
        <5>1. 0 <= a.tokens
          BY <2>4, <4>1
        <5> HIDE DEF f, k, when, a, b, spent
        <5> QED BY <1>1, <2>2, <2>5, <2>9, <3>1, <3>3, <5>1
      <4>2. CASE ~Passes(k, b, cost[t], when)
        <5>1. granted > 0 /\ spent = 0
          BY <1>1, <2>11, <4>2
        <5>2. granted <= Budget + Line(k, clock)
          BY <2>1, <5>1 DEF Inv, LineInv
        <5> QED BY <1>1, <5>1, <5>2
      <4> QED BY <4>1, <4>2
    <3> QED BY <3>3, <3>4, <3>5, <3>6
  <2> HIDE DEF k, when, b, f, a, spent
  <2> QED BY <1>3, <2>1, <2>4, <2>6, <2>7, <2>8, <2>11 DEF LineInv
<1> QED BY <1>4, <1>5, <1>6 DEF Watched

\* A bucket is forgotten only when its line has reached the capacity, for the
\* oldest clock anyone may still read.
LEMMA EvictLine ==
    ASSUME Inv, NEW t \in Threads, pc[t] # "idle", NEW s \in Stores,
           NEW gone \in SUBSET Stale(s, t),
           bucket' = [bucket EXCEPT ![s] = Without(s, gone)],
           UNCHANGED <<clock, window, granted>>
    PROVE  LineInv'
<1> SUFFICES ASSUME window # NoWindow, granted > 0
             PROVE  LineInv'
  BY DEF LineInv
<1> DEFINE k == window.key
           b == bucket[window.store][k]
<1>1. k \in Keys /\ window.store \in Stores /\ Budget \in Int
  BY WindowFacts DEF Inv
<1>2. Budget' = Budget
  BY DEF Budget
<1>3. CASE window.store # s \/ k \notin gone
  <2>1. bucket'[window.store][k] = b
    BY <1>1, <1>3 DEF Inv, TypeOK, Without
  <2> QED BY <1>2, <2>1 DEF Inv, LineInv
<1>4. CASE window.store = s /\ k \in gone
  <2>1. bucket'[window.store][k] = NoRow
    BY <1>1, <1>4 DEF Inv, TypeOK, Without
  <2>2. b # NoRow /\ b.last < now[t] - IdlePeriods * PeriodOf(k)
    BY <1>1, <1>4 DEF Stale
  <2>3. b \in Row
    BY <1>1, <2>2 DEF Inv, TypeOK
  <2>4. /\ b.tokens \in Int /\ b.last \in Int /\ now[t] \in Int /\ clock \in Int
        /\ MaxLag \in Int /\ granted \in Int /\ now[t] <= clock
    BY <2>3, TimeAssumption DEF Inv, TypeOK, LagInv, Row
  <2>5. b.last + PeriodOf(k) + MaxLag + MaxLag <= clock
    <3>1. PeriodOf(k) \in Nat /\ IdlePeriods \in Nat /\ NamespaceOf[k] \in Namespaces
      BY <1>1, RateFacts, TimeAssumption
    <3>2. 2 * MaxLag <= (IdlePeriods - 1) * PeriodOf(k) + 1
      BY <3>1, TimeAssumption DEF PeriodOf
    <3>3. \A i, p \in Int : (i - 1) * p = i * p - p /\ i * p \in Int
      OBVIOUS
    <3>4. (IdlePeriods - 1) * PeriodOf(k) = IdlePeriods * PeriodOf(k) - PeriodOf(k)
          /\ IdlePeriods * PeriodOf(k) \in Int
      BY <3>1, <3>3
    <3> HIDE DEF k, b
    <3> QED BY <2>2, <2>4, <3>1, <3>2, <3>4
  <2>6. Line(k, b.last) + Capacity(k) + Line(k, MaxLag) + Line(k, MaxLag) <= Line(k, clock)
    <3>1. PeriodOf(k) \in Int /\ Capacity(k) = Line(k, PeriodOf(k))
      BY <1>1, RateFacts
    <3> HIDE DEF k, b
    <3> DEFINE p == PeriodOf(k)
                 x == b.last
    <3>3. x \in Int /\ p \in Int /\ x + p \in Int /\ x + p + MaxLag \in Int
          /\ x + p + MaxLag + MaxLag \in Int
      BY <2>4, <3>1
    <3>4. Line(k, x + p) = Line(k, x) + Line(k, p)
      BY <1>1, <3>3, LineFacts
    <3>6. Line(k, x + p + MaxLag) = Line(k, x + p) + Line(k, MaxLag)
      BY <1>1, <2>4, <3>3, LineFacts
    <3>7. Line(k, x + p + MaxLag + MaxLag) = Line(k, x + p + MaxLag) + Line(k, MaxLag)
      BY <1>1, <2>4, <3>3, LineFacts
    <3>8. Line(k, x + p + MaxLag + MaxLag) <= Line(k, clock)
      BY <1>1, <2>4, <2>5, <3>3, LineFacts
    <3>5. /\ Line(k, x) \in Int /\ Line(k, p) \in Int /\ Line(k, MaxLag) \in Int
          /\ Line(k, clock) \in Int
      BY <1>1, <2>4, <3>3, LineType
    <3> QED BY <3>1, <3>4, <3>5, <3>6, <3>7, <3>8
  <2>7. /\ granted <= Budget + Line(k, clock)
        /\ granted + b.tokens - Line(k, b.last) <= Budget
        /\ 0 <= b.tokens + Line(k, MaxLag)
    BY <2>2 DEF Inv, LineInv
  <2>8. granted + Capacity(k) - Line(k, clock) + Line(k, MaxLag) <= Budget
    <3>1. /\ Line(k, b.last) \in Int /\ Line(k, clock) \in Int /\ Line(k, MaxLag) \in Int
          /\ Capacity(k) \in Int
      BY <1>1, <2>4, LineType, RateFacts
    <3> HIDE DEF k, b
    <3> QED BY <1>1, <2>4, <2>6, <2>7, <3>1
  <2> QED BY <1>2, <2>1, <2>7, <2>8 DEF LineInv
<1> QED BY <1>3, <1>4

\* The line rises with the clock, and a window opens with nothing granted.
LEMMA OtherLine ==
    ASSUME Inv, UNCHANGED <<bucket, granted>>, clock' \in 0..MaxClock, clock <= clock',
           UNCHANGED window \/ granted = 0
    PROVE  LineInv'
<1> SUFFICES ASSUME window # NoWindow, granted > 0, UNCHANGED window
             PROVE  LineInv'
  BY DEF LineInv, Inv, WindowInv, TypeOK
<1> DEFINE k == window.key
           b == bucket[window.store][k]
<1>1. k \in Keys /\ Budget \in Int /\ Budget' = Budget
  BY WindowFacts DEF Inv, Budget
<1>2. clock \in Int /\ clock' \in Int /\ MaxLag \in Int /\ granted \in Int
  BY TimeAssumption DEF Inv, TypeOK
<1>3. Line(k, clock) <= Line(k, clock') /\ Line(k, clock) \in Int /\ Line(k, clock') \in Int
  BY <1>1, <1>2, LineFacts
<1>4. Capacity(k) \in Int /\ Line(k, MaxLag) \in Int
  BY <1>1, <1>2, RateFacts, LineType
<1>5. b # NoRow => b.tokens \in Int /\ Line(k, b.last) \in Int
  <2> SUFFICES ASSUME b # NoRow PROVE b.tokens \in Int /\ Line(k, b.last) \in Int
    OBVIOUS
  <2>1. b \in Row
    BY <1>1, WindowFacts DEF Inv, TypeOK
  <2>2. b.tokens \in Int /\ b.last \in Int
    BY <2>1 DEF Row
  <2> QED BY <1>1, <2>2, LineType
<1>6. /\ granted <= Budget + Line(k, clock)
      /\ b = NoRow => granted + Capacity(k) - Line(k, clock) + Line(k, MaxLag) <= Budget
      /\ b # NoRow => /\ granted + b.tokens - Line(k, b.last) <= Budget
                      /\ 0 <= b.tokens + Line(k, clock) - Line(k, b.last)
                      /\ 0 <= b.tokens + Line(k, MaxLag)
  BY DEF Inv, LineInv
<1>7. /\ granted <= Budget + Line(k, clock')
      /\ b = NoRow => granted + Capacity(k) - Line(k, clock') + Line(k, MaxLag) <= Budget
      /\ b # NoRow => /\ granted + b.tokens - Line(k, b.last) <= Budget
                      /\ 0 <= b.tokens + Line(k, clock') - Line(k, b.last)
                      /\ 0 <= b.tokens + Line(k, MaxLag)
  <2> HIDE DEF k, b
  <2> QED BY <1>1, <1>2, <1>3, <1>4, <1>5, <1>6
<1> QED BY <1>1, <1>7 DEF LineInv

-----------------------------------------------------------------------------
(* The invariant holds in the initial state and is kept by every step. *)

\* Nothing has been asked or granted at first.
LEMMA InitialInv == Init /\ TypeOK /\ BusyInv => Inv
BY DEF Init, Inv, LagInv, CommitInv, WindowInv, LineInv

\* A thread's wait and its transaction, when the bucket of the shared file that
\* it read cannot have changed.
LEMMA WaitKept ==
    ASSUME Inv, TypeOK', NEW t \in Threads, UNCHANGED clock,
           \A u \in Threads \ {t} : UNCHANGED <<pc[u], key[u], now[u], row[u]>>,
           pc'[t] # "idle" => now'[t] = clock \/ (now'[t] = now[t] /\ pc[t] # "idle"),
           pc'[t] # "commit",
           UNCHANGED writer \/ writer = t,
           UNCHANGED bucket[Primary] \/ writer \in {t, Nobody}
    PROVE  LagInv' /\ CommitInv'
<1>1. LagInv'
  <2> SUFFICES ASSUME NEW u \in Threads, pc'[u] # "idle"
               PROVE  now'[u] <= clock' /\ clock' <= now'[u] + MaxLag
    BY DEF LagInv
  <2>1. clock \in Nat /\ MaxLag \in Nat
    BY TimeAssumption DEF Inv, TypeOK
  <2>2. CASE u = t
    BY <2>1, <2>2 DEF Inv, LagInv
  <2>3. CASE u # t
    BY <2>3 DEF Inv, LagInv
  <2> QED BY <2>2, <2>3
<1>2. CommitInv'
  <2> SUFFICES ASSUME NEW u \in Threads, pc'[u] = "commit"
               PROVE  writer' = u /\ row'[u] = RowOf(Primary, key[u], now[u])'
    BY DEF CommitInv
  <2>1. u # t /\ pc[u] = "commit" /\ key'[u] = key[u] /\ now'[u] = now[u] /\ row'[u] = row[u]
    OBVIOUS
  <2>2. writer = u /\ row[u] = RowOf(Primary, key[u], now[u]) /\ u # Nobody
    BY <2>1, NamesAssumption DEF Inv, CommitInv
  <2>3. writer' = u /\ UNCHANGED bucket[Primary]
    BY <2>1, <2>2
  <2> QED BY <2>1, <2>2, <2>3 DEF RowOf
<1> QED BY <1>1, <1>2

\* The whole invariant, preserved action by action.
LEMMA Invariance == Spec => []Inv
<1>1. TypeOK /\ BusyInv /\ TypeOK' /\ BusyInv' /\ Inv /\ [Next]_vars => Inv'
  <2> SUFFICES ASSUME TypeOK', BusyInv', Inv, [Next]_vars
               PROVE  Inv'
    OBVIOUS
  <2> SUFFICES LagInv' /\ CommitInv' /\ WindowInv' /\ LineInv'
    BY DEF Inv
  <2>1. TypeOK /\ clock \in 0..MaxClock /\ granted \in Nat /\ window \in Window \cup {NoWindow}
        /\ pc \in [Threads -> Places] /\ key \in [Threads -> Keys \cup {NoKey}]
        /\ now \in [Threads -> 0..MaxClock] /\ row \in [Threads -> Row \cup {NoRow}]
    BY DEF Inv, TypeOK
  <2>2. ASSUME NEW t \in Threads, Arrive(t) PROVE LagInv' /\ CommitInv' /\ WindowInv' /\ LineInv'
    <3>1. /\ \A u \in Threads \ {t} : UNCHANGED <<pc[u], key[u], now[u], row[u]>>
          /\ now'[t] = clock /\ pc'[t] # "commit"
          /\ UNCHANGED <<clock, writer, bucket, window, granted>>
      BY <2>1, <2>2 DEF Arrive, observers
    <3>2. LagInv' /\ CommitInv'
      BY <3>1, WaitKept
    <3>3. WindowInv'
      BY <3>1 DEF Inv, WindowInv
    <3>4. LineInv'
      BY <2>1, <3>1, OtherLine
    <3> QED BY <3>2, <3>3, <3>4
  <2>3. ASSUME NEW t \in Threads, EvictShared(t) PROVE LagInv' /\ CommitInv' /\ WindowInv' /\ LineInv'
    <3>1. /\ \A u \in Threads \ {t} : UNCHANGED <<pc[u], key[u], now[u], row[u]>>
          /\ now'[t] = now[t] /\ pc'[t] # "commit" /\ pc[t] # "idle"
          /\ UNCHANGED <<clock, writer, window, granted>>
          /\ writer = Nobody
          /\ bucket' = [bucket EXCEPT ![Primary] = Without(Primary, Stale(Primary, t))]
      BY <2>1, <2>3 DEF EvictShared, observers, request
    <3>2. LagInv' /\ CommitInv'
      BY <3>1, WaitKept
    <3>3. WindowInv'
      BY <3>1 DEF Inv, WindowInv
    <3>4. LineInv'
      BY <3>1, EvictLine DEF Stores
    <3> QED BY <3>2, <3>3, <3>4
  <2>4. ASSUME NEW t \in Threads, EvictOwn(t) PROVE LagInv' /\ CommitInv' /\ WindowInv' /\ LineInv'
    <3>1. /\ \A u \in Threads \ {t} : UNCHANGED <<pc[u], key[u], now[u], row[u]>>
          /\ now'[t] = now[t] /\ pc'[t] # "commit" /\ pc[t] # "idle"
          /\ UNCHANGED <<clock, writer, window, granted>>
      BY <2>1, <2>4 DEF EvictOwn, observers, request
    <3>2. PICK gone \in SUBSET Stale(WorkerOf[t], t) :
             bucket' = [bucket EXCEPT ![WorkerOf[t]] = Without(WorkerOf[t], gone)]
      BY <2>4 DEF EvictOwn
    <3>3. WorkerOf[t] \in Stores /\ WorkerOf[t] # Primary
      BY WorkerAssumption, NamesAssumption DEF Stores
    <3>4. UNCHANGED bucket[Primary]
      BY <3>2, <3>3 DEF Inv, TypeOK, Stores
    <3>5. LagInv' /\ CommitInv'
      BY <3>1, <3>4, WaitKept
    <3>6. WindowInv'
      BY <3>1 DEF Inv, WindowInv
    <3>7. LineInv'
      BY <3>1, <3>2, <3>3, EvictLine
    <3> QED BY <3>5, <3>6, <3>7
  <2>5. ASSUME NEW t \in Threads, Begin(t) PROVE LagInv' /\ CommitInv' /\ WindowInv' /\ LineInv'
    <3>1. /\ pc' = [pc EXCEPT ![t] = "commit"] /\ pc[t] = "spend"
          /\ writer = Nobody /\ writer' = t
          /\ row' = [row EXCEPT ![t] = RowOf(Primary, key[t], now[t])]
          /\ UNCHANGED <<clock, key, now, bucket, window, granted>>
      BY <2>5 DEF Begin, observers, request
    <3>2. LagInv'
      BY <2>1, <3>1 DEF Inv, LagInv
    <3>3. \A u \in Threads : pc[u] # "commit"
      BY <3>1, NamesAssumption DEF Inv, CommitInv
    <3>4. CommitInv'
      BY <2>1, <3>1, <3>3 DEF CommitInv, RowOf
    <3>5. WindowInv'
      BY <3>1 DEF Inv, WindowInv
    <3>6. LineInv'
      BY <2>1, <3>1, OtherLine
    <3> QED BY <3>2, <3>4, <3>5, <3>6
  <2>6. ASSUME NEW t \in Threads, Commit(t) PROVE LagInv' /\ CommitInv' /\ WindowInv' /\ LineInv'
    <3>1. writer = t /\ row[t] = RowOf(Primary, key[t], now[t]) /\ pc[t] # "idle"
      BY <2>6 DEF Commit, Inv, CommitInv
    <3>2. /\ \A u \in Threads \ {t} : UNCHANGED <<pc[u], key[u], now[u], row[u]>>
          /\ pc'[t] = "idle"
          /\ UNCHANGED <<clock, window>>
          /\ granted' = 0 => granted = 0
      <4>1. cost[t] \in Nat
        BY DEF Inv, TypeOK
      <4> QED BY <2>1, <2>6, <4>1 DEF Commit, Spend, Observe
    <3>3. LagInv' /\ CommitInv'
      BY <3>1, <3>2, WaitKept
    <3>4. WindowInv'
      BY <2>6, <3>2 DEF Inv, WindowInv, Commit, Spend, Observe, Watched
    <3>5. LineInv'
      BY <2>6, <3>1, <3>2, SpendLine DEF Commit, Stores
    <3> QED BY <3>3, <3>4, <3>5
  <2>7. ASSUME NEW t \in Threads, StoreFails(t) PROVE LagInv' /\ CommitInv' /\ WindowInv' /\ LineInv'
    <3>1. /\ \A u \in Threads \ {t} : UNCHANGED <<pc[u], key[u], now[u], row[u]>>
          /\ now'[t] = now[t] /\ pc'[t] # "commit" /\ pc[t] # "idle"
          /\ UNCHANGED writer \/ writer = t
          /\ UNCHANGED <<clock, bucket, window, granted>>
      BY <2>1, <2>7 DEF StoreFails, observers, request
    <3>2. LagInv' /\ CommitInv'
      BY <3>1, WaitKept
    <3>3. WindowInv'
      BY <3>1 DEF Inv, WindowInv
    <3>4. LineInv'
      BY <2>1, <3>1, OtherLine
    <3> QED BY <3>2, <3>3, <3>4
  <2>8. ASSUME NEW t \in Threads, Fallback(t) PROVE LagInv' /\ CommitInv' /\ WindowInv' /\ LineInv'
    <3>1. WorkerOf[t] \in Stores /\ WorkerOf[t] # Primary
      BY WorkerAssumption, NamesAssumption DEF Stores
    <3>2. /\ \A u \in Threads \ {t} : UNCHANGED <<pc[u], key[u], now[u], row[u]>>
          /\ pc'[t] = "idle" /\ pc[t] # "idle"
          /\ UNCHANGED <<clock, window, writer>>
      BY <2>1, <2>8 DEF Fallback, Spend, Observe
    <3>3. UNCHANGED bucket[Primary]
      BY <2>8, <3>1 DEF Fallback, Spend, Inv, TypeOK, Stores
    <3>4. LagInv' /\ CommitInv'
      BY <3>2, <3>3, WaitKept
    <3>5. WindowInv'
      BY <2>8, <3>2 DEF Inv, WindowInv, Fallback, Spend, Observe, Watched
    <3>6. LineInv'
      BY <2>8, <3>1, <3>2, SpendLine DEF Fallback
    <3> QED BY <3>4, <3>5, <3>6
  <2>9. CASE Tick
    <3>1. /\ clock' = clock + 1 /\ clock' \in 0..MaxClock /\ clock <= clock'
          /\ \A t \in Threads : pc[t] # "idle" => clock < now[t] + MaxLag
          /\ UNCHANGED <<pc, key, now, row, writer, bucket, window, granted>>
      BY <2>1, <2>9, TimeAssumption DEF Tick, observers, request
    <3>2. LagInv'
      BY <2>1, <3>1, TimeAssumption DEF Inv, LagInv
    <3>3. CommitInv'
      BY <3>1 DEF Inv, CommitInv, RowOf
    <3>4. WindowInv'
      <4>1. window # NoWindow => window.since \in Int
        BY <2>1, WindowFacts
      <4> QED BY <2>1, <3>1, <4>1 DEF Inv, WindowInv
    <3>5. LineInv'
      BY <3>1, OtherLine
    <3> QED BY <3>2, <3>3, <3>4, <3>5
  <2>10. CASE StepBack
    <3>1. /\ \A t \in Threads : pc[t] = "idle"
          /\ window' = NoWindow /\ granted' = 0 /\ pc' = pc
      BY <2>10 DEF StepBack
    <3> QED BY <3>1 DEF LagInv, CommitInv, WindowInv, LineInv
  <2>11. CASE OpenWindow
    <3>1. /\ window = NoWindow /\ granted = 0
          /\ window' # NoWindow => window'.since = clock
          /\ UNCHANGED <<clock, pc, key, now, row, writer, bucket, granted>>
      BY <2>11 DEF OpenWindow, Inv, WindowInv, request
    <3>2. LagInv' /\ CommitInv'
      BY <3>1 DEF Inv, LagInv, CommitInv, RowOf
    <3>3. WindowInv'
      BY <2>1, <3>1 DEF WindowInv
    <3>4. LineInv'
      BY <2>1, <3>1, OtherLine
    <3> QED BY <3>2, <3>3, <3>4
  <2>12. CASE UNCHANGED vars
    <3>1. UNCHANGED <<clock, pc, key, now, row, writer, bucket, window, granted>>
      BY <2>12 DEF vars, observers, request
    <3>2. LagInv' /\ CommitInv' /\ WindowInv'
      BY <3>1 DEF Inv, LagInv, CommitInv, RowOf, WindowInv
    <3>3. LineInv'
      BY <2>1, <3>1, OtherLine
    <3> QED BY <3>2, <3>3
  <2>13. ASSUME NEW t \in Threads, FindDue(t) \/ PutOff(t)
         PROVE  LagInv' /\ CommitInv' /\ WindowInv' /\ LineInv'
    <3>1. /\ \A u \in Threads \ {t} : UNCHANGED <<pc[u], key[u], now[u], row[u]>>
          /\ now'[t] = now[t] /\ pc'[t] # "commit" /\ pc[t] # "idle"
          /\ UNCHANGED <<clock, writer, bucket, window, granted>>
      BY <2>1, <2>13 DEF FindDue, PutOff, observers, request
    <3>2. LagInv' /\ CommitInv'
      BY <3>1, WaitKept
    <3>3. WindowInv'
      BY <3>1 DEF Inv, WindowInv
    <3>4. LineInv'
      BY <2>1, <3>1, OtherLine
    <3> QED BY <3>2, <3>3, <3>4
  <2> QED BY <2>2, <2>3, <2>4, <2>5, <2>6, <2>7, <2>8, <2>9, <2>10, <2>11, <2>12, <2>13 DEF Next, Allow
<1> QED BY <1>1, InitialInv, TypeInvariance, PTL DEF Spec

\* In any window of time a store grants a key no more than its capacity, what
\* the window refills, and what the longest wait refills, whoever spends, falls
\* back, waits with an old clock or evicts the bucket meanwhile.
THEOREM AllowanceIsKept == Spec => []WindowAllowance
<1>1. Inv => WindowAllowance
  <2> SUFFICES ASSUME Inv, window # NoWindow
               PROVE  granted <= Capacity(window.key)
                                    + RateOf(window.key) * (clock - window.since + MaxLag)
    BY DEF WindowAllowance
  <2> DEFINE k == window.key
             since == window.since
  <2>1. /\ k \in Keys /\ since \in Int /\ clock \in Int /\ MaxLag \in Nat
        /\ since <= clock /\ granted \in Nat
    BY WindowFacts, TimeAssumption DEF Inv, TypeOK, WindowInv
  <2>2. Capacity(k) \in Nat
    BY <2>1, RateFacts
  <2> SUFFICES granted <= Capacity(k) + Line(k, clock - since + MaxLag)
    BY DEF Line
  <2>3. CASE granted = 0
    <3>1. 0 <= clock - since + MaxLag /\ clock - since + MaxLag \in Int
      BY <2>1
    <3>2. Line(k, 0) = 0
      <4>1. RateOf(k) \in Int
        BY <2>1, RateFacts
      <4> QED BY <4>1 DEF Line
    <3>3. Line(k, 0) <= Line(k, clock - since + MaxLag)
          /\ Line(k, clock - since + MaxLag) \in Int
      BY <2>1, <3>1, LineFacts
    <3> HIDE DEF k, since
    <3> QED BY <2>2, <2>3, <3>2, <3>3
  <2>4. CASE granted > 0
    <3>1. granted <= Capacity(k) + Line(k, MaxLag) - Line(k, since) + Line(k, clock)
      BY <2>4 DEF Inv, LineInv, Budget
    <3>2. /\ Line(k, MaxLag) \in Int /\ Line(k, since) \in Int /\ Line(k, clock) \in Int
      BY <2>1, LineType
    <3>3. Line(k, clock - since) = Line(k, clock) - Line(k, since)
      BY <2>1, LineFacts
    <3>4. Line(k, clock - since + MaxLag) = Line(k, clock - since) + Line(k, MaxLag)
      <4>1. clock - since \in Int /\ MaxLag \in Int
        BY <2>1
      <4> HIDE DEF k, since
      <4> QED BY <2>1, <4>1, LineFacts
    <3> HIDE DEF k, since
    <3> QED BY <2>1, <2>2, <3>1, <3>2, <3>3, <3>4
  <2> QED BY <2>1, <2>3, <2>4
<1> QED BY <1>1, Invariance, PTL

-----------------------------------------------------------------------------
(* Refusals. *)

\* A bucket refilled twice is as full as one refilled once.
LEMMA RefillTwice ==
    ASSUME NEW k \in Keys, NEW b \in Row, NEW when \in Nat, NEW later \in Nat, when <= later
    PROVE  Refilled(k, [tokens |-> Refilled(k, b, when), last |-> when], later)
              = Refilled(k, b, later)
<1>1. RateOf(k) \in Nat /\ Capacity(k) \in Nat /\ b.tokens \in Int /\ b.last \in Int
  BY RateFacts DEF Row
<1> DEFINE early == (when - b.last) * RateOf(k)
           rest == (later - when) * RateOf(k)
           all == (later - b.last) * RateOf(k)
<1>2. early \in Int /\ rest \in Int /\ all \in Int /\ all = early + rest /\ 0 <= rest
  <2>1. \A r \in Nat, x, y \in Int : /\ x * r \in Int /\ y * r \in Int /\ (x + y) * r \in Int
                                      /\ (x + y) * r = x * r + y * r
    OBVIOUS
  <2>2. \A r, y \in Nat : 0 <= y * r
    OBVIOUS
  <2>3. when - b.last \in Int /\ later - when \in Nat
        /\ later - b.last = (when - b.last) + (later - when)
    BY <1>1
  <2> HIDE DEF RateOf
  <2>4. early \in Int /\ rest \in Int /\ all = early + rest
    BY <1>1, <2>1, <2>3
  <2>5. 0 <= rest
    BY <1>1, <2>2, <2>3
  <2> QED BY <2>4, <2>5
<1>3. /\ Refilled(k, b, when) = AtMost(Capacity(k), b.tokens + early)
      /\ Refilled(k, b, later) = AtMost(Capacity(k), b.tokens + all)
      /\ Refilled(k, [tokens |-> Refilled(k, b, when), last |-> when], later)
            = AtMost(Capacity(k), Refilled(k, b, when) + rest)
  BY DEF Refilled
<1> HIDE DEF early, rest, all
<1> QED BY <1>1, <1>2, <1>3 DEF AtMost

\* A thread that refuses writes its row back refilled, and charges nothing.
LEMMA RefusalWrites ==
    ASSUME Inv, NEW t \in Threads, pc[t] # "idle", NEW st \in Stores,
           Spend(t, st, RowOf(st, key[t], now[t])), answer'[t] = "refused", UNCHANGED clock,
           NEW s \in Stores, NEW k \in Keys
    PROVE  Level(s, k)' = Level(s, k)
<1> DEFINE b == RowOf(st, key[t], now[t])
<1>1. /\ key[t] \in Keys /\ now[t] \in Nat /\ now[t] \in 0..MaxClock /\ clock \in Nat
      /\ now[t] <= clock
  BY TimeAssumption DEF Inv, TypeOK, BusyInv, LagInv
<1>2. b \in Row
  BY <1>1, RowOfFacts DEF Inv
<1>3. ~Passes(key[t], b, cost[t], now[t])
  BY DEF Spend, Inv, TypeOK
<1>4. bucket' = [bucket EXCEPT ![st][key[t]] =
                    [tokens |-> Refilled(key[t], b, now[t]), last |-> now[t]]]
  <2>1. Refilled(key[t], b, now[t]) \in Int
    BY <1>1, <1>2, RefilledFacts
  <2>2. Refilled(key[t], b, now[t]) - 0 = Refilled(key[t], b, now[t])
    BY <2>1
  <2>3. After(key[t], b, cost[t], now[t])
           = [tokens |-> Refilled(key[t], b, now[t]), last |-> now[t]]
    BY <1>3, <2>2 DEF After
  <2> QED BY <2>3 DEF Spend
<1>5. CASE s # st \/ k # key[t]
  <2>1. bucket'[s][k] = bucket[s][k]
    BY <1>1, <1>4, <1>5 DEF Inv, TypeOK
  <2> QED BY <2>1 DEF Level, Refilled
<1>6. CASE s = st /\ k = key[t]
  <2>1. bucket'[s][k] = [tokens |-> Refilled(k, b, now[t]), last |-> now[t]]
    BY <1>1, <1>4, <1>6 DEF Inv, TypeOK
  <2>2. bucket'[s][k] # NoRow
    <3>1. now[t] # Never
      BY <1>1 DEF Never
    <3> QED BY <2>1, <3>1 DEF NoRow
  <2>3. Level(s, k)' = Refilled(k, b, clock)
    <3>1. Level(s, k)' = Refilled(k, bucket'[s][k], clock)
      BY <2>2 DEF Level, Refilled
    <3> QED BY <1>1, <1>2, <1>6, <2>1, <3>1, RefillTwice
  <2>4. CASE bucket[s][k] # NoRow
    BY <1>6, <2>3, <2>4 DEF Level, RowOf
  <2>5. CASE bucket[s][k] = NoRow
    <3>1. b.tokens = Capacity(k) /\ b.last = now[t]
      BY <1>6, <2>5 DEF RowOf
    <3>2. Capacity(k) \in Nat /\ RateOf(k) \in Nat
      BY RateFacts
    <3>3. \A r, y \in Nat : 0 <= y * r /\ y * r \in Int
      OBVIOUS
    <3>4. clock - now[t] \in Nat
      BY <1>1
    <3>5. 0 <= (clock - now[t]) * RateOf(k) /\ (clock - now[t]) * RateOf(k) \in Int
      BY <3>2, <3>3, <3>4
    <3>6. Refilled(k, b, clock) = AtMost(Capacity(k), Capacity(k) + (clock - now[t]) * RateOf(k))
      BY <3>1 DEF Refilled
    <3>7. Refilled(k, b, clock) = Capacity(k)
      BY <3>2, <3>5, <3>6 DEF AtMost
    <3> QED BY <2>3, <2>5, <3>7 DEF Level
  <2> QED BY <2>4, <2>5
<1> QED BY <1>5, <1>6

\* Only a thread that spends is refused.
LEMMA WhoRefuses ==
    ASSUME Inv, Next, NEW t \in Threads, Refuses(t) PROVE Commit(t) \/ Fallback(t)
<1>1. answer \in [Threads -> Answers] /\ answer[t] = "none" /\ answer'[t] = "refused"
  BY DEF Inv, TypeOK, Refuses
<1>2. ASSUME NEW u \in Threads, Allow(u) PROVE u = t /\ (Commit(u) \/ Fallback(u))
  <2>1. ~(\/ Arrive(u) \/ FindDue(u) \/ PutOff(u) \/ EvictShared(u) \/ EvictOwn(u)
          \/ Begin(u) \/ StoreFails(u))
    BY <1>1 DEF Arrive, FindDue, PutOff, EvictShared, EvictOwn, Begin, StoreFails
  <2>2. Commit(u) \/ Fallback(u)
    BY <1>2, <2>1 DEF Allow
  <2>3. u = t
    BY <1>1, <2>2 DEF Commit, Fallback, Spend
  <2> QED BY <2>2, <2>3
<1>3. ~(Tick \/ StepBack \/ OpenWindow)
  BY <1>1 DEF Tick, StepBack, OpenWindow
<1> QED BY <1>2, <1>3 DEF Next

\* A refused request leaves every bucket, its own and everyone else's, the level
\* it had, for whatever rates, waits and clock corrections.
THEOREM RefusalsAreFree == Spec => RefusalIsFree
<1>1. Inv /\ [Next]_vars =>
         [\A t \in Threads : Refuses(t) =>
             \A s \in Stores, k \in Keys : Level(s, k)' = Level(s, k)]_vars
  <2> SUFFICES ASSUME Inv, Next, NEW t \in Threads, Refuses(t),
                      NEW s \in Stores, NEW k \in Keys
               PROVE  Level(s, k)' = Level(s, k)
    OBVIOUS
  <2>1. answer \in [Threads -> Answers] /\ answer[t] = "none" /\ answer'[t] = "refused"
    BY DEF Inv, TypeOK, Refuses
  <2>2. Commit(t) \/ Fallback(t)
    BY WhoRefuses
  <2>3. CASE Commit(t)
    <3>1. pc[t] # "idle" /\ row[t] = RowOf(Primary, key[t], now[t]) /\ Primary \in Stores
      BY <2>3 DEF Commit, Inv, CommitInv, Stores
    <3> QED BY <2>1, <2>3, <3>1, RefusalWrites DEF Commit
  <2>4. CASE Fallback(t)
    <3>1. pc[t] # "idle" /\ WorkerOf[t] \in Stores
      BY <2>4, WorkerAssumption DEF Fallback, Stores
    <3> QED BY <2>1, <2>4, <3>1, RefusalWrites DEF Fallback
  <2> QED BY <2>2, <2>3, <2>4
<1> QED BY <1>1, Invariance, PTL DEF Spec, RefusalIsFree

-----------------------------------------------------------------------------
(* Rest. *)

\* The clock is never corrected, and nobody asks for more than a bucket holds.
OrdinaryUse ==
    /\ MaxSteps = 0
    /\ \A n \in Namespaces : \A c \in Costs[n] : c <= Rate[n] * Period[n]

\* Whoever is under way asks for something, and a full bucket has it.
AffordableInv ==
    \A t \in Threads : pc[t] # "idle" => 0 < cost[t] /\ cost[t] <= Capacity(key[t])

\* How high the line of a row is at a tick: what it would hold if no bucket
\* were ever full.
Height(k, b, when) == b.tokens + Line(k, when) - Line(k, b.last)

\* No bucket is in debt.
SolventInv ==
    \A s \in Stores, k \in Keys : bucket[s][k] # NoRow => 0 <= Height(k, bucket[s][k], clock)

\* A bucket that has granted nothing has kept what it refilled.
RestInv ==
    window # NoWindow /\ granted = 0 =>
        LET b == bucket[window.store][window.key]
        IN  b # NoRow => 0 <= Height(window.key, b, window.since)

Resting == AffordableInv /\ SolventInv /\ RestInv

\* The height of a row is an integer, and rises with time.
LEMMA HeightFacts ==
    ASSUME NEW k \in Keys, NEW b \in Row, NEW x \in Int, NEW y \in Int, x <= y
    PROVE  Height(k, b, x) \in Int /\ Height(k, b, y) \in Int /\ Height(k, b, x) <= Height(k, b, y)
<1>1. b.tokens \in Int /\ b.last \in Int
  BY DEF Row
<1>2. /\ Line(k, x) \in Int /\ Line(k, y) \in Int /\ Line(k, b.last) \in Int
      /\ Line(k, x) <= Line(k, y)
  BY <1>1, LineFacts
<1> QED BY <1>1, <1>2 DEF Height

\* A spend that a full bucket could afford leaves a row that is out of debt, and
\* one that it refuses leaves a row as high as it was.
LEMMA SpendHeight ==
    ASSUME NEW k \in Keys, NEW b \in Row, NEW when \in 0..MaxClock, NEW c \in Nat,
           c <= Capacity(k)
    PROVE  LET a == After(k, b, c, when)
           IN  /\ a \in Row
               /\ Passes(k, b, c, when) => 0 <= Height(k, a, when)
               /\ ~Passes(k, b, c, when) =>
                     /\ b.last # when \/ b.tokens # Capacity(k)
                     /\ \A x \in Int : Height(k, a, x) = Height(k, b, x)
<1> DEFINE f == Refilled(k, b, when)
           a == After(k, b, c, when)
<1>1. when \in Int /\ Capacity(k) \in Nat /\ b.tokens \in Int /\ b.last \in Int
  BY RateFacts, TimeAssumption DEF Row
<1>2. f \in Int /\ (f = Capacity(k) \/ f - Line(k, when) = b.tokens - Line(k, b.last))
      /\ f <= Capacity(k)
  BY <1>1, RefilledFacts
<1>3. /\ a \in Row /\ a.last = when
      /\ a.tokens = f - (IF Passes(k, b, c, when) THEN c ELSE 0)
      /\ Passes(k, b, c, when) => 0 <= a.tokens
  BY AfterFacts
<1>4. Line(k, when) \in Int /\ Line(k, b.last) \in Int
  BY <1>1, LineType
<1>5. ASSUME Passes(k, b, c, when) PROVE 0 <= Height(k, a, when)
  <2>1. a.tokens \in Int /\ 0 <= a.tokens /\ Height(k, a, when) = a.tokens + Line(k, when) - Line(k, when)
    BY <1>3, <1>5 DEF Height, Row
  <2> QED BY <1>4, <2>1
<1>6. ASSUME ~Passes(k, b, c, when)
      PROVE  /\ b.last # when \/ b.tokens # Capacity(k)
             /\ \A x \in Int : Height(k, a, x) = Height(k, b, x)
  <2>1. f < Capacity(k)
    <3>1. ~(f >= c)
      BY <1>6 DEF Passes
    <3> HIDE DEF f
    <3> QED BY <1>1, <1>2, <3>1
  <2>2. f - Line(k, when) = b.tokens - Line(k, b.last) /\ a.tokens = f
    <3> HIDE DEF f, a
    <3> QED BY <1>2, <1>3, <1>6, <2>1
  <2>3. ASSUME b.last = when PROVE b.tokens # Capacity(k)
    <3> HIDE DEF f
    <3> QED BY <1>1, <1>2, <1>4, <2>1, <2>2, <2>3
  <2>4. ASSUME NEW x \in Int PROVE Height(k, a, x) = Height(k, b, x)
    <3>1. Line(k, x) \in Int
      BY LineType
    <3>2. /\ Height(k, a, x) = f + Line(k, x) - Line(k, when)
          /\ Height(k, b, x) = b.tokens + Line(k, x) - Line(k, b.last)
      BY <1>3, <2>2 DEF Height
    <3> HIDE DEF f, a
    <3> QED BY <1>1, <1>2, <1>4, <2>2, <3>1, <3>2
  <2> QED BY <2>3, <2>4
<1> QED BY <1>3, <1>5, <1>6

\* Spending keeps buckets out of debt, and what rests at rest.
LEMMA SpendRests ==
    ASSUME Inv, Resting, NEW t \in Threads, pc[t] # "idle", NEW st \in Stores,
           Spend(t, st, RowOf(st, key[t], now[t])), UNCHANGED clock
    PROVE  Resting'
<1> DEFINE k == key[t]
           when == now[t]
           b == RowOf(st, k, when)
           a == After(k, b, cost[t], when)
           passes == Passes(k, b, cost[t], when)
<1>1. /\ k \in Keys /\ cost[t] \in Nat /\ when \in 0..MaxClock /\ when \in Int /\ clock \in Int
      /\ when <= clock /\ 0 < cost[t] /\ cost[t] <= Capacity(k) /\ granted \in Nat
  BY TimeAssumption DEF Inv, TypeOK, BusyInv, LagInv, Resting, AffordableInv
<1>2. b \in Row
  BY <1>1, RowOfFacts DEF Inv
<1>3. /\ a \in Row
      /\ passes => 0 <= Height(k, a, when)
      /\ ~passes => /\ b.last # when \/ b.tokens # Capacity(k)
                    /\ \A x \in Int : Height(k, a, x) = Height(k, b, x)
  BY <1>1, <1>2, SpendHeight
<1>4. /\ bucket' = [bucket EXCEPT ![st][k] = a]
      /\ window' = window
      /\ granted' = IF Watched(st, k) THEN granted + (IF passes THEN cost[t] ELSE 0) ELSE granted
      /\ pc' = [pc EXCEPT ![t] = "idle"]
      /\ key' = [key EXCEPT ![t] = NoKey]
      /\ cost' = [cost EXCEPT ![t] = 0]
  BY DEF Spend, Observe
<1>5. ~passes => bucket[st][k] # NoRow /\ b = bucket[st][k]
  BY <1>3 DEF RowOf
<1>6. bucket'[st][k] = a
  BY <1>1, <1>4 DEF Inv, TypeOK
<1>7. AffordableInv'
  BY <1>4 DEF AffordableInv, Inv, TypeOK, Resting, Capacity
<1>8. ASSUME NEW s \in Stores, NEW j \in Keys, s # st \/ j # k
      PROVE  bucket'[s][j] = bucket[s][j]
  BY <1>1, <1>4, <1>8 DEF Inv, TypeOK
<1>9. 0 <= Height(k, a, clock)
  <2>1. CASE passes
    <3>1. Height(k, a, when) \in Int /\ Height(k, a, clock) \in Int
          /\ Height(k, a, when) <= Height(k, a, clock)
      BY <1>1, <1>3, HeightFacts
    <3> HIDE DEF a, k, when
    <3> QED BY <1>3, <2>1, <3>1
  <2>2. CASE ~passes
    BY <1>1, <1>3, <1>5, <2>2 DEF Resting, SolventInv
  <2> QED BY <2>1, <2>2
<1>10. SolventInv'
  <2> SUFFICES ASSUME NEW s \in Stores, NEW j \in Keys, bucket'[s][j] # NoRow
               PROVE  0 <= Height(j, bucket'[s][j], clock)
    BY DEF SolventInv, Height, Line, RateOf
  <2>1. CASE s = st /\ j = k
    BY <1>6, <1>9, <2>1
  <2>2. CASE s # st \/ j # k
    BY <1>8, <2>2 DEF Resting, SolventInv
  <2> QED BY <2>1, <2>2
<1>11. RestInv'
  <2> SUFFICES ASSUME window # NoWindow, granted' = 0, bucket'[window.store][window.key] # NoRow
               PROVE  0 <= Height(window.key, bucket'[window.store][window.key], window.since)
    BY <1>4 DEF RestInv, Height, Line, RateOf
  <2>1. window.key \in Keys /\ window.store \in Stores /\ window.since \in Int
    BY WindowFacts DEF Inv
  <2>2. granted = 0
    BY <1>1, <1>4
  <2>3. CASE Watched(st, k)
    <3>1. window.store = st /\ window.key = k
      BY <2>3 DEF Watched
    <3>2. ~passes
      <4> HIDE DEF k, passes
      <4> QED BY <1>1, <1>4, <2>2, <2>3
    <3> QED BY <1>3, <1>5, <1>6, <2>1, <2>2, <3>1, <3>2 DEF Resting, RestInv
  <2>4. CASE ~Watched(st, k)
    <3>1. window.store # st \/ window.key # k
      BY <2>4 DEF Watched
    <3> QED BY <1>8, <2>1, <2>2, <3>1 DEF Resting, RestInv
  <2> QED BY <2>3, <2>4
<1> QED BY <1>7, <1>10, <1>11 DEF Resting

\* Evicting a bucket leaves the others as high as they were.
LEMMA EvictRests ==
    ASSUME Inv, Resting, NEW t \in Threads, NEW s \in Stores, NEW gone \in SUBSET Keys,
           bucket' = [bucket EXCEPT ![s] = Without(s, gone)],
           pc[t] # "idle", pc' = [pc EXCEPT ![t] = "spend"],
           UNCHANGED <<clock, key, cost, window, granted>>
    PROVE  Resting'
<1>1. \A u \in Stores, k \in Keys : bucket'[u][k] \in {bucket[u][k], NoRow}
  BY DEF Without, Inv, TypeOK
<1>2. AffordableInv'
  BY DEF Inv, TypeOK, Resting, AffordableInv, Capacity
<1>3. SolventInv'
  BY <1>1 DEF Resting, SolventInv, Height, Line, RateOf
<1>4. RestInv'
  <2>1. window # NoWindow => window.key \in Keys /\ window.store \in Stores
    BY WindowFacts DEF Inv
  <2> QED BY <1>1, <2>1 DEF Resting, RestInv, Height, Line, RateOf
<1> QED BY <1>2, <1>3, <1>4 DEF Resting

\* In ordinary use, no bucket falls into debt, and one at rest fills up.
LEMMA RestInvariance ==
    ASSUME OrdinaryUse PROVE Spec => []Resting
<1>1. Init => Resting
  BY DEF Init, Resting, AffordableInv, SolventInv, RestInv
<1>2. Inv /\ Inv' /\ Resting /\ [Next]_vars => Resting'
  <2> SUFFICES ASSUME Inv, Inv', Resting, [Next]_vars PROVE Resting'
    OBVIOUS
  <2>1. ASSUME NEW t \in Threads, Arrive(t) PROVE Resting'
    <3>1. PICK k \in Keys : \E c \in Costs[NamespaceOf[k]] :
             key' = [key EXCEPT ![t] = k] /\ cost' = [cost EXCEPT ![t] = c]
      BY <2>1 DEF Arrive
    <3>2. PICK c \in Costs[NamespaceOf[k]] :
             key' = [key EXCEPT ![t] = k] /\ cost' = [cost EXCEPT ![t] = c]
      BY <3>1
    <3>3. /\ pc[t] = "idle" /\ UNCHANGED <<clock, bucket, window, granted>>
          /\ \A u \in Threads \ {t} : pc'[u] = pc[u]
      BY <2>1 DEF Arrive, observers, Inv, TypeOK
    <3>4. 0 < c /\ c <= Capacity(k)
      BY LimiterAssumption DEF OrdinaryUse, Capacity
    <3>5. AffordableInv'
      BY <3>2, <3>3, <3>4 DEF AffordableInv, Resting, Inv, TypeOK, Capacity
    <3> QED BY <3>3, <3>5 DEF Resting, SolventInv, RestInv, Height, Line, RateOf
  <2>2. ASSUME NEW t \in Threads, EvictShared(t) PROVE Resting'
    <3>1. Primary \in Stores /\ Stale(Primary, t) \in SUBSET Keys
      BY DEF Stores, Stale
    <3> QED BY <2>2, <3>1, EvictRests DEF EvictShared, request, observers
  <2>3. ASSUME NEW t \in Threads, EvictOwn(t) PROVE Resting'
    <3>1. PICK gone \in SUBSET Keys :
             bucket' = [bucket EXCEPT ![WorkerOf[t]] = Without(WorkerOf[t], gone)]
      <4>1. Stale(WorkerOf[t], t) \in SUBSET Keys /\ {} \in SUBSET Keys
        BY DEF Stale
      <4> QED BY <2>3, <4>1 DEF EvictOwn
    <3>2. WorkerOf[t] \in Stores
      BY WorkerAssumption DEF Stores
    <3> QED BY <2>3, <3>1, <3>2, EvictRests DEF EvictOwn, request, observers
  <2>4. ASSUME NEW t \in Threads, FindDue(t) \/ PutOff(t) \/ Begin(t) \/ StoreFails(t)
        PROVE  Resting'
    <3>1. /\ UNCHANGED <<clock, key, cost, bucket, window, granted>>
          /\ \A u \in Threads : pc[u] = "idle" => pc'[u] = "idle"
      BY <2>4 DEF FindDue, PutOff, Begin, StoreFails, request, observers, Inv, TypeOK
    <3> QED BY <3>1 DEF Resting, AffordableInv, SolventInv, RestInv, Height, Line, RateOf, Capacity
  <2>5. ASSUME NEW t \in Threads, Commit(t) PROVE Resting'
    <3>1. pc[t] # "idle" /\ row[t] = RowOf(Primary, key[t], now[t]) /\ Primary \in Stores
      BY <2>5 DEF Commit, Inv, CommitInv, Stores
    <3> QED BY <2>5, <3>1, SpendRests DEF Commit
  <2>6. ASSUME NEW t \in Threads, Fallback(t) PROVE Resting'
    <3>1. pc[t] # "idle" /\ WorkerOf[t] \in Stores
      BY <2>6, WorkerAssumption DEF Fallback, Stores
    <3> QED BY <2>6, <3>1, SpendRests DEF Fallback
  <2>7. CASE Tick
    <3>1. /\ clock \in Int /\ clock' \in Int /\ clock <= clock'
          /\ UNCHANGED <<pc, key, cost, bucket, window, granted>>
      BY <2>7, TimeAssumption DEF Tick, request, observers, Inv, TypeOK
    <3>2. SolventInv'
      <4> SUFFICES ASSUME NEW s \in Stores, NEW k \in Keys, bucket[s][k] # NoRow
                   PROVE  0 <= Height(k, bucket[s][k], clock')
        BY <3>1 DEF SolventInv, Height, Line, RateOf
      <4>1. bucket[s][k] \in Row
        BY DEF Inv, TypeOK
      <4>2. /\ Height(k, bucket[s][k], clock) \in Int /\ Height(k, bucket[s][k], clock') \in Int
            /\ Height(k, bucket[s][k], clock) <= Height(k, bucket[s][k], clock')
        BY <3>1, <4>1, HeightFacts
      <4>3. 0 <= Height(k, bucket[s][k], clock)
        BY DEF Resting, SolventInv
      <4> QED BY <4>2, <4>3
    <3> QED BY <3>1, <3>2 DEF Resting, AffordableInv, RestInv, Height, Line, RateOf, Capacity
  <2>8. CASE StepBack
    BY <2>8 DEF StepBack, OrdinaryUse, Inv, TypeOK
  <2>9. CASE OpenWindow
    <3>1. UNCHANGED <<clock, pc, key, cost, bucket>> /\ (window' # NoWindow => window'.since = clock)
      BY <2>9 DEF OpenWindow, request
    <3>2. window' # NoWindow => window'.key \in Keys /\ window'.store \in Stores
      BY <2>9 DEF OpenWindow
    <3>3. RestInv'
      BY <3>1, <3>2 DEF Resting, SolventInv, RestInv, Height, Line, RateOf
    <3> QED BY <3>1, <3>3 DEF Resting, AffordableInv, SolventInv, Height, Line, RateOf, Capacity
  <2>10. CASE UNCHANGED vars
    BY <2>10 DEF vars, request, observers, Resting, AffordableInv, SolventInv, RestInv,
                 Height, Line, RateOf, Capacity
  <2> QED BY <2>1, <2>2, <2>3, <2>4, <2>5, <2>6, <2>7, <2>8, <2>9, <2>10 DEF Next, Allow
<1> QED BY <1>1, <1>2, Invariance, PTL DEF Spec

\* A thread that is refused by a bucket at rest came before the bucket was full.
LEMMA RefusedEarly ==
    ASSUME Inv, Resting, NEW t \in Threads, pc[t] # "idle", NEW st \in Stores,
           Spend(t, st, RowOf(st, key[t], now[t])), answer'[t] = "refused",
           Watched(st, key[t]), granted = 0
    PROVE  clock < window.since + PeriodOf(key[t]) + MaxLag
<1> DEFINE k == key[t]
           when == now[t]
           since == window.since
           b == RowOf(st, k, when)
           f == Refilled(k, b, when)
<1>1. /\ k \in Keys /\ cost[t] \in Nat /\ when \in 0..MaxClock /\ when \in Int /\ clock \in Int
      /\ clock <= when + MaxLag /\ MaxLag \in Int /\ cost[t] <= Capacity(k)
  BY TimeAssumption DEF Inv, TypeOK, BusyInv, LagInv, Resting, AffordableInv
<1>2. b \in Row
  BY <1>1, RowOfFacts DEF Inv
<1>3. ~Passes(k, b, cost[t], when)
  BY DEF Spend, Inv, TypeOK
<1>4. since \in Int /\ PeriodOf(k) \in Int /\ Capacity(k) \in Int /\ Capacity(k) = Line(k, PeriodOf(k))
  BY <1>1, WindowFacts, RateFacts DEF Inv, Watched
<1>5. b.last # when \/ b.tokens # Capacity(k)
  BY <1>1, <1>2, <1>3, SpendHeight
<1>6. bucket[st][k] # NoRow /\ b = bucket[st][k]
  BY <1>5 DEF RowOf
<1>7. 0 <= Height(k, b, since)
  BY <1>6 DEF Resting, RestInv, Watched
<1>8. f \in Int /\ (f = Capacity(k) \/ f - Line(k, when) = b.tokens - Line(k, b.last))
  BY <1>1, <1>2, RefilledFacts
<1>9. f < Capacity(k)
  <2>1. ~(f >= cost[t])
    BY <1>3 DEF Passes
  <2> HIDE DEF f, k
  <2> QED BY <1>1, <1>4, <1>8, <2>1
<1>10. /\ Line(k, when) \in Int /\ Line(k, since) \in Int /\ Line(k, b.last) \in Int
       /\ b.tokens \in Int
       /\ Line(k, since + PeriodOf(k)) = Line(k, since) + Line(k, PeriodOf(k))
       /\ since + PeriodOf(k) <= when => Line(k, since + PeriodOf(k)) <= Line(k, when)
  <2>1. b.last \in Int /\ b.tokens \in Int /\ since + PeriodOf(k) \in Int
    BY <1>2, <1>4 DEF Row
  <2> HIDE DEF k, b, since, when
  <2> QED BY <1>1, <1>4, <2>1, LineFacts
<1>11. when < since + PeriodOf(k)
  <2>1. 0 <= b.tokens + Line(k, since) - Line(k, b.last)
    BY <1>7 DEF Height
  <2> HIDE DEF f, k, b, since, when
  <2> QED BY <1>1, <1>4, <1>8, <1>9, <1>10, <2>1
<1> HIDE DEF k, since, when
<1>12. clock < since + PeriodOf(k) + MaxLag
  BY <1>1, <1>4, <1>11
<1> QED BY <1>12 DEF k, since

\* In ordinary use, a key that a store has granted nothing for a period is not
\* refused by it, for whatever rates, periods and waits.
THEOREM RestIsRewarded ==
    ASSUME OrdinaryUse PROVE Spec => RestedIsAllowed
<1>1. Inv /\ Resting /\ [Next]_vars =>
         [\A t \in Threads :
             /\ Refuses(t) /\ cost[t] <= Capacity(key[t])
             /\ Watched(Answering(t), key[t]) /\ granted = 0
             => clock < window.since + PeriodOf(key[t]) + MaxLag]_vars
  <2> SUFFICES ASSUME Inv, Resting, Next, NEW t \in Threads, Refuses(t),
                      Watched(Answering(t), key[t]), granted = 0
               PROVE  clock < window.since + PeriodOf(key[t]) + MaxLag
    OBVIOUS
  <2>1. Commit(t) \/ Fallback(t)
    BY WhoRefuses
  <2>2. CASE Commit(t)
    <3>1. pc[t] # "idle" /\ row[t] = RowOf(Primary, key[t], now[t]) /\ Primary \in Stores
          /\ Answering(t) = Primary
      BY <2>2 DEF Commit, Inv, CommitInv, Stores, Answering
    <3> QED BY <2>2, <3>1, RefusedEarly DEF Commit, Refuses
  <2>3. CASE Fallback(t)
    <3>1. pc[t] # "idle" /\ WorkerOf[t] \in Stores /\ Answering(t) = WorkerOf[t]
      BY <2>3, WorkerAssumption DEF Fallback, Stores, Answering
    <3> QED BY <2>3, <3>1, RefusedEarly DEF Fallback, Refuses
  <2> QED BY <2>1, <2>2, <2>3
<1> QED BY <1>1, Invariance, RestInvariance, PTL DEF Spec, RestedIsAllowed

=============================================================================
