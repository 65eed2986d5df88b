---------------------------- MODULE StartupProofs ---------------------------
(***************************************************************************)
(* A worker process, proved in three parts: the prefix cache, whatever     *)
(* settings it is made with and however many keys, ranges and threads      *)
(* there are; the configuration, for any files and environments; and the   *)
(* two together, from the start of a process to its serving.               *)
(***************************************************************************)
EXTENDS Startup, FiniteSetTheorems, SequenceTheorems, TLAPS

-----------------------------------------------------------------------------
(* The use order: a sequence that holds a key once at most. *)

\* a stands before b in s.
Before(s, a, b) == \E i, j \in DOMAIN s : i < j /\ s[i] = a /\ s[j] = b

\* Taking a key out leaves the others, in their order.
LEMMA WithoutFacts ==
    ASSUME NEW S, NEW s \in Seq(S), IsInjective(s), NEW k
    PROVE  /\ Without(s, k) \in Seq(S)
           /\ IsInjective(Without(s, k))
           /\ ToSet(Without(s, k)) = ToSet(s) \ {k}
           /\ \A a, b : Before(Without(s, k), a, b) => Before(s, a, b)
  <1>1. CASE k \notin ToSet(s)
    BY <1>1 DEF Without
  <1>2. CASE k \in ToSet(s)
    <2> DEFINE p == CHOOSE i \in DOMAIN s : s[i] = k
               d == RemoveAt(s, p)
    <2>1. p \in 1..Len(s) /\ s[p] = k
      <3>1. \E i \in DOMAIN s : s[i] = k BY <1>2 DEF ToSet
      <3>2. p \in DOMAIN s /\ s[p] = k BY <3>1
      <3> QED BY <3>2
    <2>2. Without(s, k) = d BY <1>2 DEF Without
    <2> HIDE DEF p
    <2>3. /\ d \in Seq(S)
          /\ Len(d) = Len(s) - 1
          /\ \A i \in 1..(Len(s) - 1) : d[i] = IF i < p THEN s[i] ELSE s[i + 1]
      <3> DEFINE l == SubSeq(s, 1, p - 1)
                 r == SubSeq(s, p + 1, Len(s))
      <3>1. /\ l \in Seq(S) /\ Len(l) = p - 1
            /\ \A i \in 1..(p - 1) : l[i] = s[i]
        BY <2>1, SubSeqProperties
      <3>2. /\ r \in Seq(S) /\ Len(r) = Len(s) - p
            /\ \A i \in 1..(Len(s) - p) : r[i] = s[p + i]
        BY <2>1, SubSeqProperties
      <3>3. d = l \o r BY DEF RemoveAt
      <3> HIDE DEF l, r, d
      <3>4. /\ d \in Seq(S) /\ Len(d) = Len(l) + Len(r)
            /\ \A i \in 1..(Len(l) + Len(r)) : d[i] = IF i <= Len(l) THEN l[i] ELSE r[i - Len(l)]
        BY <3>1, <3>2, <3>3, ConcatProperties
      <3>5. Len(s) \in Nat BY LenProperties
      <3>6. \A i \in 1..(Len(s) - 1) : d[i] = IF i < p THEN s[i] ELSE s[i + 1]
        <4> SUFFICES ASSUME NEW i \in 1..(Len(s) - 1)
                     PROVE  d[i] = IF i < p THEN s[i] ELSE s[i + 1]
          OBVIOUS
        <4>a. i \in 1..(Len(l) + Len(r)) BY <3>1, <3>2, <3>5, <2>1
        <4>b. d[i] = IF i <= Len(l) THEN l[i] ELSE r[i - Len(l)] BY <4>a, <3>4
        <4>1. CASE i < p
          <5>1. i \in 1..(p - 1) /\ i <= Len(l) BY <4>1, <3>1, <2>1, <3>5
          <5>2. l[i] = s[i] BY <5>1, <3>1
          <5> QED BY <5>1, <5>2, <4>1, <4>b
        <4>2. CASE ~(i < p)
          <5>1. i - (p - 1) \in 1..(Len(s) - p) /\ p + (i - (p - 1)) = i + 1 BY <4>2, <3>5, <2>1
          <5>2. r[i - (p - 1)] = s[i + 1] BY <5>1, <3>2
          <5>3. ~(i <= Len(l)) /\ i - Len(l) = i - (p - 1) BY <4>2, <3>1, <3>5, <2>1
          <5> QED BY <5>2, <5>3, <4>2, <4>b
        <4> QED BY <4>1, <4>2
      <3> QED BY <3>1, <3>2, <3>4, <3>5, <3>6, <2>1
    <2> HIDE DEF d
    <2>4. Len(s) \in Nat /\ DOMAIN s = 1..Len(s) /\ DOMAIN d = 1..(Len(s) - 1)
      BY <2>3, LenProperties
    \* Where the i-th of d stands in s.
    <2> DEFINE at(i) == IF i < p THEN i ELSE i + 1
    <2>5. /\ \A i \in DOMAIN d : at(i) \in DOMAIN s /\ d[i] = s[at(i)] /\ at(i) # p
          /\ \A i, j \in DOMAIN d : i < j => at(i) < at(j)
          /\ \A m \in DOMAIN s : m # p => \E i \in DOMAIN d : at(i) = m
      <3>1. \A i \in DOMAIN d : at(i) \in DOMAIN s /\ d[i] = s[at(i)] /\ at(i) # p
        BY <2>1, <2>3, <2>4
      <3>2. \A i, j \in DOMAIN d : i < j => at(i) < at(j) BY <2>1, <2>4
      <3>3. ASSUME NEW m \in DOMAIN s, m # p PROVE \E i \in DOMAIN d : at(i) = m
        <4>1. CASE m < p
          <5>1. m \in DOMAIN d /\ at(m) = m BY <4>1, <2>1, <2>4
          <5> QED BY <5>1
        <4>2. CASE m > p
          <5>1. m - 1 \in DOMAIN d /\ at(m - 1) = m BY <4>2, <2>1, <2>4
          <5> QED BY <5>1
        <4>3. m < p \/ m > p BY <3>3, <2>1, <2>4
        <4> QED BY <4>1, <4>2, <4>3
      <3> QED BY <3>1, <3>2, <3>3
    <2> HIDE DEF at
    <2>6. IsInjective(d)
      <3> SUFFICES ASSUME NEW i \in DOMAIN d, NEW j \in DOMAIN d, d[i] = d[j] PROVE i = j
        BY DEF IsInjective
      <3>1. at(i) = at(j) BY <2>5 DEF IsInjective
      <3>2. i \in Int /\ j \in Int /\ p \in Int BY <2>1, <2>4
      <3> QED BY <3>1, <3>2 DEF at
    <2>7. ToSet(d) = ToSet(s) \ {k}
      <3>1. \A x \in ToSet(d) : x \in ToSet(s) /\ x # k
        BY <2>1, <2>4, <2>5 DEF ToSet, IsInjective
      <3>2. \A x \in ToSet(s) \ {k} : x \in ToSet(d)
        <4> SUFFICES ASSUME NEW m \in DOMAIN s, s[m] # k PROVE s[m] \in ToSet(d) BY DEF ToSet
        <4>1. PICK i \in DOMAIN d : at(i) = m BY <2>1, <2>5
        <4> QED BY <4>1, <2>5 DEF ToSet
      <3> QED BY <3>1, <3>2
    <2>8. \A a, b : Before(d, a, b) => Before(s, a, b) BY <2>5 DEF Before
    <2> QED BY <2>2, <2>3, <2>6, <2>7, <2>8
  <1> QED BY <1>1, <1>2

\* A key that is moved to the end comes after every other, and the others keep
\* their order.
LEMMA MovedFacts ==
    ASSUME NEW S, NEW s \in Seq(S), IsInjective(s), NEW k \in S
    PROVE  LET m == MovedToEnd(s, k)
           IN  /\ m \in Seq(S)
               /\ IsInjective(m)
               /\ Len(m) \in Nat \ {0}
               /\ m[Len(m)] = k
               /\ ToSet(m) = ToSet(s) \cup {k}
               /\ \A a, b : Before(m, a, b) => a # k /\ (Before(s, a, b) \/ b = k)
  <1> DEFINE d == Without(s, k)
             m == MovedToEnd(s, k)
  <1>1. /\ d \in Seq(S) /\ IsInjective(d) /\ ToSet(d) = ToSet(s) \ {k}
        /\ \A a, b : Before(d, a, b) => Before(s, a, b)
    BY WithoutFacts
  <1>2. m = Append(d, k) BY DEF MovedToEnd
  <1> HIDE DEF d, m
  <1>3. /\ m \in Seq(S) /\ Len(m) = Len(d) + 1
        /\ \A i \in 1..Len(d) : m[i] = d[i]
        /\ m[Len(d) + 1] = k
    BY <1>1, <1>2, AppendProperties
  <1>4. Len(d) \in Nat /\ DOMAIN d = 1..Len(d) /\ DOMAIN m = 1..(Len(d) + 1)
    BY <1>1, <1>3, LenProperties
  <1>5. \A i \in DOMAIN m : \/ i \in DOMAIN d /\ m[i] = d[i] /\ d[i] \in ToSet(d)
                            \/ i = Len(d) + 1 /\ m[i] = k
    <2>1. \A i \in DOMAIN m : i \in 1..Len(d) \/ i = Len(d) + 1 BY <1>4
    <2>2. \A i \in DOMAIN d : d[i] \in ToSet(d) BY DEF ToSet
    <2>3. \A i \in 1..Len(d) : i \in DOMAIN d /\ m[i] = d[i] /\ d[i] \in ToSet(d)
      BY <2>2, <1>3, <1>4
    <2>4. m[Len(d) + 1] = k BY <1>3
    <2> QED BY <2>1, <2>3, <2>4
  <1>6. \A x \in ToSet(d) : x # k BY <1>1
  <1>7. IsInjective(m)
    <2> SUFFICES ASSUME NEW i \in DOMAIN m, NEW j \in DOMAIN m, m[i] = m[j] PROVE i = j
      BY DEF IsInjective
    <2> QED BY <1>1, <1>5, <1>6 DEF IsInjective
  <1>8. ToSet(m) = ToSet(s) \cup {k}
    <2>1. \A x \in ToSet(m) : x \in ToSet(d) \cup {k} BY <1>5 DEF ToSet
    <2>2. \A x \in ToSet(d) : x \in ToSet(m) BY <1>3, <1>4 DEF ToSet
    <2>3. k \in ToSet(m) BY <1>3, <1>4 DEF ToSet
    <2> QED BY <1>1, <2>1, <2>2, <2>3
  <1>9. ASSUME NEW a, NEW b, Before(m, a, b) PROVE a # k /\ (Before(s, a, b) \/ b = k)
    <2>1. PICK i \in DOMAIN m, j \in DOMAIN m : i < j /\ m[i] = a /\ m[j] = b BY <1>9 DEF Before
    <2>2. i \in DOMAIN d /\ m[i] = d[i] /\ d[i] \in ToSet(d) BY <2>1, <1>4, <1>5
    <2>3. CASE j \in DOMAIN d
      <3>1. Before(d, a, b) BY <2>1, <2>2, <2>3, <1>3, <1>4 DEF Before
      <3> QED BY <3>1, <2>1, <2>2, <1>1, <1>6
    <2>4. CASE j \notin DOMAIN d BY <2>1, <2>2, <2>4, <1>5, <1>6
    <2> QED BY <2>3, <2>4
  <1> QED BY <1>3, <1>4, <1>7, <1>8, <1>9 DEF m

\* What is dropped from the front came before all that is kept.
LEMMA CutFacts ==
    ASSUME NEW S, NEW s \in Seq(S), IsInjective(s), NEW n \in Nat, n < Len(s)
    PROVE  LET c == SubSeq(s, n + 1, Len(s))
           IN  /\ c \in Seq(S)
               /\ IsInjective(c)
               /\ Len(c) = Len(s) - n
               /\ s[Len(s)] \in ToSet(c)
               /\ ToSet(c) \subseteq ToSet(s)
               /\ \A a, b : Before(c, a, b) => Before(s, a, b)
               /\ \A a \in ToSet(s) \ ToSet(c), b \in ToSet(c) : Before(s, a, b)
  <1> DEFINE c == SubSeq(s, n + 1, Len(s))
  <1>1. Len(s) \in Nat /\ DOMAIN s = 1..Len(s) BY LenProperties
  <1>2. /\ c \in Seq(S) /\ Len(c) = Len(s) - n
        /\ \A i \in 1..(Len(s) - n) : c[i] = s[n + i]
    <2>1. \A i \in (n + 1)..Len(s) : s[i] \in S BY <1>1
    <2>2. /\ c \in Seq(S)
          /\ Len(c) = IF n + 1 <= Len(s) THEN Len(s) - (n + 1) + 1 ELSE 0
          /\ \A i \in 1..(Len(s) - (n + 1) + 1) : c[i] = s[(n + 1) + i - 1]
      BY <1>1, <2>1, SubSeqProperties
    <2> HIDE DEF c
    <2>3. Len(s) - (n + 1) + 1 = Len(s) - n /\ n + 1 <= Len(s) BY <1>1
    <2>4. \A i \in 1..(Len(s) - n) : (n + 1) + i - 1 = n + i BY <1>1
    <2> QED BY <2>2, <2>3, <2>4
  <1> HIDE DEF c
  <1>3. DOMAIN c = 1..(Len(s) - n) BY <1>1, <1>2, LenProperties
  <1>4. \A i \in DOMAIN c : n + i \in DOMAIN s /\ c[i] = s[n + i] BY <1>1, <1>2, <1>3
  <1>5. IsInjective(c)
    <2> SUFFICES ASSUME NEW i \in DOMAIN c, NEW j \in DOMAIN c, c[i] = c[j] PROVE i = j
      BY DEF IsInjective
    <2>1. n + i = n + j BY <1>4 DEF IsInjective
    <2> QED BY <2>1, <1>1, <1>3
  <1>6. s[Len(s)] \in ToSet(c)
    <2>1. Len(s) - n \in DOMAIN c /\ n + (Len(s) - n) = Len(s) BY <1>1, <1>3
    <2>2. c[Len(s) - n] = s[Len(s)] BY <2>1, <1>4
    <2> QED BY <2>1, <2>2 DEF ToSet
  <1>7. ToSet(c) \subseteq ToSet(s) BY <1>4 DEF ToSet
  <1>8. ASSUME NEW a, NEW b, Before(c, a, b) PROVE Before(s, a, b)
    <2>1. PICK i \in DOMAIN c, j \in DOMAIN c : i < j /\ c[i] = a /\ c[j] = b BY <1>8 DEF Before
    <2>2. n + i < n + j BY <2>1, <1>1, <1>3
    <2> QED BY <2>1, <2>2, <1>4 DEF Before
  <1>9. ASSUME NEW a \in ToSet(s) \ ToSet(c), NEW b \in ToSet(c) PROVE Before(s, a, b)
    <2>1. PICK i \in DOMAIN s : s[i] = a BY DEF ToSet
    <2>2. PICK j \in DOMAIN c : c[j] = b BY DEF ToSet
    <2>3. ~(i > n)
      <3> SUFFICES ASSUME i > n PROVE FALSE OBVIOUS
      <3>1. i - n \in DOMAIN c /\ n + (i - n) = i BY <1>1, <1>3, <2>1
      <3>2. c[i - n] = a BY <3>1, <1>4, <2>1
      <3> QED BY <3>1, <3>2 DEF ToSet
    <2>4. i < n + j BY <2>1, <2>2, <2>3, <1>1, <1>3
    <2> QED BY <2>1, <2>2, <2>4, <1>4 DEF Before
  <1> QED BY <1>2, <1>5, <1>6, <1>7, <1>8, <1>9 DEF c

LEMMA KeysCounted ==
    ASSUME NEW S, NEW s \in Seq(S), IsInjective(s)
    PROVE  IsFiniteSet(ToSet(s)) /\ Cardinality(ToSet(s)) = Len(s)
  <1>1. Len(s) \in Nat /\ DOMAIN s = 1..Len(s) BY LenProperties
  <1>2. s \in [1..Len(s) -> ToSet(s)]
    <2>1. s \in [1..Len(s) -> S] BY <1>1, LenProperties
    <2> QED BY <2>1, <1>1 DEF ToSet
  <1>3. s \in Bijection(1..Len(s), ToSet(s))
    BY <1>1, <1>2 DEF Bijection, Injection, Surjection, ToSet
  <1>4. ExistsBijection(1..Len(s), ToSet(s)) BY <1>3 DEF ExistsBijection
  <1> QED BY <1>1, <1>4, FS_NatBijection, FS_CountingElements

-----------------------------------------------------------------------------
(* The invariant. *)

ObserversOK ==
    /\ used \in [CacheKeys -> SUBSET CacheKeys]
    /\ since \in [CacheKeys -> Nat \cup {Never}]
    /\ \A k \in CacheKeys : IsFiniteSet(used[k])

\* A call under way has read the clock.
ClockRead == \A t \in Threads : op[t] # NoCall => op[t].when <= clock

\* An entry is a range, in the order, and expires a TTL after it was stored.
EntryOK(k) ==
    /\ entries[k].range \in Ranges
    /\ k \in ToSet(order)
    /\ since[k] # Never
    /\ entries[k].expires = IF Dated THEN since[k] + settings.ttl ELSE Unordered

EntriesOK == \A k \in CacheKeys : entries[k] # Absent => EntryOK(k)

\* Whatever comes after a key in the order was used since that key was.
OrderOK ==
    /\ IsInjective(order)
    /\ \A a, b \in CacheKeys : Before(order, a, b) => b \in used[a]

\* A range that is gone early has made room for max_entries others.
Kept(k) ==
    entries[k] = Absent /\ Dated /\ since[k] # Never /\ clock < since[k] + settings.ttl
    => Cardinality(used[k]) >= settings.max_entries

\* A cache that is switched off stays empty, and nobody waits for it.
EmptyWhenOff ==
    ~settings.enabled =>
        /\ \A k \in CacheKeys : entries[k] = Absent
        /\ \A t \in Threads : op[t] = NoCall

CacheInv ==
    /\ EmptyWhenOff
    /\ CacheTypeOK
    /\ ObserversOK
    /\ ClockRead
    /\ EntriesOK
    /\ OrderOK
    /\ \A k \in CacheKeys : Kept(k)

LEMMA CacheInitInv == settings \in Settings /\ CacheInit => CacheInv
  <1> SUFFICES ASSUME settings \in Settings, CacheInit PROVE CacheInv OBVIOUS
  <1>1. order = <<>> /\ clock = 0 BY Zenon DEF CacheInit
  <1>2. order \in Seq(CacheKeys) /\ DOMAIN order = {} BY <1>1, EmptySeq
  <1>3. CacheTypeOK
    <2>1. entries \in [CacheKeys -> [range : Ranges \cup {Nothing}, expires : Nat]]
      BY DEF CacheInit, Absent
    <2>2. op \in [Threads -> Call] BY DEF CacheInit, Call
    <2>3. answer \in [Threads -> Replies] BY DEF CacheInit, Replies
    <2>4. clock \in 0..MaxClock BY <1>1, ClockAssumption
    <2> QED BY <1>2, <2>1, <2>2, <2>3, <2>4 DEF CacheTypeOK
  <1>4. ObserversOK BY FS_EmptySet DEF CacheInit, ObserversOK
  <1>5. ClockRead BY DEF CacheInit, ClockRead
  <1>6. \A k \in CacheKeys : entries[k] = Absent /\ since[k] = Never BY DEF CacheInit
  <1>7. EntriesOK BY <1>6 DEF EntriesOK
  <1>8. OrderOK BY <1>2 DEF OrderOK, IsInjective, Before
  <1>9. \A k \in CacheKeys : Kept(k) BY <1>6 DEF Kept
  <1>10. EmptyWhenOff BY DEF CacheInit, EmptyWhenOff
  <1> QED BY <1>3, <1>4, <1>5, <1>7, <1>8, <1>9, <1>10 DEF CacheInv

\* What a thread waits for the lock with.
LEMMA CallFacts ==
    ASSUME CacheTypeOK, NEW t \in Threads
    PROVE  /\ op[t] # NoCall => /\ op[t].kind \in {"get", "contains", "put"}
                               /\ op[t].key \in CacheKeys
                               /\ op[t].when \in Nat
           /\ op[t].kind = "put" => op[t].range \in Ranges
           /\ op[t].kind \in {"get", "contains", "put"} => op[t] # NoCall
  BY ClockAssumption DEF CacheTypeOK, Call, NoCall

LEMMA OrderMoved ==
    ASSUME CacheTypeOK, OrderOK, NEW k \in CacheKeys
    PROVE  /\ MovedToEnd(order, k) \in Seq(CacheKeys)
           /\ IsInjective(MovedToEnd(order, k))
           /\ Len(MovedToEnd(order, k)) \in Nat \ {0}
           /\ MovedToEnd(order, k)[Len(MovedToEnd(order, k))] = k
           /\ ToSet(MovedToEnd(order, k)) = ToSet(order) \cup {k}
           /\ \A a, b : Before(MovedToEnd(order, k), a, b) => a # k /\ (Before(order, a, b) \/ b = k)
  <1>1. order \in Seq(CacheKeys) /\ IsInjective(order) BY DEF CacheTypeOK, OrderOK
  <1> QED BY <1>1, MovedFacts, ZenonT(30)

\* The keys that Put leaves, in their order.
Left(k) ==
    LET all == MovedToEnd(order, k)
        excess == Len(all) - settings.max_entries
    IN  IF excess > 0 THEN SubSeq(all, excess + 1, Len(all)) ELSE all

LEMMA LeftFacts ==
    ASSUME CacheTypeOK, OrderOK, NEW k \in CacheKeys
    PROVE  /\ Left(k) \in Seq(CacheKeys)
           /\ IsInjective(Left(k))
           /\ k \in ToSet(Left(k))
           /\ ToSet(Left(k)) \subseteq ToSet(order) \cup {k}
           /\ \A a, b : Before(Left(k), a, b) => a # k /\ (Before(order, a, b) \/ b = k)
           /\ \A j \in ToSet(order) \ ToSet(Left(k)) :
                 /\ j # k
                 /\ \A b \in ToSet(Left(k)) : Before(order, j, b) \/ b = k
                 /\ IsFiniteSet(ToSet(Left(k)))
                 /\ Cardinality(ToSet(Left(k))) = settings.max_entries
  <1> DEFINE all == MovedToEnd(order, k)
             excess == Len(all) - settings.max_entries
             cut == SubSeq(all, excess + 1, Len(all))
  <1>1. /\ all \in Seq(CacheKeys) /\ IsInjective(all)
        /\ Len(all) \in Nat \ {0} /\ all[Len(all)] = k
        /\ ToSet(all) = ToSet(order) \cup {k}
        /\ \A a, b : Before(all, a, b) => a # k /\ (Before(order, a, b) \/ b = k)
    BY OrderMoved
  <1>2. settings.max_entries \in Nat \ {0} BY DEF CacheTypeOK, Settings
  <1> HIDE DEF all
  <1>3. Left(k) = IF excess > 0 THEN cut ELSE all BY DEF Left, all
  <1>4. CASE excess > 0
    <2>1. excess \in Nat /\ excess < Len(all) BY <1>1, <1>2, <1>4
    <2> HIDE DEF excess
    <2>2. /\ cut \in Seq(CacheKeys) /\ IsInjective(cut)
          /\ Len(cut) = Len(all) - excess
          /\ all[Len(all)] \in ToSet(cut)
          /\ ToSet(cut) \subseteq ToSet(all)
          /\ \A a, b : Before(cut, a, b) => Before(all, a, b)
          /\ \A a \in ToSet(all) \ ToSet(cut), b \in ToSet(cut) : Before(all, a, b)
      BY <1>1, <2>1, CutFacts
    <2> HIDE DEF cut
    <2>3. Len(cut) = settings.max_entries BY <2>2, <1>1, <1>2 DEF excess
    <2>4. IsFiniteSet(ToSet(cut)) /\ Cardinality(ToSet(cut)) = settings.max_entries
      BY <2>2, <2>3, KeysCounted
    <2>5. Left(k) = cut BY <1>3, <1>4
    <2> QED BY <1>1, <2>2, <2>4, <2>5
  <1>5. CASE ~(excess > 0)
    <2>1. Left(k) = all BY <1>3, <1>5
    <2>2. k \in ToSet(all) BY <1>1
    <2> QED BY <1>1, <2>1, <2>2
  <1> QED BY <1>4, <1>5

-----------------------------------------------------------------------------
(* The steps. *)

LEMMA OrderOfPut ==
    ASSUME NEW t \in Threads, Put(t)
    PROVE  /\ order' = Left(op[t].key)
           /\ entries' = [j \in CacheKeys |->
                             CASE j \notin ToSet(order') -> Absent
                               [] j = op[t].key -> [range |-> op[t].range, expires |-> ExpiryOf(t)]
                               [] OTHER -> entries[j]]
  BY DEF Put, Left

LEMMA StepType == CacheTypeOK /\ OrderOK /\ [Serve]_cacheVars => CacheTypeOK'
  <1> SUFFICES ASSUME CacheTypeOK, OrderOK, [Serve]_cacheVars PROVE CacheTypeOK' OBVIOUS
  <1> USE DEF callVars, observers
  <1>1. CASE UNCHANGED cacheVars BY <1>1 DEF cacheVars, CacheTypeOK
  <1> SUFFICES ASSUME Serve PROVE CacheTypeOK' BY <1>1
  <1>2. settings' = settings BY DEF Serve
  <1>3. NoCall \in Call BY DEF Call
  <1>4. ASSUME NEW t \in Threads, BeginGet(t) \/ BeginContains(t) \/ BeginPut(t)
        PROVE  CacheTypeOK'
    <2>1. PICK call \in Call : Begin(t, call)
      BY <1>4 DEF BeginGet, BeginContains, BeginPut, Call, CacheTypeOK
    <2> QED BY <1>2, <2>1 DEF Begin, CacheTypeOK, Replies
  <1>5. ASSUME NEW t \in Threads, TurnAway(t) PROVE CacheTypeOK'
    BY <1>2, <1>3, <1>5 DEF TurnAway, Told, CacheTypeOK, Replies
  <1>6. ASSUME NEW t \in Threads, Find(t) PROVE CacheTypeOK'
    <2>1. op[t].key \in CacheKeys BY <1>6, CallFacts DEF Find
    <2>2. order' \in Seq(CacheKeys) BY <1>6, <2>1, MovedFacts DEF Find, CacheTypeOK, OrderOK
    <2>3. entries[op[t].key].range \in Replies BY <2>1 DEF CacheTypeOK, Replies
    <2> QED BY <1>2, <1>3, <1>6, <2>2, <2>3 DEF Find, Told, CacheTypeOK
  <1>7. ASSUME NEW t \in Threads, Miss(t) PROVE CacheTypeOK'
    <2>1. order' \in Seq(CacheKeys) BY <1>7, WithoutFacts DEF Miss, CacheTypeOK, OrderOK
    <2>2. entries' \in [CacheKeys -> [range : Ranges \cup {Nothing}, expires : Nat]]
      BY <1>7 DEF Miss, CacheTypeOK, Absent
    <2> QED BY <1>2, <1>3, <1>7, <2>1, <2>2 DEF Miss, Told, CacheTypeOK, Replies
  <1>8. ASSUME NEW t \in Threads, LookFor(t) PROVE CacheTypeOK'
    BY <1>2, <1>3, <1>8 DEF LookFor, Told, CacheTypeOK, Replies
  <1>9. ASSUME NEW t \in Threads, Put(t) PROVE CacheTypeOK'
    <2>1. op[t].key \in CacheKeys /\ op[t].when \in Nat /\ op[t].range \in Ranges
      BY <1>9, CallFacts DEF Put
    <2>2. order' \in Seq(CacheKeys) BY <1>9, <2>1, OrderOfPut, LeftFacts
    <2>3. ExpiryOf(t) \in Nat BY <2>1 DEF ExpiryOf, CacheTypeOK, Settings, Unordered
    <2>4. entries' \in [CacheKeys -> [range : Ranges \cup {Nothing}, expires : Nat]]
      BY <1>9, <2>1, <2>3, OrderOfPut DEF CacheTypeOK, Absent
    <2> QED BY <1>2, <1>3, <1>9, <2>2, <2>4 DEF Put, CacheTypeOK
  <1>10. CASE Tick BY <1>2, <1>10, ClockAssumption DEF Tick, CacheTypeOK
  <1> QED BY <1>4, <1>5, <1>6, <1>7, <1>8, <1>9, <1>10 DEF Serve

\* What the use of a key does to the observers.
LEMMA UsingFacts ==
    ASSUME ObserversOK, NEW k \in CacheKeys, used' = Using(k)
    PROVE  /\ used' \in [CacheKeys -> SUBSET CacheKeys]
           /\ \A j \in CacheKeys : IsFiniteSet(used'[j])
           /\ \A j \in CacheKeys : j # k => /\ used[j] \subseteq used'[j]
                                           /\ k \in used'[j]
                                           /\ Cardinality(used[j]) <= Cardinality(used'[j])
  <1>1. \A j \in CacheKeys : used'[j] = IF j = k THEN {} ELSE used[j] \cup {k} BY DEF Using
  <1>2. used' \in [CacheKeys -> SUBSET CacheKeys] BY DEF Using, ObserversOK
  <1>3. ASSUME NEW j \in CacheKeys
        PROVE  /\ IsFiniteSet(used'[j])
               /\ j # k => Cardinality(used[j]) <= Cardinality(used'[j])
    <2>1. IsFiniteSet(used[j]) BY DEF ObserversOK
    <2>2. Cardinality(used[j]) \in Nat BY <2>1, FS_CardinalityType
    <2>3. /\ IsFiniteSet(used[j] \cup {k})
          /\ Cardinality(used[j] \cup {k}) = IF k \in used[j] THEN Cardinality(used[j])
                                             ELSE Cardinality(used[j]) + 1
      BY <2>1, FS_AddElement
    <2>4. IsFiniteSet({}) BY FS_EmptySet
    <2>5. CASE j = k BY <1>1, <2>4, <2>5
    <2>6. CASE j # k
      <3>1. used'[j] = used[j] \cup {k} BY <1>1, <2>6
      <3> QED BY <3>1, <2>2, <2>3
    <2> QED BY <2>5, <2>6
  <1> QED BY <1>1, <1>2, <1>3

\* Only a Put dates a key, and only uses change what was used since.
LEMMA StepObservers == CacheTypeOK /\ ObserversOK /\ [Serve]_cacheVars => ObserversOK'
  <1> SUFFICES ASSUME CacheTypeOK, ObserversOK, [Serve]_cacheVars PROVE ObserversOK' OBVIOUS
  <1>1. CASE UNCHANGED observers BY <1>1 DEF observers, ObserversOK
  <1>2. ASSUME NEW t \in Threads, Find(t) PROVE ObserversOK'
    <2>1. op[t].key \in CacheKeys BY <1>2, CallFacts DEF Find
    <2> QED BY <1>2, <2>1, UsingFacts DEF Find, ObserversOK
  <1>3. ASSUME NEW t \in Threads, Put(t) PROVE ObserversOK'
    <2>1. op[t].key \in CacheKeys /\ op[t].when \in Nat BY <1>3, CallFacts DEF Put
    <2>2. since' \in [CacheKeys -> Nat \cup {Never}] BY <1>3, <2>1 DEF Put, ObserversOK
    <2> QED BY <1>3, <2>1, <2>2, UsingFacts DEF Put, ObserversOK
  <1>4. (\E t \in Threads : Find(t) \/ Put(t)) \/ UNCHANGED observers
    BY DEF Serve, BeginGet, BeginContains, BeginPut, Begin, TurnAway, Miss, LookFor, Tick,
           cacheVars, observers
  <1> QED BY <1>1, <1>2, <1>3, <1>4

\* A call reads the clock when it begins; nobody else touches it, but to end it.
LEMMA CallStep ==
    ASSUME CacheTypeOK, [Serve]_cacheVars, NEW t \in Threads
    PROVE  op'[t] \in {op[t], NoCall} \/ (op'[t].when = clock /\ clock' = clock)
  <1>1. CASE UNCHANGED cacheVars BY <1>1 DEF cacheVars, callVars
  <1>2. ASSUME NEW u \in Threads, BeginGet(u) \/ BeginContains(u) \/ BeginPut(u)
        PROVE  op'[t] \in {op[t], NoCall} \/ (op'[t].when = clock /\ clock' = clock)
    <2>1. PICK call : Begin(u, call) /\ call.when = clock
      <3>1. CASE BeginGet(u) BY <3>1 DEF BeginGet
      <3>2. CASE BeginContains(u) BY <3>2 DEF BeginContains
      <3>3. CASE BeginPut(u) BY <3>3 DEF BeginPut
      <3> QED BY <1>2, <3>1, <3>2, <3>3
    <2> QED BY <2>1 DEF Begin, CacheTypeOK
  <1>3. ASSUME NEW u \in Threads, TurnAway(u) \/ Find(u) \/ Miss(u) \/ LookFor(u) \/ Put(u)
        PROVE  op'[t] \in {op[t], NoCall}
    BY <1>3 DEF TurnAway, Find, Miss, LookFor, Put, Told, CacheTypeOK
  <1>4. CASE Tick BY <1>4 DEF Tick, callVars
  <1> QED BY <1>1, <1>2, <1>3, <1>4 DEF Serve

LEMMA ClockStep == CacheTypeOK /\ [Serve]_cacheVars => clock \in Nat /\ clock' \in {clock, clock + 1}
  <1> SUFFICES ASSUME CacheTypeOK, [Serve]_cacheVars PROVE clock \in Nat /\ clock' \in {clock, clock + 1}
    OBVIOUS
  <1>1. clock \in Nat BY ClockAssumption DEF CacheTypeOK
  <1>2. Tick => clock' = clock + 1 BY DEF Tick
  <1>3. Tick \/ clock' = clock
    BY DEF Serve, BeginGet, BeginContains, BeginPut, Begin, TurnAway, Find, Miss, LookFor, Put,
           cacheVars
  <1> QED BY <1>1, <1>2, <1>3

LEMMA StepClock == CacheTypeOK /\ ClockRead /\ [Serve]_cacheVars => ClockRead'
  <1> SUFFICES ASSUME CacheTypeOK, ClockRead, [Serve]_cacheVars, NEW t \in Threads, op'[t] # NoCall
               PROVE  op'[t].when <= clock'
    BY DEF ClockRead
  <1>1. clock \in Nat /\ clock' \in {clock, clock + 1} BY ClockStep
  <1>2. op'[t] = op[t] \/ (op'[t].when = clock /\ clock' = clock) BY CallStep
  <1>3. CASE op'[t] = op[t]
    <2>1. op[t].when \in Nat /\ op[t].when <= clock BY <1>3, CallFacts DEF ClockRead
    <2> QED BY <1>1, <1>3, <2>1
  <1>4. CASE op'[t].when = clock /\ clock' = clock BY <1>1, <1>4
  <1> QED BY <1>2, <1>3, <1>4

\* The steps that leave the entries, the order and what they are about alone.
LEMMA Quiet ==
    ASSUME [Serve]_cacheVars
    PROVE  \/ \E t \in Threads : Find(t) \/ Miss(t) \/ Put(t)
           \/ UNCHANGED <<entries, order, used, since>>
  BY DEF Serve, BeginGet, BeginContains, BeginPut, Begin, TurnAway, LookFor, Tick,
         cacheVars, observers

LEMMA SettingsStay == [Serve]_cacheVars => UNCHANGED settings
  BY DEF Serve, cacheVars

LEMMA StepOrder == CacheTypeOK /\ ObserversOK /\ OrderOK /\ [Serve]_cacheVars => OrderOK'
  <1> SUFFICES ASSUME CacheTypeOK, ObserversOK, OrderOK, [Serve]_cacheVars PROVE OrderOK' OBVIOUS
  <1>1. order \in Seq(CacheKeys) /\ IsInjective(order) BY DEF CacheTypeOK, OrderOK
  <1>2. ASSUME NEW k \in CacheKeys, used' = Using(k), IsInjective(order'),
               \A a, b : Before(order', a, b) => a # k /\ (Before(order, a, b) \/ b = k)
        PROVE  OrderOK'
    <2> SUFFICES ASSUME NEW a \in CacheKeys, NEW b \in CacheKeys, Before(order', a, b)
                 PROVE  b \in used'[a]
      BY <1>2 DEF OrderOK, Before
    <2>1. a # k /\ (Before(order, a, b) \/ b = k) BY <1>2
    <2>2. used[a] \subseteq used'[a] /\ k \in used'[a] BY <1>2, <2>1, UsingFacts
    <2> QED BY <2>1, <2>2 DEF OrderOK
  <1>3. ASSUME NEW t \in Threads, Find(t) PROVE OrderOK'
    <2>1. op[t].key \in CacheKeys BY <1>3, CallFacts DEF Find
    <2>2. order' = MovedToEnd(order, op[t].key) /\ used' = Using(op[t].key) BY <1>3 DEF Find
    <2>3. /\ IsInjective(order')
          /\ \A a, b : Before(order', a, b) => a # op[t].key /\ (Before(order, a, b) \/ b = op[t].key)
      BY <2>1, <2>2, OrderMoved
    <2> QED BY <1>2, <2>1, <2>2, <2>3
  <1>4. ASSUME NEW t \in Threads, Miss(t) PROVE OrderOK'
    <2>1. order' = Without(order, op[t].key) /\ used' = used BY <1>4 DEF Miss, observers
    <2>2. IsInjective(order') /\ \A a, b : Before(order', a, b) => Before(order, a, b)
      BY <1>1, <2>1, WithoutFacts
    <2> QED BY <2>1, <2>2 DEF OrderOK, Before
  <1>5. ASSUME NEW t \in Threads, Put(t) PROVE OrderOK'
    <2>1. op[t].key \in CacheKeys BY <1>5, CallFacts DEF Put
    <2>2. order' = Left(op[t].key) /\ used' = Using(op[t].key) BY <1>5, OrderOfPut DEF Put
    <2>3. /\ IsInjective(order')
          /\ \A a, b : Before(order', a, b) => a # op[t].key /\ (Before(order, a, b) \/ b = op[t].key)
      BY <2>1, <2>2, LeftFacts
    <2> QED BY <1>2, <2>1, <2>2, <2>3
  <1>6. CASE UNCHANGED <<entries, order, used, since>> BY <1>6 DEF OrderOK, Before
  <1> QED BY <1>3, <1>4, <1>5, <1>6, Quiet

LEMMA StepEntries == CacheInv /\ [Serve]_cacheVars => EntriesOK'
  <1> SUFFICES ASSUME CacheInv, [Serve]_cacheVars PROVE EntriesOK' OBVIOUS
  <1>1. /\ CacheTypeOK /\ EntriesOK /\ OrderOK
        /\ order \in Seq(CacheKeys) /\ IsInjective(order)
    BY DEF CacheInv, CacheTypeOK, OrderOK
  <1>2. settings' = settings BY SettingsStay
  <1>3. ASSUME NEW t \in Threads, Find(t) PROVE EntriesOK'
    <2>1. op[t].key \in CacheKeys BY <1>1, <1>3, CallFacts DEF Find
    <2>2. UNCHANGED <<entries, since>> BY <1>3 DEF Find
    <2>3. ToSet(order') = ToSet(order) \cup {op[t].key}
      BY <1>1, <1>3, <2>1, OrderMoved DEF Find
    <2> QED BY <1>1, <1>2, <2>2, <2>3 DEF EntriesOK, EntryOK, Dated
  <1>4. ASSUME NEW t \in Threads, Miss(t) PROVE EntriesOK'
    <2>1. UNCHANGED since BY <1>4 DEF Miss, observers
    <2>2. \A j \in CacheKeys : entries'[j] # Absent => j # op[t].key /\ entries'[j] = entries[j]
      BY <1>1, <1>4 DEF Miss, CacheTypeOK
    <2>3. ToSet(order') = ToSet(order) \ {op[t].key} BY <1>1, <1>4, WithoutFacts DEF Miss
    <2> QED BY <1>1, <1>2, <2>1, <2>2, <2>3 DEF EntriesOK, EntryOK, Dated
  <1>5. ASSUME NEW t \in Threads, Put(t) PROVE EntriesOK'
    <2> DEFINE k == op[t].key
    <2>1. k \in CacheKeys /\ op[t].when \in Nat /\ op[t].range \in Ranges
      BY <1>1, <1>5, CallFacts DEF Put
    <2>2. k \in ToSet(order') BY <1>1, <1>5, <2>1, OrderOfPut, LeftFacts
    <2>3. \A j \in CacheKeys : since'[j] = IF j = k THEN op[t].when ELSE since[j]
      BY <1>5 DEF Put, CacheInv, ObserversOK
    <2>4. entries'[k] = [range |-> op[t].range, expires |-> ExpiryOf(t)]
      BY <1>5, <2>1, <2>2, OrderOfPut
    <2>5. \A j \in CacheKeys : j # k /\ entries'[j] # Absent =>
             j \in ToSet(order') /\ entries'[j] = entries[j]
      BY <1>5, OrderOfPut
    <2> HIDE DEF k
    <2>6. ASSUME NEW j \in CacheKeys, entries'[j] # Absent PROVE EntryOK(j)'
      <3>1. CASE j = k
        <4>1. entries'[j].range \in Ranges /\ entries'[j].expires = ExpiryOf(t)
          BY <2>1, <2>4, <3>1
        <4>2. since'[j] = op[t].when /\ since'[j] # Never BY <2>1, <2>3, <3>1 DEF Never
        <4> QED BY <1>2, <2>2, <3>1, <4>1, <4>2 DEF EntryOK, ExpiryOf, Dated
      <3>2. CASE j # k
        <4>1. entries'[j] = entries[j] /\ since'[j] = since[j] /\ j \in ToSet(order')
          BY <2>3, <2>5, <2>6, <3>2
        <4>2. EntryOK(j) BY <1>1, <2>6, <4>1 DEF EntriesOK
        <4> QED BY <1>2, <4>1, <4>2 DEF EntryOK, Dated
      <3> QED BY <3>1, <3>2
    <2> QED BY <2>6 DEF EntriesOK, Absent
  <1>6. CASE UNCHANGED <<entries, order, used, since>>
    BY <1>1, <1>2, <1>6 DEF EntriesOK, EntryOK, Dated
  <1> QED BY <1>3, <1>4, <1>5, <1>6, Quiet

\* Making room, a hit, the end of an entry and the passing of time: none of
\* them loses a range early but to max_entries others.
LEMMA StepKept == CacheInv /\ [Serve]_cacheVars => \A k \in CacheKeys : Kept(k)'
  <1> SUFFICES ASSUME CacheInv, [Serve]_cacheVars, NEW j \in CacheKeys PROVE Kept(j)' OBVIOUS
  <1> SUFFICES ASSUME entries'[j] = Absent, Dated', since'[j] # Never,
                      clock' < since'[j] + settings'.ttl
               PROVE  Cardinality(used'[j]) >= settings'.max_entries
    BY DEF Kept, Dated
  <1>1. /\ CacheTypeOK /\ ObserversOK /\ ClockRead /\ EntriesOK /\ OrderOK /\ Kept(j)
        /\ order \in Seq(CacheKeys) /\ IsInjective(order)
    BY DEF CacheInv, CacheTypeOK, OrderOK
  <1>2. settings' = settings /\ Dated BY SettingsStay DEF Dated
  <1>3. /\ clock \in Nat /\ clock <= clock' /\ clock' \in Nat
        /\ settings.max_entries \in Nat /\ settings.ttl \in Nat
    <2>1. clock \in Nat /\ clock' \in {clock, clock + 1} BY <1>1, ClockStep
    <2> QED BY <1>1, <2>1 DEF CacheTypeOK, Settings
  <1>4. Cardinality(used[j]) \in Nat BY <1>1, FS_CardinalityType DEF ObserversOK
  <1>5. ASSUME entries[j] = Absent, since'[j] = since[j],
               Cardinality(used[j]) <= Cardinality(used'[j]), Cardinality(used'[j]) \in Nat
        PROVE  Cardinality(used'[j]) >= settings'.max_entries
    <2>1. since[j] \in Nat BY <1>1, <1>5 DEF ObserversOK
    <2>2. clock < since[j] + settings.ttl BY <1>2, <1>3, <1>5, <2>1
    <2>3. Cardinality(used[j]) >= settings.max_entries BY <1>1, <1>2, <1>5, <2>2 DEF Kept
    <2> QED BY <1>2, <1>3, <1>4, <1>5, <2>3
  <1>6. ASSUME NEW t \in Threads, Find(t) PROVE Cardinality(used'[j]) >= settings'.max_entries
    <2>1. op[t].key \in CacheKeys BY <1>1, <1>6, CallFacts DEF Find
    <2>2. entries[j] = Absent /\ since'[j] = since[j] /\ j # op[t].key BY <1>6 DEF Find
    <2>3. used' = Using(op[t].key) BY <1>6 DEF Find
    <2>4. Cardinality(used[j]) <= Cardinality(used'[j]) /\ IsFiniteSet(used'[j])
      BY <1>1, <2>1, <2>2, <2>3, UsingFacts
    <2>5. Cardinality(used'[j]) \in Nat BY <2>4, FS_CardinalityType
    <2> QED BY <1>5, <2>2, <2>4, <2>5
  <1>7. ASSUME NEW t \in Threads, Miss(t) PROVE Cardinality(used'[j]) >= settings'.max_entries
    <2>1. UNCHANGED <<used, since>> BY <1>7 DEF Miss, observers
    <2>2. entries[j] = Absent
      <3> SUFFICES ASSUME entries[j] # Absent PROVE FALSE OBVIOUS
      <3>1. j = op[t].key /\ Expired(j, op[t].when) /\ op[t] # NoCall
        BY <1>1, <1>7, CallFacts DEF Miss, CacheTypeOK
      <3>2. op[t].when <= clock /\ op[t].when \in Nat BY <1>1, <3>1, CallFacts DEF ClockRead
      <3>3. entries[j].expires = since[j] + settings.ttl /\ since[j] # Never
        BY <1>1, <1>2 DEF EntriesOK, EntryOK
      <3>4. since[j] \in Nat BY <1>1, <3>3 DEF ObserversOK
      <3>5. since[j] + settings.ttl <= op[t].when BY <3>1, <3>3 DEF Expired
      <3> QED BY <1>2, <1>3, <2>1, <3>2, <3>4, <3>5
    <2> QED BY <1>4, <1>5, <2>1, <2>2
  <1>8. ASSUME NEW t \in Threads, Put(t) PROVE Cardinality(used'[j]) >= settings'.max_entries
    <2> DEFINE k == op[t].key
    <2>1. k \in CacheKeys /\ op[t].range \in Ranges BY <1>1, <1>8, CallFacts DEF Put
    <2>2. order' = Left(k) /\ used' = Using(k) BY <1>8, OrderOfPut DEF Put
    <2>3. entries' = [i \in CacheKeys |->
                        CASE i \notin ToSet(Left(k)) -> Absent
                          [] i = k -> [range |-> op[t].range, expires |-> ExpiryOf(t)]
                          [] OTHER -> entries[i]]
      BY <1>8, <2>2, OrderOfPut
    <2>4. since' = [since EXCEPT ![k] = op[t].when] BY <1>8 DEF Put
    <2> HIDE DEF k
    <2>5. k \in ToSet(Left(k)) BY <1>1, <2>1, LeftFacts
    <2>6. j # k
      <3> SUFFICES ASSUME j = k PROVE FALSE OBVIOUS
      <3>1. entries'[j] = [range |-> op[t].range, expires |-> ExpiryOf(t)] BY <2>3, <2>5
      <3>2. op[t].range = Nothing BY <3>1 DEF Absent
      <3> QED BY <2>1, <3>2, RangesAssumption
    <2>7. /\ IsFiniteSet(used'[j]) /\ used[j] \subseteq used'[j] /\ k \in used'[j]
          /\ Cardinality(used[j]) <= Cardinality(used'[j])
      BY <1>1, <2>1, <2>2, <2>6, UsingFacts
    <2>8. Cardinality(used'[j]) \in Nat BY <2>7, FS_CardinalityType
    <2>9. CASE entries[j] = Absent
      <3>1. since'[j] = since[j] BY <1>1, <2>4, <2>6 DEF ObserversOK
      <3> QED BY <1>5, <2>7, <2>8, <2>9, <3>1
    <2>10. CASE entries[j] # Absent
      <3>1. j \in ToSet(order) BY <1>1, <2>10 DEF EntriesOK, EntryOK
      <3>2. j \notin ToSet(Left(k)) BY <2>3, <2>6, <2>10
      <3>3. /\ \A b \in ToSet(Left(k)) : Before(order, j, b) \/ b = k
            /\ IsFiniteSet(ToSet(Left(k)))
            /\ Cardinality(ToSet(Left(k))) = settings.max_entries
            /\ ToSet(Left(k)) \subseteq ToSet(order) \cup {k}
        BY <1>1, <2>1, <3>1, <3>2, LeftFacts
      <3>4. ToSet(order) \subseteq CacheKeys BY <1>1 DEF ToSet
      <3>5. ToSet(Left(k)) \subseteq used'[j]
        <4> SUFFICES ASSUME NEW b \in ToSet(Left(k)), b # k PROVE b \in used'[j] BY <2>7
        <4>1. Before(order, j, b) /\ b \in CacheKeys BY <3>3, <3>4
        <4> QED BY <1>1, <2>7, <4>1 DEF OrderOK
      <3>6. Cardinality(ToSet(Left(k))) <= Cardinality(used'[j]) BY <2>7, <3>5, FS_Subset
      <3> QED BY <1>2, <1>3, <2>8, <3>3, <3>6
    <2> QED BY <2>9, <2>10
  <1>9. CASE UNCHANGED <<entries, order, used, since>> BY <1>4, <1>5, <1>9
  <1> QED BY <1>6, <1>7, <1>8, <1>9, Quiet

\* How a get ends: with the range it found alive, or with nothing.
LEMMA GetEnds ==
    ASSUME CacheTypeOK, [Serve]_cacheVars, NEW t \in Threads,
           op[t] # NoCall, op[t].kind = "get", op'[t] = NoCall
    PROVE  /\ answer'[t] \in Ranges => entries[op[t].key] # Absent /\ ~Expired(op[t].key, op[t].when)
           /\ answer'[t] = Nothing => entries[op[t].key] = Absent \/ Expired(op[t].key, op[t].when)
                                     \/ entries[op[t].key].range = Nothing
  <1>1. \A u \in Threads : ~(BeginGet(u) \/ BeginContains(u) \/ BeginPut(u) \/ TurnAway(u)
                              \/ LookFor(u) \/ Put(u)) \/ u # t
    BY DEF BeginGet, BeginContains, BeginPut, Begin, TurnAway, LookFor, Put
  <1>2. \A u \in Threads \ {t} :
           BeginGet(u) \/ BeginContains(u) \/ BeginPut(u) \/ TurnAway(u)
              \/ Find(u) \/ Miss(u) \/ LookFor(u) \/ Put(u) => op'[t] = op[t]
    BY DEF BeginGet, BeginContains, BeginPut, Begin, TurnAway, Find, Miss, LookFor, Put, Told,
           CacheTypeOK
  <1>3. Tick \/ UNCHANGED cacheVars => op'[t] = op[t] BY DEF Tick, cacheVars, callVars
  <1>4. Find(t) \/ Miss(t) BY <1>1, <1>2, <1>3 DEF Serve
  <1>5. CASE Find(t)
    <2>1. answer'[t] = entries[op[t].key].range BY <1>5 DEF Find, Told, CacheTypeOK
    <2> QED BY <1>5, <2>1 DEF Find
  <1>6. CASE Miss(t)
    <2>1. answer'[t] = Nothing BY <1>6 DEF Miss, Told, CacheTypeOK
    <2>2. Nothing \notin Ranges BY RangesAssumption
    <2> QED BY <1>6, <2>1, <2>2 DEF Miss
  <1> QED BY <1>4, <1>5, <1>6

\* A cache that is switched off starts no call that could store anything.
LEMMA StepEmpty == CacheTypeOK /\ EmptyWhenOff /\ [Serve]_cacheVars => EmptyWhenOff'
  <1> SUFFICES ASSUME CacheTypeOK, EmptyWhenOff, [Serve]_cacheVars, ~settings'.enabled
               PROVE  /\ \A k \in CacheKeys : entries'[k] = Absent
                      /\ \A t \in Threads : op'[t] = NoCall
    BY DEF EmptyWhenOff
  <1>1. settings' = settings BY DEF Serve, cacheVars
  <1>2. /\ \A k \in CacheKeys : entries[k] = Absent
        /\ \A t \in Threads : op[t] = NoCall
    BY <1>1 DEF EmptyWhenOff
  <1>3. ASSUME NEW t \in Threads, TurnAway(t) PROVE entries' = entries /\ op' = op
    BY <1>2, <1>3 DEF TurnAway, Told, CacheTypeOK
  <1>4. ASSUME NEW t \in Threads PROVE ~(Find(t) \/ Miss(t) \/ LookFor(t) \/ Put(t))
    BY <1>2, <1>4 DEF Find, Miss, LookFor, Put, NoCall
  <1>5. ASSUME NEW t \in Threads PROVE ~(BeginGet(t) \/ BeginContains(t) \/ BeginPut(t))
    BY <1>1 DEF BeginGet, BeginContains, BeginPut, Begin
  <1>6. entries' = entries /\ op' = op
    BY <1>3, <1>4, <1>5 DEF Serve, Tick, cacheVars, callVars
  <1> QED BY <1>2, <1>6

\* Types, and what the entries, their order and their ages have to do with
\* each other.
LEMMA CacheStepInv == CacheInv /\ [Serve]_cacheVars => CacheInv'
  <1> SUFFICES ASSUME CacheInv, [Serve]_cacheVars PROVE CacheInv' OBVIOUS
  <1>1. CacheTypeOK /\ ObserversOK /\ ClockRead /\ OrderOK BY DEF CacheInv
  <1>2. CacheTypeOK' BY <1>1, StepType
  <1>3. ObserversOK' BY <1>1, StepObservers
  <1>4. ClockRead' BY <1>1, StepClock
  <1>5. EntriesOK' BY StepEntries
  <1>6. OrderOK' BY <1>1, StepOrder
  <1>7. (\A k \in CacheKeys : Kept(k))' BY StepKept
  <1>8. EmptyWhenOff' BY StepEmpty DEF CacheInv
  <1> QED BY <1>2, <1>3, <1>4, <1>5, <1>6, <1>7, <1>8 DEF CacheInv

THEOREM CacheInvariance == CacheSpec => []CacheInv
  BY CacheInitInv, CacheStepInv, PTL DEF CacheSpec

\* What a get finds has an entry that is not expired, of the age since tells.
LEMMA StepInTime == CacheInv /\ [Serve]_cacheVars => [FindsInTime]_cacheVars
  <1> SUFFICES ASSUME CacheInv, [Serve]_cacheVars, NEW t \in Threads,
                      op[t] # NoCall, op[t].kind = "get", answer'[t] \in Ranges,
                      op'[t] = NoCall, Dated
               PROVE  op[t].when < since[op[t].key] + settings.ttl
    BY DEF FindsInTime
  <1>1. CacheTypeOK /\ ObserversOK /\ EntriesOK BY DEF CacheInv
  <1> DEFINE k == op[t].key
  <1>2. k \in CacheKeys /\ op[t].when \in Nat BY <1>1, CallFacts
  <1>3. entries[k] # Absent /\ ~Expired(k, op[t].when) BY <1>1, GetEnds
  <1>4. entries[k].expires = since[k] + settings.ttl /\ since[k] # Never
    BY <1>1, <1>2, <1>3 DEF EntriesOK, EntryOK
  <1>5. since[k] \in Nat /\ settings.ttl \in Nat /\ settings.ttl # 0
    BY <1>1, <1>2, <1>4 DEF ObserversOK, CacheTypeOK, Settings, Dated, Unordered
  <1> QED BY <1>2, <1>3, <1>4, <1>5 DEF Expired, Unordered

\* No get finds a range that is older, by its own clock, than the TTL.
THEOREM NeverStale == CacheSpec => ServedInTime
  BY CacheInvariance, StepInTime, PTL DEF CacheSpec, ServedInTime

\* What a get misses is expired, or was made room with.
LEMMA StepUseful == CacheInv /\ [Serve]_cacheVars => [MissesInTime]_cacheVars
  <1> SUFFICES ASSUME CacheInv, [Serve]_cacheVars, NEW t \in Threads,
                      op[t] # NoCall, op[t].kind = "get", op'[t] = NoCall, answer'[t] = Nothing,
                      Dated, since[op[t].key] # Never,
                      clock < since[op[t].key] + settings.ttl
               PROVE  Cardinality(used[op[t].key]) >= settings.max_entries
    BY DEF MissesInTime
  <1>1. CacheTypeOK /\ ObserversOK /\ EntriesOK /\ ClockRead BY DEF CacheInv
  <1> DEFINE k == op[t].key
  <1>2. k \in CacheKeys /\ op[t].when \in Nat /\ op[t].when <= clock
    BY <1>1, CallFacts DEF ClockRead
  <1>3. entries[k] = Absent \/ Expired(k, op[t].when)
    <2>1. entries[k] = Absent \/ Expired(k, op[t].when) \/ entries[k].range = Nothing
      BY <1>1, GetEnds
    <2>2. entries[k] # Absent => entries[k].range # Nothing
      BY <1>1, <1>2, RangesAssumption DEF EntriesOK, EntryOK
    <2> QED BY <2>1, <2>2
  <1>4. entries[k] = Absent
    <2> SUFFICES ASSUME entries[k] # Absent PROVE FALSE OBVIOUS
    <2>1. entries[k].expires = since[k] + settings.ttl BY <1>1, <1>2 DEF EntriesOK, EntryOK
    <2>2. since[k] \in Nat /\ settings.ttl \in Nat /\ clock \in Nat
      BY <1>1, <1>2, ClockAssumption DEF ObserversOK, CacheTypeOK, Settings
    <2>3. since[k] + settings.ttl <= op[t].when BY <1>3, <2>1 DEF Expired
    <2> QED BY <1>2, <2>2, <2>3
  <1>5. Kept(k) BY <1>2 DEF CacheInv
  <1> QED BY <1>4, <1>5 DEF Kept

\* A range within its TTL is missed only when max_entries other keys have been
\* used since it was.
THEOREM NeverLostEarly == CacheSpec => KeptWhileUseful
  BY CacheInvariance, StepUseful, PTL DEF CacheSpec, KeptWhileUseful

-----------------------------------------------------------------------------
(* The refinement of RangeCache. *)

\* What the abstract cache sees of this one.
Held == [k \in CacheKeys |-> entries[k].range]
Calls == [t \in Threads |-> CallOf(op[t])]

LEMMA IdealInit == CacheInit => Ideal!Init
  <1> SUFFICES ASSUME CacheInit PROVE Ideal!Init OBVIOUS
  <1>1. \A k \in CacheKeys : entries[k].range = Nothing BY DEF CacheInit, Absent
  <1>2. \A t \in Threads : CallOf(op[t]) = NoCall BY DEF CacheInit, CallOf, NoCall
  <1>3. answer = [t \in Threads |-> "nothing yet"] BY DEF CacheInit
  <1> QED BY <1>1, <1>2, <1>3 DEF Ideal!Init, Ideal!NoCall, NoCall

LEMMA NoCallMapped == CallOf(NoCall) = Ideal!NoCall
  BY DEF CallOf, NoCall, Ideal!NoCall

\* A call that ends is no call; the others stay what they are.
LEMMA CallEnds ==
    ASSUME CacheTypeOK, NEW t \in Threads, op' = [op EXCEPT ![t] = NoCall]
    PROVE  Calls' = [Calls EXCEPT ![t] = Ideal!NoCall]
  BY NoCallMapped DEF Calls, CacheTypeOK

\* What the abstract cache calls a call.
LEMMA CallMapped ==
    ASSUME NEW o
    PROVE  /\ o.kind = "get" => CallOf(o) = [kind |-> "get", key |-> o.key]
           /\ o.kind = "contains" => CallOf(o) = [kind |-> "contains", key |-> o.key]
           /\ o.kind = "put" => CallOf(o) = [kind |-> "put", key |-> o.key, range |-> o.range]
  BY DEF CallOf

\* To forget a key that is not held is to forget nothing.
LEMMA OnlyWhatIsHeld ==
    ASSUME NEW gone
    PROVE  \E away \in SUBSET Ideal!Full : Ideal!Without(away) = Ideal!Without(gone)
  <1> DEFINE away == gone \cap Ideal!Full
  <1>1. away \in SUBSET Ideal!Full OBVIOUS
  <1>2. Ideal!Without(away) = Ideal!Without(gone) BY DEF Ideal!Without, Ideal!Full
  <1> QED BY <1>1, <1>2

LEMMA IdealStep == CacheInv /\ [Serve]_cacheVars => [Ideal!Next]_Ideal!vars
  <1> SUFFICES ASSUME CacheInv, [Serve]_cacheVars PROVE [Ideal!Next]_<<Held, Calls, answer>>
    BY DEF Held, Calls, Ideal!vars
  <1>1. CacheTypeOK /\ OrderOK /\ EntriesOK BY DEF CacheInv
  <1>2. CASE UNCHANGED cacheVars BY <1>2 DEF cacheVars, callVars, Held, Calls
  <1>3. ASSUME NEW t \in Threads, BeginGet(t) \/ BeginContains(t) \/ BeginPut(t) PROVE Ideal!Ask(t)
    <2>1. PICK c \in Call : Begin(t, c) /\ CallOf(c) \in Ideal!Call
      <3>1. CASE BeginGet(t)
        BY <1>1, <3>1, CallMapped DEF BeginGet, Call, CacheTypeOK, Ideal!Call
      <3>2. CASE BeginContains(t)
        BY <1>1, <3>2, CallMapped DEF BeginContains, Call, CacheTypeOK, Ideal!Call
      <3>3. CASE BeginPut(t)
        BY <1>1, <3>3, CallMapped DEF BeginPut, Call, CacheTypeOK, Ideal!Call
      <3> QED BY <1>3, <3>1, <3>2, <3>3
    <2>2. Calls' = [Calls EXCEPT ![t] = CallOf(c)] BY <1>1, <2>1 DEF Begin, Calls, CacheTypeOK
    <2>3. Calls[t] = Ideal!NoCall
      BY <2>1, NoCallMapped DEF Begin, Calls
    <2>4. answer' = [answer EXCEPT ![t] = "nothing yet"] /\ Held' = Held BY <2>1 DEF Begin, Held
    <2> QED BY <2>1, <2>2, <2>3, <2>4 DEF Ideal!Ask, Calls, Held
  <1>4. ASSUME NEW t \in Threads, TurnAway(t) PROVE Ideal!TurnAway(t)
    <2>1. Calls[t] = Ideal!NoCall BY <1>4, NoCallMapped DEF TurnAway, Calls
    <2>2. op' = op BY <1>1, <1>4 DEF TurnAway, Told, CacheTypeOK
    <2>3. \/ answer' = [answer EXCEPT ![t] = Nothing]
          \/ answer' = [answer EXCEPT ![t] = "no"]
      BY <1>4 DEF TurnAway, Told
    <2>4. entries' = entries BY <1>4 DEF TurnAway
    <2>5. Ideal!Full = {}
      <3>1. \A k \in CacheKeys : entries[k].range = Nothing
        BY <1>4 DEF TurnAway, CacheInv, EmptyWhenOff, Absent
      <3> QED BY <3>1 DEF Ideal!Full
    <2> QED BY <2>1, <2>2, <2>3, <2>4, <2>5 DEF Ideal!TurnAway, Calls
  <1>5. ASSUME NEW t \in Threads, Find(t) PROVE Ideal!Get(t)
    <2> DEFINE k == op[t].key
    <2>1. k \in CacheKeys BY <1>1, <1>5, CallFacts DEF Find
    <2>2. Calls[t].kind = "get" /\ Calls[t].key = k BY <1>5, CallMapped DEF Find, Calls
    <2>3. Calls' = [Calls EXCEPT ![t] = Ideal!NoCall] BY <1>1, <1>5, CallEnds DEF Find, Told
    <2>4. Held' = Ideal!Without({})
      BY <1>1, <1>5, <2>1 DEF Find, Held, Absent, CacheTypeOK, Ideal!Without
    <2>5. \E gone \in SUBSET Ideal!Full : Held' = Ideal!Without(gone)
      BY <2>4, OnlyWhatIsHeld
    <2>6. Held'[Calls[t].key] = entries[k].range
      BY <1>1, <1>5, <2>1, <2>2 DEF Find, Held, Absent, CacheTypeOK
    <2>7. answer' = [answer EXCEPT ![t] = Held'[Calls[t].key]]
      BY <1>5, <2>6 DEF Find, Told
    <2> QED BY <2>2, <2>3, <2>5, <2>7 DEF Ideal!Get, Ideal!Ends, Calls, Held
  <1>6. ASSUME NEW t \in Threads, Miss(t) PROVE Ideal!Get(t)
    <2> DEFINE k == op[t].key
    <2>1. k \in CacheKeys BY <1>1, <1>6, CallFacts DEF Miss
    <2>2. Calls[t].kind = "get" /\ Calls[t].key = k BY <1>6, CallMapped DEF Miss, Calls
    <2>3. Calls' = [Calls EXCEPT ![t] = Ideal!NoCall] BY <1>1, <1>6, CallEnds DEF Miss, Told
    <2>4. Held' = Ideal!Without({k})
      BY <1>1, <1>6, <2>1 DEF Miss, Held, Absent, CacheTypeOK, Ideal!Without
    <2>5. \E gone \in SUBSET Ideal!Full : Held' = Ideal!Without(gone)
      BY <2>4, OnlyWhatIsHeld
    <2>6. Held'[Calls[t].key] = Nothing
      BY <1>1, <1>6, <2>1, <2>2 DEF Miss, Held, Absent, CacheTypeOK
    <2>7. answer' = [answer EXCEPT ![t] = Held'[Calls[t].key]]
      BY <1>6, <2>6 DEF Miss, Told
    <2> QED BY <2>2, <2>3, <2>5, <2>7 DEF Ideal!Get, Ideal!Ends, Calls, Held
  <1>7. ASSUME NEW t \in Threads, LookFor(t) PROVE Ideal!Contains(t)
    <2> DEFINE k == op[t].key
    <2>1. k \in CacheKeys BY <1>1, <1>7, CallFacts DEF LookFor
    <2>2. Calls[t].kind = "contains" /\ Calls[t].key = k BY <1>7, CallMapped DEF LookFor, Calls
    <2>3. Calls' = [Calls EXCEPT ![t] = Ideal!NoCall] BY <1>1, <1>7, CallEnds DEF LookFor, Told
    <2>4. Live(k, op[t].when) => Held[Calls[t].key] # Nothing
      BY <1>1, <2>1, <2>2, RangesAssumption DEF Live, Held, EntriesOK, EntryOK
    <2>5. \/ answer' = [answer EXCEPT ![t] = "no"]
          \/ Held[Calls[t].key] # Nothing /\ answer' = [answer EXCEPT ![t] = "yes"]
      BY <1>7, <2>4 DEF LookFor, Told
    <2>6. Held' = Held BY <1>7 DEF LookFor, Held
    <2> QED BY <2>2, <2>3, <2>5, <2>6 DEF Ideal!Contains, Ideal!Ends, Calls, Held
  <1>8. ASSUME NEW t \in Threads, Put(t) PROVE Ideal!Put(t)
    <2> DEFINE k == op[t].key
               r == op[t].range
               gone == {j \in CacheKeys : j \notin ToSet(Left(k))}
    <2>1. k \in CacheKeys BY <1>1, <1>8, CallFacts DEF Put
    <2>8. Calls[t].kind = "put" /\ Calls[t].key = k /\ Calls[t].range = r
      BY <1>8, CallMapped DEF Put, Calls
    <2>2. Calls' = [Calls EXCEPT ![t] = Ideal!NoCall] BY <1>1, <1>8, CallEnds DEF Put
    <2>3. k \in ToSet(Left(k)) BY <1>1, <2>1, LeftFacts
    <2>4. entries' = [j \in CacheKeys |->
                        CASE j \notin ToSet(Left(k)) -> Absent
                          [] j = k -> [range |-> r, expires |-> ExpiryOf(t)]
                          [] OTHER -> entries[j]]
      BY <1>8, OrderOfPut
    <2> HIDE DEF k, r
    <2>5. \A j \in CacheKeys : Held'[j] = IF j = k THEN r ELSE IF j \in gone THEN Nothing ELSE Held[j]
      BY <2>3, <2>4 DEF Held, Absent
    <2>6. Held' = [Ideal!Without(gone) EXCEPT ![k] = r]
      BY <2>1, <2>5 DEF Held, Ideal!Without
    <2>7. answer' = answer BY <1>8 DEF Put
    <2> HIDE DEF gone
    <2>9. \E away \in SUBSET Ideal!Full :
             Held' = [Ideal!Without(away) EXCEPT ![Calls[t].key] = Calls[t].range]
      BY <2>6, <2>8, OnlyWhatIsHeld
    <2> QED BY <2>2, <2>7, <2>8, <2>9 DEF Ideal!Put, Ideal!Ends, Calls, Held
  <1>9. CASE Tick BY <1>9 DEF Tick, callVars, Held, Calls
  <1> QED BY <1>2, <1>3, <1>4, <1>5, <1>6, <1>7, <1>8, <1>9 DEF Serve, Ideal!Next

\* The cache is the one the fan-out and the routes take it for.
THEOREM CacheRefinement == CacheSpec => ImplementsRangeCache
  BY CacheInitInv, IdealInit, IdealStep, CacheInvariance, PTL DEF CacheSpec, ImplementsRangeCache, Ideal!Spec

-----------------------------------------------------------------------------
(* The configuration. *)

\* What the document, or else DEFAULTS, says of a key.
Written(k) == IF k \in DOMAIN file.sets THEN file.sets[k] ELSE DEFAULTS[k]

\* All that a text in the environment can be read as.
Readings(raw) == {AsBool(raw), AsInt(raw), AsFloat(raw), AsList(raw), AsText(raw)} \ {Invalid}

\* Of the variables applied so far, the i-th is the last that names k.
SaysLast(i, k) ==
    /\ i \in 1..applied
    /\ environ[i].name = k
    /\ \A j \in 1..applied : environ[j].name = k => j <= i

Named(k) == \E i \in 1..applied : environ[i].name = k

\* A leaf is what was written, or a reading of the last variable that names it.
LeafOK(k) ==
    \/ ~Named(k) /\ data[k] = Written(k)
    \/ \E i \in 1..applied : SaysLast(i, k) /\ data[k] \in Readings(environ[i].raw)

\* A section that a variable named is none any more.
SectionOK(s) == data[s] \in {Map, None, Text(1)} /\ (Named(s) => data[s] # Map)

\* While the environment is applied.
Merged ==
    /\ Mergeable(file)
    /\ applied \in 0..Len(environ)
    /\ data \in [Keys -> Value]
    /\ \A i \in 1..applied : environ[i].name \in Keys \/ Foreign(environ[i].name)
    /\ \A k \in Leaves : LeafOK(k)
    /\ \A s \in Sections : SectionOK(s)

\* What start-up needs of a configuration that was accepted.
Usable ==
    /\ config["cache.max_entries"].n \in Nat \ {0}
    /\ config["cache.ttl_seconds"].n \in Nat
    /\ config["denylist.path"] = None => config["checks.denylist.enabled"] = Bool(FALSE)

ConfigInv ==
    /\ defaults = DEFAULTS
    /\ shared = {}
    /\ file \in Files \cup {NoFile}
    /\ environ \in Environments \cup {<<>>}
    /\ phase \in {"idle", "file"} => applied = 0
    /\ phase = "environment" => Merged
    /\ phase = "accepted" => Usable
    /\ phase # "accepted" => config = NoConfig
    /\ ConfigIsWhatWasSet
    /\ NoTypoSurvives

LEMMA ConfigInitInv == ConfigInit => ConfigInv
  BY DEF ConfigInit, ConfigInv, ConfigIsWhatWasSet, NoTypoSurvives

\* Nothing is left of a load that is over.
LEMMA DroppedInv ==
    ASSUME ConfigInv, Dropped, UNCHANGED defaults, phase' \in {"idle", "serving"}
    PROVE  ConfigInv'
  BY DEF Dropped, ConfigInv, ConfigIsWhatWasSet, NoTypoSurvives

LEMMA ReadingsAreValues ==
    ASSUME NEW raw
    PROVE  Readings(raw) \subseteq Value
  <1>1. AsBool(raw) \in Value \cup {Invalid} BY DEF AsBool, Bool, Value, Invalid
  <1>2. AsInt(raw) \in Value \cup {Invalid} BY DEF AsInt, Whole, Value, Invalid
  <1>3. AsFloat(raw) \in Value \cup {Invalid} BY DEF AsFloat, Float, NaN, Value, Invalid
  <1>4. AsList(raw) \in Value BY DEF AsList, List, Value
  <1>5. AsText(raw) \in Value BY DEF AsText, None, Text, Value
  <1> QED BY <1>1, <1>2, <1>3, <1>4, <1>5 DEF Readings

LEMMA CoercedReads ==
    ASSUME NEW v, NEW raw, NEW k
    PROVE  Coerced(v, raw, k) \in Readings(raw) \cup {Invalid}
  BY DEF Coerced, Readings

\* A variable that names a section puts a text, or nothing, in its place.
LEMMA SectionReads ==
    ASSUME NEW s \in Sections, NEW v \in {Map, None, Text(1)}, NEW raw
    PROVE  Coerced(v, raw, s) \in {None, Text(1)} /\ Coerced(v, raw, s) # Map
  <1>1. s \notin NUMERIC_WHEN_UNSET BY DEF Sections, NUMERIC_WHEN_UNSET
  <1>2. v.type \notin {"list", "bool", "int", "float", "nan"} BY DEF Map, None, Text
  <1>3. Coerced(v, raw, s) = AsText(raw) BY <1>1, <1>2 DEF Coerced
  <1>4. AsText(raw) = None \/ AsText(raw) = Text(1) BY DEF AsText
  <1>5. None # Map /\ Text(1) # Map
    <2>1. None.type = "none" /\ Text(1).type = "text" /\ Map.type = "map" BY DEF None, Text, Map
    <2> QED BY <2>1
  <1> QED BY <1>3, <1>4, <1>5

LEMMA KeyFacts ==
    /\ Keys = Leaves \cup Sections
    /\ Leaves \cap Sections = {}
    /\ \A k \in Keys : ~Foreign(k)
    /\ \A k \in Leaves : SectionOf(k) \in Sections
  BY DEF Keys, Leaves, Sections, Foreign, SectionOf, Flags, Numbers, Nullable, Counts, Texts, Lists

\* A leaf is of one kind.
LEMMA KindFacts ==
    /\ \A k \in Flags : k \notin Numbers \cup Nullable \cup Counts \cup Texts \cup Lists
    /\ \A k \in Numbers : k \notin Nullable \cup Counts \cup Texts \cup Lists
    /\ \A k \in Nullable : k \notin Counts \cup Texts \cup Lists
    /\ \A k \in Counts : k \notin Texts \cup Lists
    /\ \A k \in Texts : k \notin Lists
  BY DEF Flags, Numbers, Nullable, Counts, Texts, Lists

LEMMA EverySectionHasALeaf == \A s \in Sections : \E k \in Leaves : SectionOf(k) = s
  <1>1. /\ SectionOf("http.timeout") = "http"
        /\ SectionOf("checks.hibp.enabled") = "checks.hibp"
        /\ SectionOf("checks.denylist.enabled") = "checks.denylist"
        /\ SectionOf("denylist.path") = "denylist"
        /\ SectionOf("cache.enabled") = "cache"
    BY DEF SectionOf
  <1> QED BY <1>1 DEF Sections, Leaves, Flags, Numbers, Nullable, Counts, Texts, Lists

\* What a value has that is a number, or NaN.
LEMMA ValueFacts ==
    ASSUME NEW v \in Value
    PROVE  v.n \in Int /\ (v.type = "nan" => v.n = 0)
  BY DEF Value, None, NaN, Map

LEMMA DefaultFacts ==
    /\ DEFAULTS \in [Keys -> Value]
    /\ \A s \in Sections : DEFAULTS[s] = Map
  <1>1. ASSUME NEW k \in Keys PROVE DEFAULTS[k] \in Value
    BY DEF DEFAULTS, Value, Map, None, Bool, Float, Whole, List
  <1>2. DEFAULTS = [k \in Keys |-> DEFAULTS[k]] BY DEF DEFAULTS
  <1>3. ASSUME NEW s \in Sections PROVE DEFAULTS[s] = Map
    <2>1. s \in Keys BY KeyFacts
    <2>2. s \notin Flags /\ s \notin Numbers /\ s \notin Counts /\ s \notin Lists
      BY DEF Sections, Flags, Numbers, Counts, Lists
    <2> QED BY <2>1, <2>2 DEF DEFAULTS
  <1> QED BY <1>1, <1>2, <1>3

LEMMA EnvironFacts ==
    ASSUME ConfigInv
    PROVE  /\ Len(environ) \in Nat
           /\ DOMAIN environ = 1..Len(environ)
           /\ \A i \in 1..Len(environ) : environ[i].raw \in Raws
  <1>1. environ \in Seq([name : STRING, raw : Raws])
    BY EnvironmentsAssumption, EmptySeq DEF ConfigInv
  <1>2. Len(environ) \in Nat /\ DOMAIN environ = 1..Len(environ) BY <1>1, LenProperties
  <1>3. \A i \in 1..Len(environ) : environ[i] \in [name : STRING, raw : Raws]
    BY <1>1, ElementOfSeq
  <1> QED BY <1>2, <1>3

\* A document that can be merged sets leaves, and leaves sections null.
LEMMA MergeInv ==
    ASSUME ConfigInv, Merge
    PROVE  ConfigInv'
  <1>1. CASE ~Mergeable(file)
    BY <1>1 DEF Merge, ConfigInv, ConfigIsWhatWasSet, NoTypoSurvives
  <1>2. CASE Mergeable(file)
    <2>1. /\ data' = [k \in Keys |-> IF k \in DOMAIN file.sets \cap Leaves
                                     THEN file.sets[k] ELSE DEFAULTS[k]]
          /\ shared' = {} /\ phase' = "environment"
          /\ UNCHANGED <<defaults, file, environ, applied, config>>
          /\ applied = 0
      BY <1>2 DEF Merge, ConfigInv, SharedAfterCopy
    <2>2. \A k \in DOMAIN file.sets : file.sets[k] \in Value
      BY FilesAssumption DEF ConfigInv, NoFile
    <2>3. data' \in [Keys -> Value] BY <2>1, <2>2, DefaultFacts
    <2>4. \A k \in Leaves : LeafOK(k)'
      BY <2>1, KeyFacts DEF LeafOK, Named, Written
    <2>5. \A s \in Sections : SectionOK(s)'
      BY <2>1, KeyFacts, DefaultFacts DEF SectionOK, Named
    <2>6. Mergeable(file') BY <1>2, <2>1
    <2>7. applied' \in 0..Len(environ') /\ 1..applied' = {}
      BY <2>1, EnvironFacts
    <2>8. Merged' BY <2>3, <2>4, <2>5, <2>6, <2>7 DEF Merged, Mergeable
    <2>9. config' = NoConfig BY <2>1 DEF Merge, ConfigInv
    <2> QED BY <2>1, <2>8, <2>9 DEF ConfigInv, ConfigIsWhatWasSet, NoTypoSurvives
  <1> QED BY <1>1, <1>2

\* One more variable: it is the last to name its key, and no other key is
\* touched.
LEMMA ApplyInv ==
    ASSUME ConfigInv, ApplyVariable
    PROVE  ConfigInv'
  <1> DEFINE v == environ[applied + 1]
             new == Coerced(data[v.name], v.raw, v.name)
  <1>1. /\ phase = "environment" /\ applied < Len(environ)
        /\ applied' = applied + 1
        /\ UNCHANGED <<shared, file, environ, config>>
    BY DEF ApplyVariable
  <1>2. Merged BY <1>1 DEF ConfigInv
  <1>3. applied \in Nat /\ applied' \in 0..Len(environ) /\ Len(environ) \in Nat
    BY <1>1, <1>2, EnvironFacts DEF Merged
  <1>4. 1..applied' = (1..applied) \cup {applied + 1} BY <1>1, <1>3
  <1>5. config = NoConfig /\ shared = {} /\ defaults = DEFAULTS BY <1>1 DEF ConfigInv
  <1>6. CASE Foreign(v.name)
    <2>1. UNCHANGED <<data, defaults, phase>> BY <1>6 DEF ApplyVariable
    <2> HIDE DEF v
    <2>2. \A k \in Keys : v.name # k BY <1>6, KeyFacts
    <2>3. \A k \in Keys : \A j \in 1..applied' : environ[j].name = k => j \in 1..applied
      <3>1. environ[applied + 1].name = v.name BY DEF v
      <3> QED BY <3>1, <2>2, <1>4
    <2>4. \A k \in Keys : Named(k)' <=> Named(k) BY <2>3, <1>1, <1>4 DEF Named
    <2>5. \A k \in Leaves : LeafOK(k)'
      <3> SUFFICES ASSUME NEW k \in Leaves PROVE LeafOK(k)' OBVIOUS
      <3>1. LeafOK(k) BY <1>2 DEF Merged
      <3>2. Written(k)' = Written(k) BY <1>1 DEF Written
      <3>3. CASE ~Named(k) /\ data[k] = Written(k)
        BY <3>2, <3>3, <2>1, <2>4, KeyFacts DEF LeafOK
      <3>4. ASSUME NEW i \in 1..applied, SaysLast(i, k), data[k] \in Readings(environ[i].raw)
            PROVE  LeafOK(k)'
        <4>1. SaysLast(i, k)' BY <3>4, <2>3, <1>1, <1>4, KeyFacts DEF SaysLast
        <4>2. i \in 1..applied' BY <1>4
        <4> QED BY <4>1, <4>2, <3>4, <2>1, <1>1 DEF LeafOK
      <3> QED BY <3>1, <3>3, <3>4 DEF LeafOK
    <2>6. \A s \in Sections : SectionOK(s)' BY <2>1, <2>4, <1>2, KeyFacts DEF SectionOK, Merged
    <2>7. \A i \in 1..applied' : environ[i].name \in Keys \/ Foreign(environ[i].name)
      BY <1>2, <1>4, <1>6 DEF Merged, v
    <2>8. Merged' BY <1>1, <1>2, <1>3, <2>1, <2>5, <2>6, <2>7 DEF Merged
    <2> QED BY <1>1, <1>5, <2>1, <2>8 DEF ConfigInv, ConfigIsWhatWasSet, NoTypoSurvives
  <1>7. CASE ~Foreign(v.name) /\ (~Reachable(v.name) \/ new = Invalid)
    <2>1. phase' = "rejected" /\ UNCHANGED <<data, defaults>> BY <1>7 DEF ApplyVariable
    <2> QED BY <1>1, <1>5, <2>1 DEF ConfigInv, ConfigIsWhatWasSet, NoTypoSurvives
  <1>8. CASE ~Foreign(v.name) /\ Reachable(v.name) /\ new # Invalid
    <2>1. data' = [data EXCEPT ![v.name] = new] /\ UNCHANGED <<defaults, phase>>
      BY <1>5, <1>8 DEF ApplyVariable
    <2>2. new \in Readings(v.raw) BY <1>8, CoercedReads
    <2>3. new \in Value BY <2>2, ReadingsAreValues
    <2>4. v.name \in Keys BY <1>8 DEF Reachable
    <2>5. v.name \in Sections => new \in {Map, None, Text(1)} /\ new # Map
      BY <1>2, SectionReads DEF Merged, SectionOK
    <2> DEFINE n == v.name
               raw == v.raw
    <2>6. environ[applied + 1].name = n /\ environ[applied + 1].raw = raw OBVIOUS
    <2>7. data' = [data EXCEPT ![n] = new] /\ n \in Keys BY <2>1, <2>4
    <2> HIDE DEF v, new, n, raw
    <2>8. data' \in [Keys -> Value] /\ data'[n] = new /\ \A k \in Keys : k # n => data'[k] = data[k]
      BY <1>2, <2>3, <2>7 DEF Merged
    <2>9. \A k \in Keys : k # n => (Named(k)' <=> Named(k))
      BY <1>1, <1>4, <2>6 DEF Named
    <2>10. PICK m \in Nat : m = applied + 1 BY <1>3
    <2>11. \A k \in Leaves : LeafOK(k)'
      <3> SUFFICES ASSUME NEW k \in Leaves PROVE LeafOK(k)' OBVIOUS
      <3>1. CASE k = n
        <4>1. SaysLast(m, k)' BY <3>1, <1>1, <1>3, <1>4, <2>6, <2>10 DEF SaysLast
        <4>2. data'[k] \in Readings(environ'[m].raw)
          BY <3>1, <1>1, <2>2, <2>6, <2>8, <2>10 DEF raw
        <4>3. m \in 1..applied' BY <1>4, <2>10
        <4> QED BY <4>1, <4>2, <4>3 DEF LeafOK
      <3>2. CASE k # n
        <4>1. LeafOK(k) /\ k \in Keys BY <1>2, KeyFacts DEF Merged
        <4>2. Written(k)' = Written(k) BY <1>1 DEF Written
        <4>3. CASE ~Named(k) /\ data[k] = Written(k)
          BY <3>2, <4>1, <4>2, <4>3, <2>8, <2>9 DEF LeafOK
        <4>4. ASSUME NEW i \in 1..applied, SaysLast(i, k), data[k] \in Readings(environ[i].raw)
              PROVE  LeafOK(k)'
          <5>1. SaysLast(i, k)' BY <3>2, <4>4, <1>1, <1>4, <2>6 DEF SaysLast
          <5>2. i \in 1..applied' BY <1>4
          <5> QED BY <5>1, <5>2, <3>2, <4>1, <4>4, <2>8, <1>1 DEF LeafOK
        <4> QED BY <4>1, <4>3, <4>4 DEF LeafOK
      <3> QED BY <3>1, <3>2
    <2>12. \A s \in Sections : SectionOK(s)'
      <3> SUFFICES ASSUME NEW s \in Sections PROVE SectionOK(s)' OBVIOUS
      <3>1. CASE s = n BY <3>1, <2>5, <2>8 DEF SectionOK, n
      <3>2. CASE s # n BY <3>2, <1>2, <2>8, <2>9, KeyFacts DEF SectionOK, Merged
      <3> QED BY <3>1, <3>2
    <2>13. \A i \in 1..applied' : environ[i].name \in Keys \/ Foreign(environ[i].name)
      BY <1>2, <1>4, <2>6, <2>7 DEF Merged
    <2>14. Merged' BY <1>1, <1>2, <1>3, <2>8, <2>11, <2>12, <2>13 DEF Merged
    <2> QED BY <1>1, <1>5, <2>1, <2>14 DEF ConfigInv, ConfigIsWhatWasSet, NoTypoSurvives
  <1> QED BY <1>6, <1>7, <1>8

\* The first of some of nine.
LEMMA FirstOfNine ==
    ASSUME NEW S, S \subseteq 1..9, S # {}
    PROVE  \E i \in S : \A j \in S : i <= j
  <1>1. CASE 1 \in S \/ 2 \in S \/ 3 \in S BY <1>1
  <1>2. CASE S \subseteq 4..9 /\ (4 \in S \/ 5 \in S \/ 6 \in S) BY <1>2
  <1>3. CASE S \subseteq 7..9 /\ (7 \in S \/ 8 \in S \/ 9 \in S) BY <1>3
  <1>4. 1 \notin S /\ 2 \notin S /\ 3 \notin S => S \subseteq 4..9 OBVIOUS
  <1>5. S \subseteq 4..9 /\ 4 \notin S /\ 5 \notin S /\ 6 \notin S => S \subseteq 7..9 OBVIOUS
  <1>6. S \subseteq 7..9 => 7 \in S \/ 8 \in S \/ 9 \in S
    <2> SUFFICES ASSUME S \subseteq 7..9 PROVE 7 \in S \/ 8 \in S \/ 9 \in S OBVIOUS
    <2>1. PICK i \in S : i \in 7..9 OBVIOUS
    <2>2. i = 7 \/ i = 8 \/ i = 9 BY <2>1
    <2> QED BY <2>2
  <1> QED BY <1>1, <1>2, <1>3, <1>4, <1>5, <1>6

\* _build looks at every leaf, and so at every section.
LEMMA EveryLeafIsLookedAt ==
    ASSUME FirstProblem = 0
    PROVE  \A k \in Leaves : data[SectionOf(k)] = Map /\ Acceptable(k, data[k])
  <1> DEFINE bad == {i \in DOMAIN BuildOrder :
                        ~Subscriptable(BuildOrder[i]) \/ ~Acceptable(BuildOrder[i], data[BuildOrder[i]])}
  <1>1. DOMAIN BuildOrder = 1..9 BY DEF BuildOrder
  <1>2. bad = {}
    <2> SUFFICES ASSUME bad # {} PROVE FALSE OBVIOUS
    <2>1. \E i \in bad : \A j \in bad : i <= j
      <3>1. bad \subseteq 1..9 BY <1>1
      <3> HIDE DEF bad
      <3> QED BY <3>1, FirstOfNine
    <2>2. FirstProblem = CHOOSE i \in bad : \A j \in bad : i <= j BY DEF FirstProblem
    <2>3. bad \subseteq 1..9 BY <1>1
    <2> HIDE DEF bad
    <2>4. FirstProblem \in bad BY <2>1, <2>2
    <2> QED BY <2>3, <2>4
  <1>3. \A i \in 1..9 : Subscriptable(BuildOrder[i]) /\ Acceptable(BuildOrder[i], data[BuildOrder[i]])
    BY <1>1, <1>2
  <1>4. \A k \in Leaves : \E i \in 1..9 : BuildOrder[i] = k
    <2>1. /\ BuildOrder[1] = "http.timeout" /\ BuildOrder[2] = "checks.hibp.enabled"
          /\ BuildOrder[3] = "checks.hibp.timeout" /\ BuildOrder[4] = "checks.hibp.algorithms"
          /\ BuildOrder[5] = "checks.denylist.enabled" /\ BuildOrder[6] = "denylist.path"
          /\ BuildOrder[7] = "cache.enabled" /\ BuildOrder[8] = "cache.max_entries"
          /\ BuildOrder[9] = "cache.ttl_seconds"
      BY DEF BuildOrder
    <2> QED BY <2>1 DEF Leaves, Flags, Numbers, Nullable, Counts, Texts, Lists
  <1> QED BY <1>3, <1>4 DEF Subscriptable

\* A text that was read as another kind than its key's is not acceptable, but
\* for the empty one, which may unset a number that may be unset.
LEMMA AcceptableReadings ==
    ASSUME NEW k \in Leaves, NEW raw, NEW v \in Readings(raw), Acceptable(k, v)
    PROVE  /\ k \in Numbers \cup Nullable => ToFloat(v) = ToFloat(Meant(k, raw))
           /\ k \notin Numbers \cup Nullable => v = Meant(k, raw)
           /\ v = None <=> Meant(k, raw) = None
  <1>1. /\ \A x : Whole(x).type = "int" /\ Float(x).type = "float"
        /\ \A x : Text(x).type = "text" /\ List(x).type = "list" /\ Bool(x).type = "bool"
        /\ NaN.type = "nan" /\ None.type = "none" /\ Invalid.type = "invalid"
    BY DEF Whole, Float, Text, List, Bool, NaN, None, Invalid
  <1>2. \/ v = AsBool(raw) /\ v.type = "bool"
        \/ v = AsInt(raw) /\ v.type = "int"
        \/ v = AsFloat(raw) /\ v.type \in {"float", "nan"}
        \/ v = AsList(raw) /\ v.type = "list"
        \/ v = AsText(raw) /\ v.type \in {"none", "text"}
    BY <1>1 DEF Readings, AsBool, AsInt, AsFloat, AsList, AsText
  <1>3. CASE k \in Flags
    <2>1. v.type = "bool" BY <1>3, KindFacts DEF Acceptable
    <2>2. v = AsBool(raw) BY <2>1, <1>2
    <2>3. Meant(k, raw) = AsBool(raw) BY <1>3, KindFacts DEF Meant
    <2> QED BY <2>1, <2>2, <2>3, <1>1, <1>3, KindFacts
  <1>4. CASE k \in Numbers \cup Nullable
    <2>1. v.type \in {"int", "float", "nan"} \/ (k \in Nullable /\ v = None)
      BY <1>4, KindFacts DEF Acceptable, PositiveNumber
    <2>2. CASE v = None
      <3>1. k \in Nullable BY <2>1, <2>2, <1>1
      <3>2. v = AsText(raw) BY <2>2, <1>1, <1>2
      <3>3. raw = "" BY <3>2, <2>2, <1>1 DEF AsText
      <3>4. Meant(k, raw) = None BY <3>1, <3>3, KindFacts DEF Meant
      <3> QED BY <3>4, <2>2, <1>4
    <2>3. CASE v # None
      <3>1. v.type \in {"int", "float", "nan"} BY <2>1, <2>3
      <3>2. v = AsInt(raw) \/ v = AsFloat(raw) BY <3>1, <1>2
      <3>3. raw # ""
        <4>1. AsInt("") = Invalid /\ AsFloat("") = Invalid BY DEF AsInt, AsFloat
        <4> QED BY <4>1, <3>1, <3>2, <1>1
      <3>4. Meant(k, raw) = AsFloat(raw) BY <3>3, <1>4, KindFacts DEF Meant
      <3>5. ToFloat(v) = ToFloat(AsFloat(raw)) /\ AsFloat(raw) # None
        <4>1. CASE v = AsFloat(raw) BY <4>1, <2>3
        <4>2. CASE v = AsInt(raw) /\ v # AsFloat(raw)
          <5>1. \/ raw = "1" /\ v = Whole(1) /\ AsFloat(raw) = Float(1)
                \/ raw = "0" /\ v = Whole(0) /\ AsFloat(raw) = Float(0)
            <6>1. raw = "1" \/ raw = "0" BY <4>2, <3>1, <1>1 DEF AsInt
            <6> QED BY <6>1, <4>2 DEF AsInt, AsFloat
          <5>2. \A x : ToFloat(Whole(x)) = Float(x) /\ ToFloat(Float(x)) = Float(x)
            BY DEF ToFloat, Whole, Float
          <5> QED BY <5>1, <5>2, <1>1
        <4> QED BY <4>1, <4>2, <3>2
      <3> QED BY <3>4, <3>5, <2>3, <1>4
    <2> QED BY <2>2, <2>3
  <1>5. CASE k \in Counts
    <2>1. v.type = "int" BY <1>5, KindFacts DEF Acceptable, PositiveInt
    <2>2. v = AsInt(raw) BY <2>1, <1>2
    <2>3. Meant(k, raw) = AsInt(raw) BY <1>5, KindFacts DEF Meant
    <2> QED BY <2>1, <2>2, <2>3, <1>1, <1>5, KindFacts
  <1>6. CASE k \in Texts
    <2>1. v.type \in {"none", "text"} BY <1>6, KindFacts DEF Acceptable
    <2>2. v = AsText(raw) BY <2>1, <1>2
    <2>3. Meant(k, raw) = AsText(raw) BY <1>6, KindFacts DEF Meant
    <2> QED BY <2>2, <2>3, <1>6, KindFacts
  <1>7. CASE k \in Lists
    <2>1. v.type = "list" BY <1>7, KindFacts DEF Acceptable
    <2>2. v = AsList(raw) BY <2>1, <1>2
    <2>3. Meant(k, raw) = AsList(raw) BY <1>7, KindFacts DEF Meant
    <2> QED BY <2>1, <2>2, <2>3, <1>1, <1>7, KindFacts
  <1> QED BY <1>3, <1>4, <1>5, <1>6, <1>7 DEF Leaves

\* What the last word on a key is, and what has become of it.
LEMMA Settled ==
    ASSUME ConfigInv, Merged, applied = Len(environ), NEW k \in Leaves, Acceptable(k, data[k])
    PROVE  /\ k \in Numbers \cup Nullable => ToFloat(data[k]) = ToFloat(LastWord(k))
           /\ k \notin Numbers \cup Nullable => data[k] = LastWord(k)
           /\ data[k] = None <=> LastWord(k) = None
  <1> DEFINE said == {i \in DOMAIN environ : environ[i].name = k}
  <1>1. DOMAIN environ = 1..applied BY EnvironFacts
  <1>2. LeafOK(k) BY DEF Merged
  <1>3. CASE ~Named(k) /\ data[k] = Written(k)
    <2>1. said = {} BY <1>1, <1>3 DEF Named
    <2>2. LastWord(k) = Written(k) BY <2>1 DEF LastWord, Written
    <2> QED BY <1>3, <2>2
  <1>4. ASSUME NEW i \in 1..applied, SaysLast(i, k), data[k] \in Readings(environ[i].raw)
        PROVE  /\ k \in Numbers \cup Nullable => ToFloat(data[k]) = ToFloat(LastWord(k))
               /\ k \notin Numbers \cup Nullable => data[k] = LastWord(k)
               /\ data[k] = None <=> LastWord(k) = None
    <2>1. i \in said /\ \A j \in said : j <= i BY <1>1, <1>4 DEF SaysLast
    <2>2. said \subseteq 1..applied BY <1>1
    <2> HIDE DEF said
    <2>3. \A m \in said : (\A j \in said : j <= m) => m = i
      <3> SUFFICES ASSUME NEW m \in said, \A j \in said : j <= m PROVE m = i OBVIOUS
      <3>1. m <= i /\ i <= m BY <2>1
      <3>2. m \in Int /\ i \in Int BY <2>2
      <3> QED BY <3>1, <3>2
    <2>4. (CHOOSE m \in said : \A j \in said : j <= m) = i BY <2>1, <2>3
    <2>5. LastWord(k) = Meant(k, environ[i].raw)
      <3>1. said # {} BY <2>1
      <3> QED BY <2>4, <3>1 DEF LastWord, said
    <2> QED BY <1>4, <2>5, AcceptableReadings
  <1> QED BY <1>2, <1>3, <1>4 DEF LeafOK

\* A configuration is built of what was settled.
LEMMA BuildInv ==
    ASSUME ConfigInv, Build
    PROVE  ConfigInv'
  <1>1. /\ phase = "environment" /\ applied = Len(environ)
        /\ UNCHANGED <<defaults, shared, file, environ, applied, data>>
    BY DEF Build
  <1>2. Merged BY <1>1 DEF ConfigInv
  <1>3. CASE FirstProblem # 0
    <2>1. phase' \in {"rejected", "raised"} /\ config' = config BY <1>3 DEF Build
    <2>2. config = NoConfig BY <1>1 DEF ConfigInv
    <2> QED BY <1>1, <2>1, <2>2 DEF ConfigInv, ConfigIsWhatWasSet, NoTypoSurvives
  <1>4. CASE FirstProblem = 0
    <2>1. phase' = "accepted" /\ config' = Built(data) BY <1>4 DEF Build
    <2>2. \A k \in Leaves : data[SectionOf(k)] = Map /\ Acceptable(k, data[k])
      BY <1>4, EveryLeafIsLookedAt
    <2>3. \A k \in Leaves : LastWord(k)' = LastWord(k) BY <1>1 DEF LastWord
    <2>4. \A k \in Leaves :
            /\ k \in Numbers \cup Nullable => ToFloat(data[k]) = ToFloat(LastWord(k))
            /\ k \notin Numbers \cup Nullable => data[k] = LastWord(k)
            /\ data[k] = None <=> LastWord(k) = None
      BY <1>1, <1>2, <2>2, Settled
    <2>5. /\ "http.timeout" \in Leaves /\ "http.timeout" \in Numbers
          /\ "denylist.path" \in Leaves /\ "denylist.path" \notin Numbers \cup Nullable
          /\ "checks.denylist.enabled" \in Flags
          /\ "cache.max_entries" \in Counts /\ "cache.max_entries" \in Leaves
          /\ "cache.ttl_seconds" \in Numbers /\ "cache.ttl_seconds" \in Leaves
      BY DEF Leaves, Flags, Numbers, Nullable, Counts, Texts, Lists
    <2>6. ASSUME NEW k \in Leaves
          PROVE  config'[k] =
                   CASE k \in Nullable /\ LastWord(k) = None -> ToFloat(LastWord("http.timeout"))
                     [] k = "checks.denylist.enabled" /\ LastWord("denylist.path") = None -> Bool(FALSE)
                     [] OTHER -> IF k \in Numbers \cup Nullable THEN ToFloat(LastWord(k)) ELSE LastWord(k)
      <3>1. config'[k] =
              CASE k \in Numbers -> ToFloat(data[k])
                [] k \in Nullable -> ToFloat(IF data[k] = None THEN data["http.timeout"] ELSE data[k])
                [] k = "checks.denylist.enabled" -> DenylistEnabled(data)
                [] OTHER -> data[k]
        BY <2>1 DEF Built
      <3>2. CASE k \in Numbers
        <4>1. config'[k] = ToFloat(data[k]) BY <3>1, <3>2, <2>5, KindFacts
        <4> QED BY <4>1, <3>2, <2>4, <2>5, KindFacts
      <3>3. CASE k \in Nullable
        <4>1. config'[k] = ToFloat(IF data[k] = None THEN data["http.timeout"] ELSE data[k])
          BY <3>1, <3>3, <2>5, KindFacts
        <4> QED BY <4>1, <3>3, <2>4, <2>5, KindFacts
      <3>4. CASE k = "checks.denylist.enabled"
        <4>1. config'[k] = DenylistEnabled(data) BY <3>1, <3>4, <2>5, KindFacts
        <4>2. k \notin Numbers \cup Nullable BY <3>4, <2>5, KindFacts
        <4> QED BY <4>1, <4>2, <3>4, <2>4, <2>5 DEF DenylistEnabled
      <3>5. CASE k \notin Numbers \cup Nullable /\ k # "checks.denylist.enabled"
        BY <3>1, <3>5, <2>4
      <3> QED BY <3>2, <3>3, <3>4, <3>5
    <2>7. ConfigIsWhatWasSet' BY <2>3, <2>5, <2>6 DEF ConfigIsWhatWasSet
    <2>8. NoTypoSurvives'
      <3>1. DOMAIN file.sets \subseteq Keys BY <1>2, KeyFacts DEF Merged, Mergeable
      <3>2. ASSUME NEW i \in DOMAIN environ
            PROVE  environ[i].name \in Leaves \/ Foreign(environ[i].name)
        <4>1. i \in 1..applied BY <1>1, EnvironFacts
        <4>2. environ[i].name \in Keys \/ Foreign(environ[i].name) BY <4>1, <1>2 DEF Merged
        <4>3. ASSUME environ[i].name \in Sections PROVE FALSE
          <5>1. data[environ[i].name] # Map BY <4>1, <4>3, <1>2 DEF Merged, SectionOK, Named
          <5>2. \E k \in Leaves : SectionOf(k) = environ[i].name BY <4>3, EverySectionHasALeaf
          <5> QED BY <5>1, <5>2, <2>2
        <4> QED BY <4>2, <4>3, KeyFacts
      <3> QED BY <1>1, <3>1, <3>2 DEF NoTypoSurvives
    <2>9. Usable'
      <3>1. config'["cache.max_entries"] = data["cache.max_entries"]
        BY <2>1, <2>5, KindFacts DEF Built
      <3>2. data["cache.max_entries"].n \in Nat \ {0}
        <4>1. PositiveInt(data["cache.max_entries"]) BY <2>2, <2>5, KindFacts DEF Acceptable
        <4>2. data["cache.max_entries"] \in Value BY <1>2, <2>5, KeyFacts DEF Merged
        <4> QED BY <4>1, <4>2, ValueFacts DEF PositiveInt, AtMostZero
      <3>3. config'["cache.ttl_seconds"] = ToFloat(data["cache.ttl_seconds"])
        BY <2>1, <2>5, KindFacts DEF Built
      <3>4. ToFloat(data["cache.ttl_seconds"]).n \in Nat
        <4>1. PositiveNumber(data["cache.ttl_seconds"]) BY <2>2, <2>5, KindFacts DEF Acceptable
        <4>2. data["cache.ttl_seconds"] \in Value BY <1>2, <2>5, KeyFacts DEF Merged
        <4>3. data["cache.ttl_seconds"].n \in Nat
          BY <4>1, <4>2, ValueFacts DEF PositiveNumber, AtMostZero
        <4> QED BY <4>3 DEF ToFloat, Float
      <3>5. /\ config'["denylist.path"] = data["denylist.path"]
            /\ config'["checks.denylist.enabled"] = DenylistEnabled(data)
        BY <2>1, <2>5, KindFacts DEF Built, Leaves
      <3> QED BY <3>1, <3>2, <3>3, <3>4, <3>5 DEF Usable, DenylistEnabled
    <2> QED BY <1>1, <2>1, <2>7, <2>8, <2>9 DEF ConfigInv
  <1> QED BY <1>3, <1>4

LEMMA OpenInv == ConfigInv /\ Open => ConfigInv'
  BY DEF Open, ConfigInv, ConfigIsWhatWasSet, NoTypoSurvives

-----------------------------------------------------------------------------
(* A process, from its start. *)

\* While the application is wired, it is for the configuration it has.
WiredOK == wired # Nobody => phase = "accepted" /\ wired = {b \in Backends : Wires(b)}

\* Nothing is in the cache before the application serves, and what it is made
\* with are settings.
StartupInv ==
    /\ ConfigInv
    /\ WiredOK
    /\ phase # "serving" => settings \in Settings /\ CacheInit
    /\ phase = "serving" => CacheInv

LEMMA InitInv == Init => StartupInv
  <1> SUFFICES ASSUME Init PROVE StartupInv OBVIOUS
  <1>1. settings \in Settings BY DEF Init, NoCache, Settings
  <1>2. phase = "idle" BY DEF Init, ConfigInit
  <1> QED BY <1>1, <1>2, ConfigInitInv DEF Init, StartupInv, WiredOK

\* The application is wired and listens outside the loading of its settings.
LEMMA LoadStep ==
    ASSUME ConfigInv, LoadConfig \/ Forgotten
    PROVE  ConfigInv' /\ phase # "serving" /\ phase' # "serving"
  <1>1. ConfigInv'
    <2>1. CASE Forgotten BY <2>1, DroppedInv DEF Forgotten
    <2> QED BY <2>1, OpenInv, MergeInv, ApplyInv, BuildInv DEF LoadConfig
  <1>2. phase # "serving" /\ phase' # "serving"
    <2>1. CASE Open BY <2>1 DEF Open
    <2>2. CASE Merge BY <2>2 DEF Merge
    <2>3. CASE ApplyVariable BY <2>3 DEF ApplyVariable
    <2>4. CASE Build BY <2>4 DEF Build
    <2>5. CASE Forgotten BY <2>5 DEF Forgotten, LoadEnded
    <2> QED BY <2>1, <2>2, <2>3, <2>4, <2>5 DEF LoadConfig
  <1> QED BY <1>1, <1>2

\* A validated configuration makes settings the cache can live with.
LEMMA CacheSettingsFacts ==
    ASSUME ConfigInv, phase = "accepted"
    PROVE  CacheSettings \in Settings
  BY DEF ConfigInv, Usable, CacheSettings, Settings

LEMMA ConfigStutter == ConfigInv /\ UNCHANGED configVars => ConfigInv'
  <1> SUFFICES ASSUME ConfigInv, UNCHANGED configVars PROVE ConfigInv' OBVIOUS
  <1>1. UNCHANGED <<defaults, shared, phase, file, environ, applied, data, config>>
    BY DEF configVars
  <1>2. \A k : LastWord(k)' = LastWord(k) /\ Written(k)' = Written(k) /\ (Named(k)' <=> Named(k))
    BY <1>1 DEF LastWord, Written, Named
  <1>3. \A i, k : SaysLast(i, k)' <=> SaysLast(i, k) BY <1>1 DEF SaysLast
  <1>4. ASSUME Merged PROVE Merged'
    <2>1. \A k \in Leaves : LeafOK(k)' BY <1>1, <1>2, <1>3, <1>4 DEF Merged, LeafOK
    <2>2. \A s \in Sections : SectionOK(s)' BY <1>1, <1>2, <1>4 DEF Merged, SectionOK
    <2> QED BY <1>1, <1>4, <2>1, <2>2 DEF Merged
  <1>5. Usable => Usable' BY <1>1 DEF Usable
  <1>6. ConfigIsWhatWasSet' /\ NoTypoSurvives'
    BY <1>1, <1>2 DEF ConfigInv, ConfigIsWhatWasSet, NoTypoSurvives
  <1> QED BY <1>1, <1>4, <1>5, <1>6 DEF ConfigInv

LEMMA StartupStep == StartupInv /\ [Next]_vars => StartupInv'
  <1> SUFFICES ASSUME StartupInv, [Next]_vars PROVE StartupInv' OBVIOUS
  <1>1. ConfigInv /\ WiredOK BY DEF StartupInv
  <1>2. CASE LoadFirst
    <2>1. /\ ConfigInv' /\ phase # "serving" /\ phase' # "serving"
          /\ wired = Nobody /\ wired' = Nobody /\ UNCHANGED cacheVars
      BY <1>1, <1>2, LoadStep DEF LoadFirst
    <2>2. settings' \in Settings /\ CacheInit'
      BY <2>1 DEF StartupInv, CacheInit, cacheVars, callVars, observers
    <2> QED BY <2>1, <2>2 DEF StartupInv, WiredOK
  <1>3. CASE Wire
    <2>1. /\ phase = "accepted" /\ wired' = {b \in Backends : Wires(b)}
          /\ settings' = CacheSettings
          /\ UNCHANGED <<configVars, clock, entries, order, callVars, observers>>
      BY <1>3 DEF Wire
    <2>2. ConfigInv' BY <1>1, <2>1, ConfigStutter
    <2>3. WiredOK' BY <2>1 DEF WiredOK, Wires, configVars
    <2>4. settings' \in Settings BY <1>1, <2>1, CacheSettingsFacts
    <2>5. CacheInit' BY <2>1 DEF StartupInv, CacheInit, callVars, observers
    <2>6. phase' = "accepted" BY <2>1 DEF configVars
    <2> QED BY <2>2, <2>3, <2>4, <2>5, <2>6 DEF StartupInv
  <1>4. CASE Listen
    <2>1. /\ phase = "accepted" /\ phase' = "serving" /\ wired' = Nobody
          /\ Dropped /\ UNCHANGED <<defaults, cacheVars>>
      BY <1>4 DEF Listen
    <2>2. ConfigInv' BY <1>1, <2>1, DroppedInv
    <2>3. CacheInv BY <2>1, CacheInitInv DEF StartupInv
    <2>4. CacheInv' BY <2>1, <2>3, CacheStepInv
    <2> QED BY <2>1, <2>2, <2>4 DEF StartupInv, WiredOK
  <1>5. CASE Use
    <2>1. phase = "serving" /\ Serve /\ UNCHANGED <<configVars, wired>> BY <1>5 DEF Use
    <2>2. phase' = "serving" /\ ConfigInv' BY <1>1, <2>1, ConfigStutter DEF configVars
    <2>3. CacheInv' BY <2>1, CacheStepInv DEF StartupInv
    <2>4. WiredOK' BY <1>1, <2>1 DEF WiredOK
    <2> QED BY <2>2, <2>3, <2>4 DEF StartupInv
  <1>6. CASE UNCHANGED vars
    <2>1. UNCHANGED configVars /\ UNCHANGED <<phase, wired, config>> /\ UNCHANGED cacheVars
      BY <1>6 DEF vars, configVars
    <2>2. ConfigInv' BY <1>1, <2>1, ConfigStutter
    <2>3. WiredOK' BY <1>1, <2>1 DEF WiredOK, Wires
    <2>4. CASE phase = "serving"
      <3>1. CacheInv' BY <2>1, <2>4, CacheStepInv DEF StartupInv
      <3> QED BY <2>1, <2>2, <2>3, <2>4, <3>1 DEF StartupInv
    <2>5. CASE phase # "serving"
      <3>1. settings' \in Settings /\ CacheInit'
        BY <2>1, <2>5 DEF StartupInv, CacheInit, cacheVars, callVars, observers
      <3> QED BY <2>1, <2>2, <2>3, <2>5, <3>1 DEF StartupInv
    <2> QED BY <2>4, <2>5
  <1> QED BY <1>2, <1>3, <1>4, <1>5, <1>6 DEF Next

THEOREM StartupInvariance == Spec => []StartupInv
  BY InitInv, StartupStep, PTL DEF Spec

\* An accepted configuration is what the file and the environment say, for any
\* number of keys named any number of times, and whatever was loaded before.
THEOREM SaysWhatWasSet == Spec => []ConfigIsWhatWasSet
  BY StartupInvariance, PTL DEF StartupInv, ConfigInv

\* No unknown name, in the file or the environment, gets past the validation.
THEOREM TyposEndTheLoad == Spec => []NoTypoSurvives
  BY StartupInvariance, PTL DEF StartupInv, ConfigInv

\* What is reported enabled has a checker, and the other way round.
THEOREM EnabledMeansWired == Spec => []ReportedIsWired
  <1>1. StartupInv => ReportedIsWired
    <2> SUFFICES ASSUME StartupInv, wired # Nobody, NEW b \in Backends
                 PROVE  b \in wired <=> config[EnabledKey(b)] = Bool(TRUE)
      BY DEF ReportedIsWired
    <2>1. b \in wired <=> Wires(b) BY DEF StartupInv, WiredOK
    <2>2. Usable BY DEF StartupInv, WiredOK, ConfigInv
    <2>3. Bool(FALSE) # Bool(TRUE)
      <3>1. Bool(FALSE) = [type |-> "bool", n |-> 0] /\ Bool(TRUE) = [type |-> "bool", n |-> 1]
        BY DEF Bool
      <3>2. [type |-> "bool", n |-> 0] # [type |-> "bool", n |-> 1] OBVIOUS
      <3> QED BY <3>1, <3>2, Zenon
    <2>4. b = "denylist" => EnabledKey(b) = "checks.denylist.enabled" BY DEF EnabledKey
    <2> QED BY <2>1, <2>2, <2>3, <2>4 DEF Wires, Usable
  <1> QED BY StartupInvariance, <1>1, PTL

\* While nobody serves no call is made, and what a step does to the cache is
\* to give it its settings.
LEMMA ServesOrIsMade ==
    ASSUME StartupInv, [Next]_vars
    PROVE  \/ CacheInv /\ [Serve]_cacheVars
           \/ /\ CacheInit
              /\ UNCHANGED <<clock, entries, order, callVars, observers>>
  <1>1. CASE LoadFirst BY <1>1, LoadStep DEF LoadFirst, StartupInv, cacheVars
  <1>2. CASE Wire BY <1>2 DEF Wire, StartupInv
  <1>3. CASE Listen BY <1>3 DEF Listen, StartupInv, cacheVars
  <1>4. CASE Use BY <1>4 DEF Use, StartupInv
  <1>5. CASE UNCHANGED vars
    <2>1. UNCHANGED cacheVars BY <1>5 DEF vars
    <2> QED BY <2>1, CacheInitInv DEF StartupInv
  <1> QED BY <1>1, <1>2, <1>3, <1>4, <1>5 DEF Next

LEMMA NoCallYet ==
    ASSUME CacheInit, UNCHANGED <<clock, entries, order, callVars, observers>>
    PROVE  FindsInTime /\ MissesInTime /\ UNCHANGED Ideal!vars
  <1>1. \A t \in Threads : op[t] = NoCall BY DEF CacheInit
  <1>2. UNCHANGED <<entries, op, answer>> BY DEF callVars
  <1> QED BY <1>1, <1>2 DEF FindsInTime, MissesInTime, Ideal!vars

\* A cache with the settings of any accepted configuration serves nothing that
\* is older than its TTL, a NaN aside.
THEOREM ConfiguredNeverStale == Spec => ServedInTime
  <1>1. StartupInv /\ [Next]_vars => [FindsInTime]_cacheVars
    BY ServesOrIsMade, NoCallYet, StepInTime
  <1> QED BY StartupInvariance, <1>1, PTL DEF Spec, ServedInTime

\* ... and makes room for max_entries others before it loses a live one.
THEOREM ConfiguredNeverLostEarly == Spec => KeptWhileUseful
  <1>1. StartupInv /\ [Next]_vars => [MissesInTime]_cacheVars
    BY ServesOrIsMade, NoCallYet, StepUseful
  <1> QED BY StartupInvariance, <1>1, PTL DEF Spec, KeptWhileUseful

\* ... and is, from the start of the process, the cache the fan-out and the
\* routes take it for.
THEOREM ConfiguredRefinement == Spec => ImplementsRangeCache
  <1>1. Init => Ideal!Init BY IdealInit DEF Init
  <1>2. StartupInv /\ [Next]_vars => [Ideal!Next]_Ideal!vars
    BY ServesOrIsMade, NoCallYet, IdealStep
  <1> QED BY StartupInvariance, <1>1, <1>2, PTL DEF Spec, ImplementsRangeCache, Ideal!Spec
=============================================================================
