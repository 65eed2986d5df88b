------------------------- MODULE HealthRecordsProofs ------------------------
(***************************************************************************)
(* What the service reports of its backends (HealthRecords), proved for    *)
(* any number of workers, threads, backends, outcomes and faults.          *)
(*                                                                         *)
(* A row is honest if its dates are those of outcomes that happened.  The  *)
(* invariant is that every row there is, in a store, on its way through    *)
(* record_backend or in a scrape, is honest: rows are only made of the     *)
(* outcome a thread records and of rows that were honest when read, and    *)
(* what has happened stays so.                                             *)
(*                                                                         *)
(* The counters are bounded by what is left to count: the file and the     *)
(* store of a process have counted, between them, at most the outcomes     *)
(* that no thread has yet to count.                                        *)
(***************************************************************************)
EXTENDS HealthRecords, FiniteSetTheorems, TLAPS

\* A thread between two operations records an outcome that happened.
Recording ==
    \A t \in Threads :
        pc[t] # "idle" => of[t] \in DOMAIN outcomes /\ HonestRow(Name(t), seen[t])

IdleSeesNothing == \A t \in Threads : pc[t] = "idle" => seen[t] = NoRow

HonestStores == \A s \in Stores, n \in Names : HonestRow(n, store[s].health[n])

HonestViews == \A w \in Workers, n \in Names : HonestRow(n, view[w].health[n])

Inv == TypeOK /\ Recording /\ IdleSeesNothing /\ HonestStores /\ HonestViews

-----------------------------------------------------------------------------
(* Facts about the data. *)

LEMMA NoRowType == NoRow \in Row
  BY DEF NoRow, Row, None

LEMMA NothingIsHonest == \A n : HonestRow(n, NoRow)
  BY DEF HonestRow, NoRow

LEMMA EmptyFacts == Empty \in Contents /\ \A n \in Names : Empty.health[n] = NoRow
  BY DEF Empty, Contents, Row, NoRow, None

\* Of the outcomes so far, there are finitely many of each kind.
LEMMA RanksFinite ==
    ASSUME outcomes \in Seq(Outcome), NEW n, NEW R
    PROVE  /\ Ranks(n, R) \subseteq Nat \ {0}
           /\ Cardinality(Ranks(n, R)) \in Nat
  <1>1. Len(outcomes) \in Nat /\ DOMAIN outcomes = 1..Len(outcomes) OBVIOUS
  <1>2. Ranks(n, R) \subseteq 1..Len(outcomes) BY <1>1 DEF Ranks
  <1>3. IsFiniteSet(1..Len(outcomes)) BY <1>1, FS_Interval
  <1>4. IsFiniteSet(Ranks(n, R)) BY <1>2, <1>3, FS_Subset
  <1> QED BY <1>1, <1>2, <1>4, FS_CardinalityType

LEMMA LatestIsOne == \A ranks : Latest(ranks) = None \/ Latest(ranks) \in ranks
  <1> SUFFICES ASSUME NEW ranks PROVE Latest(ranks) = None \/ Latest(ranks) \in ranks
    OBVIOUS
  <1> DEFINE last == {i \in ranks : \A j \in ranks : j <= i}
  <1>1. CASE last = {} BY <1>1 DEF Latest
  <1>2. CASE last # {}
    <2>1. Latest(ranks) = CHOOSE i \in last : TRUE BY <1>2 DEF Latest
    <2>2. (CHOOSE i \in last : TRUE) \in last BY <1>2
    <2> QED BY <2>1, <2>2
  <1> QED BY <1>1, <1>2

LEMMA TrueFacts ==
    ASSUME outcomes \in Seq(Outcome)
    PROVE  /\ TrueContents \in Contents
           /\ \A n \in Names : HonestRow(n, TrueContents.health[n])
  <1>1. \A n \in Names : TrueRow(n) \in Row /\ HonestRow(n, TrueRow(n))
    <2> SUFFICES ASSUME NEW n \in Names PROVE TrueRow(n) \in Row /\ HonestRow(n, TrueRow(n))
      OBVIOUS
    <2>1. Latest(Ranks(n, {TRUE})) = None \/ Latest(Ranks(n, {TRUE})) \in Ranks(n, {TRUE})
      BY LatestIsOne
    <2>2. Ranks(n, {TRUE}) \subseteq Nat /\ Ranks(n, {FALSE}) \subseteq Nat BY RanksFinite
    <2> DEFINE ok == Latest(Ranks(n, {TRUE}))
               last == Latest(Ranks(n, BOOLEAN))
               error == IF last \in Ranks(n, {FALSE}) THEN last ELSE None
    <2>3. TrueRow(n) = [last_ok |-> ok, last_error |-> error] BY DEF TrueRow
    <2>4. ok \in Nat /\ error \in Nat BY <2>1, <2>2 DEF None
    <2>5. ok # None => ok \in Ranks(n, {TRUE}) BY <2>1
    <2>6. error # None => error \in Ranks(n, {FALSE}) OBVIOUS
    <2> HIDE DEF ok, error
    <2> QED BY <2>3, <2>4, <2>5, <2>6 DEF Row, HonestRow
  <1>2. \A n \in Names : Cardinality(Ranks(n, BOOLEAN)) \in Nat /\ Cardinality(Ranks(n, {FALSE})) \in Nat
    BY RanksFinite
  <1> QED BY <1>1, <1>2 DEF TrueContents, Contents

\* What has happened stays so.
LEMMA HonestStays ==
    ASSUME outcomes \in Seq(Outcome), NEW o \in Outcome, outcomes' = Append(outcomes, o),
           NEW n, NEW row, HonestRow(n, row)
    PROVE  HonestRow(n, row)'
  <1>1. \A R : Ranks(n, R) \subseteq Ranks(n, R)'
    BY DEF Ranks
  <1> QED BY <1>1 DEF HonestRow

\* A merge makes no row.
LEMMA MergedHonest ==
    ASSUME NEW a \in Contents, NEW b \in Contents
    PROVE  /\ Merged(a, b) \in Contents
           /\ \A n \in Names : Merged(a, b).health[n] \in {a.health[n], b.health[n]}
  BY DEF Merged, MergedRow, Plus, Contents

-----------------------------------------------------------------------------
LEMMA InitInv == Init => Inv
  <1> SUFFICES ASSUME Init PROVE Inv OBVIOUS
  <1>1. outcomes \in Seq(Outcome) BY NameAssumption DEF Init
  <1>2. TypeOK
    <2>1. NoRow \in Row BY DEF NoRow, Row, None
    <2>2. store \in [Stores -> Contents] BY <1>1, TrueFacts, EmptyFacts DEF Init
    <2>3. faults \in 0..MaxFaults BY BoundAssumption DEF Init
    <2>4. /\ pc \in [Threads -> RecordPlaces]
          /\ of \in [Threads -> Nat]
          /\ scrape \in [Workers -> ScrapePlaces]
      BY DEF Init, RecordPlaces, ScrapePlaces, None
    <2>5. seen \in [Threads -> Row] BY <2>1 DEF Init
    <2>6. view \in [Workers -> Contents] /\ floor \in [Workers -> Contents]
      BY EmptyFacts DEF Init
    <2>7. disturbed \in BOOLEAN /\ quiet \in [Workers -> BOOLEAN] BY DEF Init
    <2> QED BY <1>1, <2>2, <2>3, <2>4, <2>5, <2>6, <2>7 DEF TypeOK
  <1>3. Recording BY DEF Init, Recording
  <1>4. HonestStores BY <1>1, TrueFacts, EmptyFacts, NothingIsHonest DEF Init, HonestStores
  <1>5. HonestViews BY EmptyFacts, NothingIsHonest DEF Init, HonestViews
  <1>6. IdleSeesNothing BY DEF Init, IdleSeesNothing
  <1> QED BY <1>2, <1>3, <1>4, <1>5, <1>6 DEF Inv

-----------------------------------------------------------------------------
(* Types. *)

LEMMA ThreadFacts ==
    ASSUME TypeOK, Recording, NEW t \in Threads, pc[t] # "idle"
    PROVE  /\ of[t] \in Nat \ {0}
           /\ of[t] \in DOMAIN outcomes
           /\ outcomes[of[t]] \in Outcome
           /\ Name(t) \in Names
           /\ Ok(t) \in BOOLEAN
           /\ WorkerOf[t] \in Stores
  <1>1. of[t] \in DOMAIN outcomes BY DEF Recording
  <1>2. outcomes \in Seq(Outcome) BY DEF TypeOK
  <1>3. of[t] \in 1..Len(outcomes) BY <1>1, <1>2
  <1>4. outcomes[of[t]] \in Outcome BY <1>2, <1>3
  <1> QED BY <1>1, <1>2, <1>3, <1>4, WorkerAssumption DEF Outcome, Name, Ok, Stores

LEMMA NewRowFacts ==
    ASSUME TypeOK, Recording, NEW t \in Threads, pc[t] # "idle"
    PROVE  NewRow(t) \in Row /\ HonestRow(Name(t), NewRow(t))
  <1>1. of[t] \in Nat /\ of[t] \in DOMAIN outcomes /\ Ok(t) \in BOOLEAN BY ThreadFacts
  <1>2. seen[t] \in Row /\ HonestRow(Name(t), seen[t]) BY DEF TypeOK, Recording
  <1>3. CASE Ok(t)
    <2>1. of[t] \in Ranks(Name(t), {TRUE}) BY <1>1, <1>3 DEF Ranks, Name, Ok
    <2> QED BY <1>1, <1>3, <2>1 DEF NewRow, Row, HonestRow, None
  <1>4. CASE ~Ok(t)
    <2>1. of[t] \in Ranks(Name(t), {FALSE}) BY <1>1, <1>4 DEF Ranks, Name, Ok
    <2> QED BY <1>1, <1>2, <1>4, <2>1 DEF NewRow, Row, HonestRow
  <1> QED BY <1>3, <1>4

\* The store after one more count, or with another row, is still a store.
LEMMA StoreFacts ==
    ASSUME TypeOK, NEW s \in Stores, NEW n \in Names, NEW row \in Row
    PROVE  /\ [store EXCEPT ![s].requests[n] = @ + 1] \in [Stores -> Contents]
           /\ [store EXCEPT ![s].errors[n] = @ + 1] \in [Stores -> Contents]
           /\ [store EXCEPT ![s].observed[n] = @ + 1] \in [Stores -> Contents]
           /\ [store EXCEPT ![s].health[n] = row] \in [Stores -> Contents]
  <1> DEFINE c == store[s]
  <1>1. c \in Contents BY DEF TypeOK
  <1>2. /\ c.requests \in [Names -> Nat] /\ c.errors \in [Names -> Nat]
        /\ c.observed \in [Names -> Nat] /\ c.health \in [Names -> Row]
    BY <1>1 DEF Contents
  <1> HIDE DEF c
  <1>3. \A f \in [Names -> Nat] : [f EXCEPT ![n] = f[n] + 1] \in [Names -> Nat]
    <2> SUFFICES ASSUME NEW f \in [Names -> Nat] PROVE [f EXCEPT ![n] = f[n] + 1] \in [Names -> Nat]
      OBVIOUS
    <2>1. f[n] + 1 \in Nat OBVIOUS
    <2> QED BY <2>1
  <1>4. /\ \A f \in [Names -> Nat] : [c EXCEPT !.requests = f] \in Contents
        /\ \A f \in [Names -> Nat] : [c EXCEPT !.errors = f] \in Contents
        /\ \A f \in [Names -> Nat] : [c EXCEPT !.observed = f] \in Contents
        /\ \A f \in [Names -> Row] : [c EXCEPT !.health = f] \in Contents
    BY <1>1 DEF Contents
  <1>5. [c.health EXCEPT ![n] = row] \in [Names -> Row] BY <1>2
  <1>6. /\ [c EXCEPT !.requests = [c.requests EXCEPT ![n] = c.requests[n] + 1]] \in Contents
        /\ [c EXCEPT !.errors = [c.errors EXCEPT ![n] = c.errors[n] + 1]] \in Contents
        /\ [c EXCEPT !.observed = [c.observed EXCEPT ![n] = c.observed[n] + 1]] \in Contents
        /\ [c EXCEPT !.health = [c.health EXCEPT ![n] = row]] \in Contents
    BY <1>2, <1>3, <1>4, <1>5
  <1>7. \A d \in Contents : [store EXCEPT ![s] = d] \in [Stores -> Contents] BY DEF TypeOK
  <1> QED BY <1>6, <1>7, Zenon DEF c

LEMMA FaultType == faults \in 0..MaxFaults /\ Fault => faults' \in 0..MaxFaults
  BY BoundAssumption DEF Fault

LEMMA TakesType ==
    ASSUME TypeOK, NEW t \in Threads, NEW s \in Stores, Takes(t, s)
    PROVE  faults' \in 0..MaxFaults
  BY FaultType DEF Takes, TypeOK

LEMMA StepType == TypeOK /\ Recording /\ [Next]_vars => TypeOK'
  <1> SUFFICES ASSUME TypeOK, Recording, [Next]_vars PROVE TypeOK' OBVIOUS
  <1> USE DEF observers
  <1>1. ASSUME NEW t \in Threads, Begin(t) PROVE TypeOK'
    <2>1. outcomes' \in Seq(Outcome)
      <3>1. PICK n \in Judged, ok \in BOOLEAN : outcomes' = Append(outcomes, [name |-> n, ok |-> ok])
        BY <1>1 DEF Begin
      <3>2. [name |-> n, ok |-> ok] \in Outcome BY NameAssumption DEF Outcome
      <3> QED BY <3>1, <3>2 DEF TypeOK
    <2>2. of' \in [Threads -> Nat] BY <1>1 DEF Begin, TypeOK
    <2>3. pc' \in [Threads -> RecordPlaces] BY <1>1 DEF Begin, Goto, TypeOK, RecordPlaces
    <2>4. disturbed' \in BOOLEAN /\ quiet' \in [Workers -> BOOLEAN] BY <1>1 DEF Begin
    <2> QED BY <1>1, <2>1, <2>2, <2>3, <2>4 DEF Begin, TypeOK
  <1>2. ASSUME NEW t \in Threads, CountRequest(t) PROVE TypeOK'
    <2>1. PICK s \in Stores : Takes(t, s) /\ store' = [store EXCEPT ![s].requests[Name(t)] = @ + 1]
      BY <1>2 DEF CountRequest
    <2>2. Name(t) \in Names BY <1>2, ThreadFacts DEF CountRequest
    <2>3. store' \in [Stores -> Contents] BY <2>1, <2>2, StoreFacts, NoRowType
    <2>4. pc' \in [Threads -> RecordPlaces] BY <1>2 DEF CountRequest, Goto, TypeOK, RecordPlaces
    <2> QED BY <1>2, <2>1, <2>3, <2>4, TakesType DEF CountRequest, TypeOK
  <1>3. ASSUME NEW t \in Threads, CountError(t) PROVE TypeOK'
    <2>1. PICK s \in Stores : Takes(t, s) /\ store' = [store EXCEPT ![s].errors[Name(t)] = @ + 1]
      BY <1>3 DEF CountError
    <2>2. Name(t) \in Names BY <1>3, ThreadFacts DEF CountError
    <2>3. store' \in [Stores -> Contents] BY <2>1, <2>2, StoreFacts, NoRowType
    <2>4. pc' \in [Threads -> RecordPlaces] BY <1>3 DEF CountError, Goto, TypeOK, RecordPlaces
    <2> QED BY <1>3, <2>1, <2>3, <2>4, TakesType DEF CountError, TypeOK
  <1>4. ASSUME NEW t \in Threads, Observe(t) PROVE TypeOK'
    <2>1. PICK s \in Stores : Takes(t, s) /\ store' = [store EXCEPT ![s].observed[Name(t)] = @ + 1]
      BY <1>4 DEF Observe
    <2>2. Name(t) \in Names BY <1>4, ThreadFacts DEF Observe
    <2>3. store' \in [Stores -> Contents] BY <2>1, <2>2, StoreFacts, NoRowType
    <2>4. pc' \in [Threads -> RecordPlaces] BY <1>4 DEF Observe, Goto, TypeOK, RecordPlaces
    <2> QED BY <1>4, <2>1, <2>3, <2>4, TakesType DEF Observe, TypeOK
  <1>5. ASSUME NEW t \in Threads, ReadShared(t) PROVE TypeOK'
    <2>1. store[Shared].health[Name(t)] \in Row
      BY <1>5, ThreadFacts DEF ReadShared, TypeOK, Contents, Stores
    <2>2. seen' \in [Threads -> Row] BY <1>5, <2>1, NoRowType DEF ReadShared, TypeOK
    <2>3. pc' \in [Threads -> RecordPlaces] BY <1>5 DEF ReadShared, Goto, TypeOK, RecordPlaces
    <2>4. faults' \in 0..MaxFaults BY <1>5, FaultType DEF ReadShared, TypeOK
    <2>5. disturbed' \in BOOLEAN BY <1>5 DEF ReadShared, TypeOK
    <2> QED BY <1>5, <2>2, <2>3, <2>4, <2>5 DEF ReadShared, TypeOK
  <1>6. ASSUME NEW t \in Threads, ReadOwn(t) PROVE TypeOK'
    <2>1. store[WorkerOf[t]].health[Name(t)] \in Row
      BY <1>6, ThreadFacts DEF ReadOwn, TypeOK, Contents
    <2>2. seen' \in [Threads -> Row] BY <1>6, <2>1 DEF ReadOwn, TypeOK, MergedRow
    <2>3. pc' \in [Threads -> RecordPlaces] BY <1>6 DEF ReadOwn, Goto, TypeOK, RecordPlaces
    <2> QED BY <1>6, <2>2, <2>3 DEF ReadOwn, TypeOK
  <1>7. ASSUME NEW t \in Threads, SetHealth(t) PROVE TypeOK'
    <2>1. PICK s \in Stores :
             /\ Takes(t, s)
             /\ store' = [store EXCEPT ![s].health[Name(t)] = NewRow(t)]
             /\ disturbed' = (disturbed \/ s # Shared)
      BY <1>7 DEF SetHealth
    <2>2. Name(t) \in Names /\ NewRow(t) \in Row BY <1>7, ThreadFacts, NewRowFacts DEF SetHealth
    <2>3. store' \in [Stores -> Contents] BY <2>1, <2>2, StoreFacts
    <2>4. pc' \in [Threads -> RecordPlaces] BY <1>7 DEF SetHealth, Goto, TypeOK, RecordPlaces
    <2>5. of' \in [Threads -> Nat] BY <1>7 DEF SetHealth, TypeOK, None
    <2>6. seen' \in [Threads -> Row] BY <1>7, NoRowType DEF SetHealth, TypeOK
    <2>7. disturbed' \in BOOLEAN BY <2>1 DEF TypeOK
    <2> QED BY <1>7, <2>1, <2>3, <2>4, <2>5, <2>6, <2>7, TakesType DEF SetHealth, TypeOK
  <1>8. ASSUME NEW w \in Workers, Scrape(w) PROVE TypeOK'
    <2>1. store[Shared] \in Contents /\ store[w] \in Contents /\ view[w] \in Contents
      BY DEF TypeOK, Stores
    <2>2. Merged(store[Shared], store[w]) \in Contents /\ Merged(view[w], store[w]) \in Contents
      BY <2>1, MergedHonest
    <2>3. scrape' \in [Workers -> ScrapePlaces]
      BY <1>8 DEF Scrape, BeginScrape, SelectCounters, SelectLatency, SelectHealth,
                  SnapshotFails, MergeOwn, Reply, ScrapeTo, TypeOK, ScrapePlaces
    <2>4. CASE BeginScrape(w)
      <3>1. view' \in [Workers -> Contents] BY <2>4, EmptyFacts DEF BeginScrape, TypeOK
      <3>2. floor' \in [Workers -> Contents] BY <2>4, <2>2 DEF BeginScrape, TypeOK
      <3>3. quiet' \in [Workers -> BOOLEAN] BY <2>4 DEF BeginScrape, TypeOK
      <3> QED BY <2>3, <2>4, <3>1, <3>2, <3>3 DEF BeginScrape, TypeOK
    <2>5. CASE SelectCounters(w)
      <3>1. [view[w] EXCEPT !.requests = store[Shared].requests, !.errors = store[Shared].errors]
               \in Contents
        BY <2>1 DEF Contents
      <3>2. view' \in [Workers -> Contents] BY <2>5, <3>1 DEF SelectCounters, TypeOK
      <3> QED BY <2>3, <2>5, <3>2 DEF SelectCounters, TypeOK
    <2>6. CASE SelectLatency(w)
      <3>1. [view[w] EXCEPT !.observed = store[Shared].observed] \in Contents BY <2>1 DEF Contents
      <3>2. view' \in [Workers -> Contents] BY <2>6, <3>1 DEF SelectLatency, TypeOK
      <3> QED BY <2>3, <2>6, <3>2 DEF SelectLatency, TypeOK
    <2>7. CASE SelectHealth(w)
      <3>1. [view[w] EXCEPT !.health = store[Shared].health] \in Contents BY <2>1 DEF Contents
      <3>2. view' \in [Workers -> Contents] BY <2>7, <3>1 DEF SelectHealth, TypeOK
      <3> QED BY <2>3, <2>7, <3>2 DEF SelectHealth, TypeOK
    <2>8. CASE SnapshotFails(w)
      <3>1. view' \in [Workers -> Contents] BY <2>8, EmptyFacts DEF SnapshotFails, TypeOK
      <3>2. floor' \in [Workers -> Contents] BY <2>8, <2>1 DEF SnapshotFails, TypeOK
      <3>3. quiet' \in [Workers -> BOOLEAN] BY <2>8 DEF SnapshotFails, TypeOK
      <3>4. faults' \in 0..MaxFaults BY <2>8, FaultType DEF SnapshotFails, TypeOK
      <3> QED BY <2>3, <2>8, <3>1, <3>2, <3>3, <3>4 DEF SnapshotFails, TypeOK
    <2>9. CASE MergeOwn(w)
      <3>1. view' \in [Workers -> Contents] BY <2>9, <2>2 DEF MergeOwn, TypeOK
      <3> QED BY <2>3, <2>9, <3>1 DEF MergeOwn, TypeOK
    <2>10. CASE Reply(w)
      <3>1. view' \in [Workers -> Contents] /\ floor' \in [Workers -> Contents]
        BY <2>10, EmptyFacts DEF Reply, TypeOK
      <3>2. quiet' \in [Workers -> BOOLEAN] BY <2>10 DEF Reply, TypeOK
      <3> QED BY <2>3, <2>10, <3>1, <3>2 DEF Reply, TypeOK
    <2> QED BY <1>8, <2>4, <2>5, <2>6, <2>7, <2>8, <2>9, <2>10 DEF Scrape
  <1>9. ASSUME NEW w \in Workers, Restart(w) PROVE TypeOK'
    <2>1. store' \in [Stores -> Contents] BY <1>9, EmptyFacts DEF Restart, TypeOK
    <2>2. pc' \in [Threads -> RecordPlaces] BY <1>9 DEF Restart, TypeOK, RecordPlaces
    <2>3. of' \in [Threads -> Nat] BY <1>9 DEF Restart, TypeOK, None
    <2>4. seen' \in [Threads -> Row] BY <1>9, NoRowType DEF Restart, TypeOK
    <2>5. scrape' \in [Workers -> ScrapePlaces] BY <1>9 DEF Restart, ScrapeTo, TypeOK, ScrapePlaces
    <2>6. view' \in [Workers -> Contents] /\ floor' \in [Workers -> Contents]
      BY <1>9, EmptyFacts DEF Restart, TypeOK
    <2>7. faults' \in 0..MaxFaults BY <1>9, FaultType DEF Restart, TypeOK
    <2>8. disturbed' \in BOOLEAN BY <1>9 DEF Restart, TypeOK
    <2> QED BY <1>9, <2>1, <2>2, <2>3, <2>4, <2>5, <2>6, <2>7, <2>8 DEF Restart, TypeOK
  <1>10. CASE UNCHANGED vars BY <1>10 DEF vars, TypeOK
  <1> QED BY <1>1, <1>2, <1>3, <1>4, <1>5, <1>6, <1>7, <1>8, <1>9, <1>10, ScrapedAssumption
          DEF Next, Record

-----------------------------------------------------------------------------
(* Honesty. *)

\* Two of the three parts of honesty are about rows that a step leaves alone.
LEMMA HonestSame ==
    ASSUME UNCHANGED outcomes
    PROVE  \A n, row : HonestRow(n, row) <=> HonestRow(n, row)'
  BY DEF HonestRow, Ranks

\* A thread keeps its outcome and what it has seen of it, or ends its record.
LEMMA RecordingKept ==
    ASSUME Recording, IdleSeesNothing, UNCHANGED outcomes,
           \A u \in Threads :
              \/ pc'[u] = "idle" /\ seen'[u] = NoRow
              \/ (pc'[u] = "idle" <=> pc[u] = "idle") /\ of'[u] = of[u] /\ seen'[u] = seen[u]
    PROVE  Recording' /\ IdleSeesNothing'
  <1>1. Recording'
    <2> SUFFICES ASSUME NEW u \in Threads, pc'[u] # "idle"
                 PROVE  of'[u] \in DOMAIN outcomes' /\ HonestRow(Name(u), seen[u])'
      BY DEF Recording
    <2>1. pc[u] # "idle" /\ of'[u] = of[u] /\ seen'[u] = seen[u] OBVIOUS
    <2>2. of[u] \in DOMAIN outcomes /\ HonestRow(Name(u), seen[u]) BY <2>1 DEF Recording
    <2>3. Name(u)' = Name(u) BY <2>1 DEF Name
    <2> QED BY <2>1, <2>2, <2>3 DEF HonestRow, Ranks
  <1>2. IdleSeesNothing' BY DEF IdleSeesNothing
  <1> QED BY <1>1, <1>2

\* A count leaves the rows alone.
LEMMA CountsKeepRows ==
    ASSUME TypeOK, NEW s \in Stores, NEW n \in Names,
           \/ store' = [store EXCEPT ![s].requests[n] = @ + 1]
           \/ store' = [store EXCEPT ![s].errors[n] = @ + 1]
           \/ store' = [store EXCEPT ![s].observed[n] = @ + 1]
    PROVE  \A x \in Stores : store'[x].health = store[x].health
  <1>1. store[s] \in Contents BY DEF TypeOK
  <1>2. \A c \in Contents :
           /\ [c EXCEPT !.requests[n] = @ + 1].health = c.health
           /\ [c EXCEPT !.errors[n] = @ + 1].health = c.health
           /\ [c EXCEPT !.observed[n] = @ + 1].health = c.health
    BY DEF Contents
  <1>3. PICK d : store' = [store EXCEPT ![s] = d] /\ d.health = store[s].health
    <2>1. CASE store' = [store EXCEPT ![s].requests[n] = @ + 1] BY <2>1, <1>1, <1>2
    <2>2. CASE store' = [store EXCEPT ![s].errors[n] = @ + 1] BY <2>2, <1>1, <1>2
    <2>3. CASE store' = [store EXCEPT ![s].observed[n] = @ + 1] BY <2>3, <1>1, <1>2
    <2> QED BY <2>1, <2>2, <2>3
  <1>4. \A x \in Stores : store'[x] = IF x = s THEN d ELSE store[x] BY <1>3 DEF TypeOK
  <1> QED BY <1>3, <1>4

\* A record is begun: rows stay, one more outcome has happened.
LEMMA BeginHonest ==
    ASSUME Inv, NEW t \in Threads, Begin(t)
    PROVE  Recording' /\ HonestStores' /\ HonestViews'
  <1>1. PICK n \in Judged, ok \in BOOLEAN : outcomes' = Append(outcomes, [name |-> n, ok |-> ok])
    BY DEF Begin
  <1>2. [name |-> n, ok |-> ok] \in Outcome BY NameAssumption DEF Outcome
  <1>3. outcomes \in Seq(Outcome) BY DEF Inv, TypeOK
  <1>4. \A m, row : HonestRow(m, row) => HonestRow(m, row)' BY <1>1, <1>2, <1>3, HonestStays
  <1>5. \A i \in DOMAIN outcomes : i \in DOMAIN outcomes' /\ outcomes'[i] = outcomes[i]
    BY <1>1, <1>2, <1>3
  <1>6. Recording'
    <2> SUFFICES ASSUME NEW u \in Threads, pc'[u] # "idle"
                 PROVE  of'[u] \in DOMAIN outcomes' /\ HonestRow(Name(u), seen[u])'
      BY DEF Recording
    <2>1. CASE u = t
      <3>1. of'[t] = Len(outcomes) + 1 BY DEF Begin, Inv, TypeOK
      <3>2. Len(outcomes) + 1 \in DOMAIN outcomes' BY <1>1, <1>2, <1>3
      <3>3. seen[t] = NoRow BY DEF Begin, Inv, IdleSeesNothing
      <3>4. seen'[t] = NoRow BY <3>3 DEF Begin
      <3> QED BY <2>1, <3>1, <3>2, <3>4 DEF HonestRow, NoRow
    <2>2. CASE u # t
      <3>1. pc[u] # "idle" /\ of'[u] = of[u] /\ seen'[u] = seen[u]
        BY <2>2 DEF Begin, Goto, Inv, TypeOK
      <3>2. of[u] \in DOMAIN outcomes /\ HonestRow(Name(u), seen[u]) BY <3>1 DEF Inv, Recording
      <3>3. Name(u)' = Name(u) BY <1>5, <3>1, <3>2 DEF Name
      <3>4. HonestRow(Name(u), seen[u])' BY <1>4, <3>1, <3>2, <3>3 DEF HonestRow
      <3> QED BY <1>5, <3>1, <3>2, <3>4
    <2> QED BY <2>1, <2>2
  <1>7. HonestStores' BY <1>4 DEF Begin, Inv, HonestStores
  <1>8. HonestViews' BY <1>4 DEF Begin, Inv, HonestViews
  <1> QED BY <1>6, <1>7, <1>8

LEMMA StepHonest == Inv /\ [Next]_vars => Recording' /\ IdleSeesNothing' /\ HonestStores' /\ HonestViews'
  <1> SUFFICES ASSUME Inv, [Next]_vars
               PROVE  Recording' /\ IdleSeesNothing' /\ HonestStores' /\ HonestViews'
    OBVIOUS
  <1> USE DEF Inv, observers
  <1>1. ASSUME NEW t \in Threads, Begin(t)
        PROVE  Recording' /\ IdleSeesNothing' /\ HonestStores' /\ HonestViews'
    <2>1. IdleSeesNothing' BY <1>1 DEF Begin, Goto, TypeOK, IdleSeesNothing
    <2> QED BY <1>1, <2>1, BeginHonest
  <1>2. ASSUME NEW t \in Threads, CountRequest(t) \/ CountError(t) \/ Observe(t)
        PROVE  Recording' /\ IdleSeesNothing' /\ HonestStores' /\ HonestViews'
    <2>1. UNCHANGED <<of, seen, view, outcomes>> /\ pc[t] # "idle" /\ Name(t) \in Names
      BY <1>2, ThreadFacts DEF CountRequest, CountError, Observe
    <2>2. \A u \in Threads : pc'[u] = "idle" <=> pc[u] = "idle"
      BY <1>2 DEF CountRequest, CountError, Observe, Goto, TypeOK
    <2>3. \A x \in Stores : store'[x].health = store[x].health
      <3>1. PICK s \in Stores :
               \/ store' = [store EXCEPT ![s].requests[Name(t)] = @ + 1]
               \/ store' = [store EXCEPT ![s].errors[Name(t)] = @ + 1]
               \/ store' = [store EXCEPT ![s].observed[Name(t)] = @ + 1]
        BY <1>2 DEF CountRequest, CountError, Observe
      <3> QED BY <2>1, <3>1, CountsKeepRows
    <2>4. Recording' /\ IdleSeesNothing' BY <2>1, <2>2, RecordingKept
    <2>5. HonestStores' /\ HonestViews' BY <2>1, <2>3, HonestSame DEF HonestStores, HonestViews
    <2> QED BY <2>4, <2>5
  <1>3. ASSUME NEW t \in Threads, ReadShared(t) \/ ReadOwn(t)
        PROVE  Recording' /\ IdleSeesNothing' /\ HonestStores' /\ HonestViews'
    <2>1. UNCHANGED <<store, of, view, outcomes>> /\ pc[t] # "idle" /\ Name(t) \in Names
      BY <1>3, ThreadFacts DEF ReadShared, ReadOwn
    <2>2. \A u \in Threads : /\ pc'[u] = "idle" <=> pc[u] = "idle"
                             /\ u # t => seen'[u] = seen[u]
      BY <1>3 DEF ReadShared, ReadOwn, Goto, TypeOK
    <2>3. HonestRow(Name(t), seen'[t])
      <3>1. Shared \in Stores /\ WorkerOf[t] \in Stores BY WorkerAssumption DEF Stores
      <3>2. HonestRow(Name(t), store[Shared].health[Name(t)])
            /\ HonestRow(Name(t), store[WorkerOf[t]].health[Name(t)])
            /\ HonestRow(Name(t), seen[t]) /\ HonestRow(Name(t), NoRow)
        BY <2>1, <3>1, NothingIsHonest DEF HonestStores, Recording
      <3>3. seen'[t] \in {store[Shared].health[Name(t)], store[WorkerOf[t]].health[Name(t)],
                          seen[t], NoRow}
        BY <1>3 DEF ReadShared, ReadOwn, MergedRow, TypeOK
      <3> QED BY <3>2, <3>3
    <2>4. Recording'
      <3> SUFFICES ASSUME NEW u \in Threads, pc'[u] # "idle"
                   PROVE  of'[u] \in DOMAIN outcomes' /\ HonestRow(Name(u), seen[u])'
        BY DEF Recording
      <3>1. HonestRow(Name(u), seen'[u]) BY <2>2, <2>3 DEF Recording
      <3>2. of'[u] \in DOMAIN outcomes' BY <2>1, <2>2 DEF Recording
      <3> QED BY <2>1, <3>1, <3>2 DEF HonestRow, Ranks, Name
    <2>5. IdleSeesNothing' BY <2>1, <2>2 DEF IdleSeesNothing
    <2>6. HonestStores' /\ HonestViews' BY <2>1, HonestSame DEF HonestStores, HonestViews
    <2> QED BY <2>4, <2>5, <2>6
  <1>4. ASSUME NEW t \in Threads, SetHealth(t)
        PROVE  Recording' /\ IdleSeesNothing' /\ HonestStores' /\ HonestViews'
    <2>1. UNCHANGED <<view, outcomes>> /\ pc[t] # "idle" /\ Name(t) \in Names
      BY <1>4, ThreadFacts DEF SetHealth
    <2>2. \A u \in Threads : /\ u # t => pc'[u] = pc[u] /\ of'[u] = of[u] /\ seen'[u] = seen[u]
                             /\ u = t => pc'[u] = "idle" /\ seen'[u] = NoRow
      BY <1>4 DEF SetHealth, Goto, TypeOK
    <2>3. PICK s \in Stores : store' = [store EXCEPT ![s].health[Name(t)] = NewRow(t)]
      BY <1>4 DEF SetHealth
    <2>4. HonestRow(Name(t), NewRow(t)) BY <2>1, NewRowFacts
    <2>5. \A x \in Stores, n \in Names :
             store'[x].health[n] \in {store[x].health[n]} \cup (IF n = Name(t) THEN {NewRow(t)} ELSE {})
      <3>1. store[s] \in Contents /\ \A c \in Contents, f \in [Names -> Row] :
                                               [c EXCEPT !.health = f].health = f
        BY DEF TypeOK, Contents
      <3>2. store[s].health \in [Names -> Row] BY <3>1 DEF Contents
      <3>3. store'[s].health = [store[s].health EXCEPT ![Name(t)] = NewRow(t)]
        BY <2>3, <3>1 DEF TypeOK
      <3>4. \A x \in Stores : x # s => store'[x] = store[x] BY <2>3 DEF TypeOK
      <3> QED BY <3>2, <3>3, <3>4
    <2>6. HonestStores' BY <2>1, <2>4, <2>5, HonestSame DEF HonestStores
    <2>7. HonestViews' BY <2>1, HonestSame DEF HonestViews
    <2>8. Recording' /\ IdleSeesNothing' BY <2>1, <2>2, RecordingKept
    <2> QED BY <2>6, <2>7, <2>8
  <1>5. ASSUME NEW w \in Workers, Scrape(w)
        PROVE  Recording' /\ IdleSeesNothing' /\ HonestStores' /\ HonestViews'
    <2>1. UNCHANGED <<store, pc, of, seen, outcomes>>
      BY <1>5 DEF Scrape, BeginScrape, SelectCounters, SelectLatency, SelectHealth,
                  SnapshotFails, MergeOwn, Reply
    <2>2. \A v \in Workers : v # w => view'[v] = view[v]
      BY <1>5 DEF Scrape, BeginScrape, SelectCounters, SelectLatency, SelectHealth,
                  SnapshotFails, MergeOwn, Reply, TypeOK
    <2>3. store[Shared] \in Contents /\ store[w] \in Contents /\ view[w] \in Contents
      BY DEF TypeOK, Stores
    <2>4. \A n \in Names : view'[w].health[n] \in
             {NoRow, view[w].health[n], store[Shared].health[n], store[w].health[n]}
      <3>1. \A c, d \in Contents :
               /\ [c EXCEPT !.requests = d.requests, !.errors = d.errors].health = c.health
               /\ [c EXCEPT !.observed = d.observed].health = c.health
               /\ [c EXCEPT !.health = d.health].health = d.health
        BY DEF Contents
      <3>2. CASE BeginScrape(w) \/ SnapshotFails(w) \/ Reply(w)
        BY <3>2, EmptyFacts DEF BeginScrape, SnapshotFails, Reply, TypeOK
      <3>3. CASE SelectCounters(w)
        <4>1. view'[w] = [view[w] EXCEPT !.requests = store[Shared].requests,
                                         !.errors = store[Shared].errors]
          BY <3>3 DEF SelectCounters, TypeOK
        <4> QED BY <2>3, <3>1, <4>1
      <3>4. CASE SelectLatency(w)
        <4>1. view'[w] = [view[w] EXCEPT !.observed = store[Shared].observed]
          BY <3>4 DEF SelectLatency, TypeOK
        <4> QED BY <2>3, <3>1, <4>1
      <3>5. CASE SelectHealth(w)
        <4>1. view'[w] = [view[w] EXCEPT !.health = store[Shared].health]
          BY <3>5 DEF SelectHealth, TypeOK
        <4> QED BY <2>3, <3>1, <4>1
      <3>6. CASE MergeOwn(w)
        <4>1. view'[w] = Merged(view[w], store[w]) BY <3>6 DEF MergeOwn, TypeOK
        <4> QED BY <2>3, <4>1, MergedHonest
      <3> QED BY <1>5, <3>2, <3>3, <3>4, <3>5, <3>6 DEF Scrape
    <2>5. \A n \in Names : HonestRow(n, view'[w].health[n])
      BY <2>4, NothingIsHonest DEF HonestStores, HonestViews, Stores
    <2>6. HonestViews' BY <2>1, <2>2, <2>5, HonestSame DEF HonestViews
    <2>7. Recording' /\ IdleSeesNothing' BY <2>1, RecordingKept
    <2>8. HonestStores' BY <2>1, HonestSame DEF HonestStores
    <2> QED BY <2>6, <2>7, <2>8
  <1>6. ASSUME NEW w \in Workers, Restart(w)
        PROVE  Recording' /\ IdleSeesNothing' /\ HonestStores' /\ HonestViews'
    <2>1. UNCHANGED outcomes BY <1>6 DEF Restart
    <2>2. \A u \in Threads :
             \/ pc'[u] = "idle" /\ seen'[u] = NoRow
             \/ pc'[u] = pc[u] /\ of'[u] = of[u] /\ seen'[u] = seen[u]
      BY <1>6 DEF Restart
    <2>3. \A x \in Stores : store'[x] \in {store[x], Empty} BY <1>6 DEF Restart, TypeOK
    <2>4. \A v \in Workers : view'[v] \in {view[v], Empty} BY <1>6 DEF Restart, TypeOK
    <2>5. Recording' /\ IdleSeesNothing' BY <2>1, <2>2, RecordingKept
    <2>6. HonestStores' BY <2>1, <2>3, EmptyFacts, NothingIsHonest, HonestSame DEF HonestStores
    <2>7. HonestViews' BY <2>1, <2>4, EmptyFacts, NothingIsHonest, HonestSame DEF HonestViews
    <2> QED BY <2>5, <2>6, <2>7
  <1>7. CASE UNCHANGED vars
    <2>1. UNCHANGED <<store, pc, of, seen, view, outcomes>> BY <1>7 DEF vars
    <2>2. Recording' /\ IdleSeesNothing' BY <2>1, RecordingKept
    <2>3. HonestStores' /\ HonestViews' BY <2>1, HonestSame DEF HonestStores, HonestViews
    <2> QED BY <2>2, <2>3
  <1> QED BY <1>1, <1>2, <1>3, <1>4, <1>5, <1>6, <1>7, ScrapedAssumption DEF Next, Record

-----------------------------------------------------------------------------
\* Types, and the honesty of every row there is.
THEOREM Invariance == Spec => []Inv
  <1>1. Inv /\ [Next]_vars => Inv' BY StepType, StepHonest DEF Inv
  <1> QED BY InitInv, <1>1, PTL DEF Spec

\* However records interleave, fall back to a process's own store and die, no
\* reply dates a success or an error that was not.
THEOREM RepliesAreHonest == Spec => []HealthIsHonest
  <1>1. Inv => HealthIsHonest BY DEF Inv, HonestViews, HealthIsHonest
  <1> QED BY Invariance, <1>1, PTL
-----------------------------------------------------------------------------
(* Exactness, as long as nothing disturbs. *)

\* The outcomes that are still being recorded, the others, and the row that
\* the others make.
Pending == {of[t] : t \in {u \in Threads : pc[u] # "idle"}}
Recorded(n, R) == Ranks(n, R) \ Pending
LastOk(n) == Latest(Recorded(n, {TRUE}))
LastError(n) ==
    LET last == Latest(Recorded(n, BOOLEAN))
    IN  IF last \in Recorded(n, {FALSE}) THEN last ELSE None

OneAtATime ==
    /\ \A t, u \in Threads : pc[t] # "idle" /\ pc[u] # "idle" => t = u
    /\ \A t \in Threads : pc[t] # "idle" => of[t] = Len(outcomes)

OwnRowsUnused == \A w \in Workers, n \in Names : store[w].health[n] = NoRow

SharedExact ==
    \A n \in Names : store[Shared].health[n] = [last_ok |-> LastOk(n), last_error |-> LastError(n)]

\* A failure has found the last success.
SeenExact ==
    \A t \in Threads : pc[t] \in {"own", "health"} /\ ~Ok(t) => seen[t].last_ok = LastOk(Name(t))

RecordsExact == OneAtATime /\ OwnRowsUnused /\ SharedExact /\ SeenExact

\* A scrape during which nothing is recorded reads the true rows.
ScrapeExact(w) ==
    quiet[w] =>
        /\ \A t \in Threads : pc[t] = "idle"
        /\ scrape[w] \in {"own", "done"} => \A n \in Names : view[w].health[n] = TrueRow(n)

Exact == ~disturbed => RecordsExact /\ \A w \in Workers : ScrapeExact(w)

\* The row that is made of what has been recorded, whoever recorded it.
LEMMA MadeOf ==
    ASSUME NEW n, NEW ok, NEW error, NEW any,
           Recorded(n, {TRUE})' = ok, Recorded(n, {FALSE})' = error, Recorded(n, BOOLEAN)' = any
    PROVE  /\ LastOk(n)' = Latest(ok)
           /\ LastError(n)' = IF Latest(any) \in error THEN Latest(any) ELSE None
  <1>1. LastOk(n)' = Latest(Recorded(n, {TRUE})') BY Zenon DEF LastOk, Latest
  <1>2. LastError(n)' = IF Latest(Recorded(n, BOOLEAN)') \in Recorded(n, {FALSE})'
                        THEN Latest(Recorded(n, BOOLEAN)') ELSE None
    BY Zenon DEF LastError, Latest
  <1> QED BY <1>1, <1>2

LEMMA LatestIsLast ==
    ASSUME NEW N \in Nat, NEW S \in SUBSET (1..N), N \in S
    PROVE  Latest(S) = N
  <1>1. N \in {i \in S : \A j \in S : j <= i} OBVIOUS
  <1>2. \A i \in {i \in S : \A j \in S : j <= i} : i = N OBVIOUS
  <1> QED BY <1>1, <1>2 DEF Latest

\* When nothing is under way, every outcome is recorded.
LEMMA AllRecorded ==
    ASSUME \A t \in Threads : pc[t] = "idle", NEW n
    PROVE  TrueRow(n) = [last_ok |-> LastOk(n), last_error |-> LastError(n)]
  <1>1. Pending = {} BY DEF Pending
  <1>2. \A R : Recorded(n, R) = Ranks(n, R) BY <1>1 DEF Recorded
  <1> QED BY <1>2 DEF TrueRow, LastOk, LastError

\* What is recorded depends on the outcomes and on the records under way.
LEMMA RecordedSame ==
    ASSUME UNCHANGED outcomes,
           \A u \in Threads : /\ pc'[u] = "idle" <=> pc[u] = "idle"
                              /\ pc[u] # "idle" => of'[u] = of[u]
    PROVE  \A n : /\ LastOk(n)' = LastOk(n)
                  /\ LastError(n)' = LastError(n)
                  /\ TrueRow(n)' = TrueRow(n)
  <1>1. Pending' = Pending BY DEF Pending
  <1>2. \A n, R : Ranks(n, R)' = Ranks(n, R) BY DEF Ranks
  <1>3. \A n, R : Recorded(n, R)' = Recorded(n, R) BY <1>1, <1>2 DEF Recorded
  <1>4. \A n : LastOk(n)' = LastOk(n) BY <1>3, MadeOf DEF LastOk
  <1>5. \A n : LastError(n)' = LastError(n) BY <1>3, MadeOf DEF LastError
  <1>6. \A n : TrueRow(n)' = TrueRow(n) BY <1>2, Zenon DEF TrueRow, Latest
  <1> QED BY <1>4, <1>5, <1>6

LEMMA SameRecord ==
    ASSUME UNCHANGED outcomes,
           \A u \in Threads : /\ pc'[u] = "idle" <=> pc[u] = "idle"
                              /\ pc[u] # "idle" => of'[u] = of[u],
           NEW t \in Threads, pc[t] # "idle"
    PROVE  Ok(t)' = Ok(t) /\ (LastOk(Name(t)))' = LastOk(Name(t))
  <1>1. Ok(t)' = Ok(t) /\ Name(t)' = Name(t) BY DEF Ok, Name
  <1>2. PICK n : n = Name(t) OBVIOUS
  <1>3. LastOk(n)' = LastOk(n) BY RecordedSame
  <1>4. (LastOk(Name(t)))' = LastOk(n)' BY <1>1, <1>2 DEF LastOk, Recorded, Ranks
  <1> QED BY <1>1, <1>2, <1>3, <1>4

LEMMA RecordsKept ==
    ASSUME RecordsExact, UNCHANGED outcomes,
           \A u \in Threads : /\ pc'[u] = "idle" <=> pc[u] = "idle"
                              /\ pc[u] # "idle" => of'[u] = of[u],
           \A s \in Stores, n \in Names :
              \/ store'[s].health[n] = store[s].health[n]
              \/ s \in Workers /\ store'[s].health[n] = NoRow
    PROVE  OneAtATime' /\ OwnRowsUnused' /\ SharedExact'
  <1>1. OneAtATime' BY DEF RecordsExact, OneAtATime
  <1>2. OwnRowsUnused' BY DEF RecordsExact, OwnRowsUnused, Stores
  <1>3. SharedExact'
    <2>1. \A n \in Names : store'[Shared].health[n] = store[Shared].health[n]
      BY WorkerAssumption DEF Stores
    <2> QED BY <2>1, RecordedSame DEF RecordsExact, SharedExact
  <1> QED BY <1>1, <1>2, <1>3

LEMMA NothingRecorded ==
    ASSUME RecordsExact, UNCHANGED <<store, pc, of, seen, outcomes>>
    PROVE  RecordsExact'
  <1>1. OneAtATime' /\ OwnRowsUnused' /\ SharedExact' BY RecordsKept
  <1>2. SeenExact'
    <2> SUFFICES ASSUME NEW u \in Threads, pc'[u] \in {"own", "health"}, ~Ok(u)'
                 PROVE  (seen[u].last_ok = LastOk(Name(u)))'
      BY DEF SeenExact
    <2>1. Ok(u)' = Ok(u) /\ (LastOk(Name(u)))' = LastOk(Name(u)) BY SameRecord
    <2> QED BY <2>1 DEF RecordsExact, SeenExact
  <1> QED BY <1>1, <1>2 DEF RecordsExact

\* A failure is none of the successes, so recording it leaves them alone.
LEMMA FailureIsNoSuccess ==
    ASSUME Inv, OneAtATime, NEW t \in Threads, pc[t] # "idle"
    PROVE  /\ Pending = {of[t]}
           /\ ~Ok(t) => LastOk(Name(t)) = Latest(Ranks(Name(t), {TRUE}))
  <1>1. Pending = {of[t]} BY DEF OneAtATime, Pending
  <1>2. ASSUME ~Ok(t) PROVE Recorded(Name(t), {TRUE}) = Ranks(Name(t), {TRUE})
    BY <1>1, <1>2 DEF Recorded, Ranks, Ok
  <1> QED BY <1>1, <1>2 DEF LastOk

LEMMA BeginExact ==
    ASSUME Inv, RecordsExact, NEW t \in Threads, Begin(t), ~disturbed'
    PROVE  RecordsExact' /\ \A w \in Workers : ScrapeExact(w)'
  <1>1. PICK n \in Judged, ok \in BOOLEAN : outcomes' = Append(outcomes, [name |-> n, ok |-> ok])
    BY DEF Begin
  <1>2. [name |-> n, ok |-> ok] \in Outcome BY NameAssumption DEF Outcome
  <1>3. outcomes \in Seq(Outcome) /\ Len(outcomes) \in Nat BY DEF Inv, TypeOK
  <1>4. \A u \in Threads : pc[u] = "idle" BY DEF Begin
  <1>5. /\ pc'[t] = "requests" /\ of'[t] = Len(outcomes) + 1
        /\ \A u \in Threads : u # t => pc'[u] = "idle"
    BY <1>4 DEF Begin, Goto, Inv, TypeOK
  <1>6. Len(outcomes') = Len(outcomes) + 1 BY <1>1, <1>2, <1>3
  <1>7. Pending = {} /\ Pending' = {Len(outcomes) + 1} BY <1>4, <1>5 DEF Pending
  <1>8. \A m, R : Recorded(m, R)' = Recorded(m, R)
    <2> SUFFICES ASSUME NEW m, NEW R PROVE Recorded(m, R)' = Recorded(m, R) OBVIOUS
    <2>1. /\ DOMAIN outcomes' = DOMAIN outcomes \cup {Len(outcomes) + 1}
          /\ Len(outcomes) + 1 \notin DOMAIN outcomes
          /\ \A i \in DOMAIN outcomes : outcomes'[i] = outcomes[i]
      BY <1>1, <1>2, <1>3
    <2> QED BY <1>7, <2>1 DEF Recorded, Ranks
  <1>9. \A m : LastOk(m)' = LastOk(m) /\ LastError(m)' = LastError(m)
    BY <1>8, MadeOf DEF LastOk, LastError
  <1>10. OneAtATime' BY <1>5, <1>6 DEF OneAtATime
  <1>11. OwnRowsUnused' /\ SharedExact'
    BY <1>9 DEF Begin, RecordsExact, OwnRowsUnused, SharedExact
  <1>12. SeenExact' BY <1>5 DEF SeenExact
  <1>13. \A w \in Workers : ScrapeExact(w)' BY DEF Begin, ScrapeExact
  <1> QED BY <1>10, <1>11, <1>12, <1>13 DEF RecordsExact

\* The row a thread writes is that of the outcomes, its own included.
LEMMA SetHealthExact ==
    ASSUME Inv, RecordsExact, NEW t \in Threads, SetHealth(t), ~disturbed'
    PROVE  RecordsExact'
  <1>0. PICK last, me : last = Len(outcomes) /\ me = Name(t) OBVIOUS
  <1>1. pc[t] = "health" /\ pc[t] # "idle" /\ UNCHANGED outcomes BY DEF SetHealth
  <1>2. of[t] = last /\ last \in Nat \ {0} /\ me \in Names /\ Ok(t) \in BOOLEAN
    BY <1>0, <1>1, ThreadFacts DEF Inv, RecordsExact, OneAtATime
  <1>3. outcomes \in Seq(Outcome) /\ last \in DOMAIN outcomes /\ DOMAIN outcomes = 1..last
    BY <1>0, <1>1, <1>2 DEF Inv, TypeOK
  <1>4. Pending = {last} BY <1>1, <1>2, FailureIsNoSuccess DEF RecordsExact
  <1>5. \A u \in Threads : pc'[u] = "idle"
    BY <1>1 DEF SetHealth, Goto, Inv, TypeOK, RecordsExact, OneAtATime
  <1>6. Pending' = {} BY <1>5 DEF Pending
  <1>7. \A n, R : Recorded(n, R)' = Ranks(n, R) BY <1>1, <1>6 DEF Recorded, Ranks
  <1>8. /\ store'[Shared].health[me] = NewRow(t)
        /\ \A n \in Names : n # me => store'[Shared].health[n] = store[Shared].health[n]
        /\ \A w \in Workers : store'[w] = store[w]
    <2>1. store' = [store EXCEPT ![Shared].health[me] = NewRow(t)] BY <1>0 DEF SetHealth
    <2>2. store[Shared] \in Contents /\ \A c \in Contents, f \in [Names -> Row] :
                                               [c EXCEPT !.health = f].health = f
      BY DEF Inv, TypeOK, Contents, Stores
    <2>3. store[Shared].health \in [Names -> Row] BY <2>2 DEF Contents
    <2>4. store'[Shared].health = [store[Shared].health EXCEPT ![me] = NewRow(t)]
      BY <2>1, <2>2 DEF Inv, TypeOK, Stores
    <2>5. \A w \in Workers : store'[w] = store[w]
      BY <2>1, WorkerAssumption DEF Inv, TypeOK, Stores
    <2> QED BY <1>2, <2>3, <2>4, <2>5
  <1>9. \A R : Ranks(me, R) \in SUBSET (1..last) BY <1>3 DEF Ranks
  <1>10. /\ last \in Ranks(me, BOOLEAN)
         /\ last \in Ranks(me, {TRUE}) <=> Ok(t)
         /\ last \in Ranks(me, {FALSE}) <=> ~Ok(t)
    BY <1>0, <1>2, <1>3 DEF Ranks, Name, Ok
  <1>11. Latest(Ranks(me, BOOLEAN)) = last
    <2>1. Ranks(me, BOOLEAN) \in SUBSET (1..last) BY <1>9
    <2> QED BY <1>2, <1>10, <2>1, LatestIsLast
  <1>12. NewRow(t).last_ok = Latest(Ranks(me, {TRUE})) /\ NewRow(t).last_error = IF Ok(t) THEN None ELSE last
    <2>1. CASE Ok(t)
      <3>1. Ranks(me, {TRUE}) \in SUBSET (1..last) BY <1>9
      <3>2. Latest(Ranks(me, {TRUE})) = last BY <1>2, <1>10, <2>1, <3>1, LatestIsLast
      <3> QED BY <1>2, <2>1, <3>2 DEF NewRow
    <2>2. CASE ~Ok(t)
      <3>1. seen[t].last_ok = LastOk(me) BY <1>0, <1>1, <2>2 DEF RecordsExact, SeenExact
      <3>2. LastOk(me) = Latest(Ranks(me, {TRUE}))
        BY <1>0, <1>1, <2>2, FailureIsNoSuccess DEF RecordsExact
      <3> QED BY <1>2, <2>2, <3>1, <3>2 DEF NewRow
    <2> QED BY <2>1, <2>2
  <1>13. NewRow(t) = [last_ok |-> NewRow(t).last_ok, last_error |-> NewRow(t).last_error]
    BY DEF NewRow
  <1>14. LastOk(me)' = NewRow(t).last_ok /\ LastError(me)' = NewRow(t).last_error
    <2>1. LastOk(me)' = Latest(Ranks(me, {TRUE})) BY <1>7, MadeOf
    <2>2. LastError(me)' = IF last \in Ranks(me, {FALSE}) THEN last ELSE None
      BY <1>7, <1>11, MadeOf
    <2> QED BY <1>10, <1>12, <2>1, <2>2
  <1>15. \A n \in Names : n # me =>
            \A R : last \notin Ranks(n, R) /\ Recorded(n, R)' = Recorded(n, R)
    <2>1. \A n, R : last \in Ranks(n, R) => n = me BY <1>0, <1>2 DEF Ranks, Name
    <2> QED BY <1>4, <1>7, <2>1 DEF Recorded
  <1>16. \A n \in Names : n # me => LastOk(n)' = LastOk(n) /\ LastError(n)' = LastError(n)
    BY <1>15, MadeOf DEF LastOk, LastError
  <1>17. SharedExact' BY <1>8, <1>13, <1>14, <1>16 DEF RecordsExact, SharedExact
  <1>18. OneAtATime' /\ SeenExact' BY <1>5 DEF OneAtATime, SeenExact
  <1>19. OwnRowsUnused' BY <1>8 DEF RecordsExact, OwnRowsUnused
  <1> QED BY <1>17, <1>18, <1>19 DEF RecordsExact

\* Nothing that once disturbed is forgotten.
LEMMA DisturbedStays == [Next]_vars /\ ~disturbed' => ~disturbed
  BY DEF Next, Record, Scrape, Begin, CountRequest, CountError, Observe, ReadShared, ReadOwn,
         SetHealth, BeginScrape, SelectCounters, SelectLatency, SelectHealth, SnapshotFails,
         MergeOwn, Reply, Restart, observers, vars

\* While a record is under way, no scrape counts as quiet.
LEMMA NoneQuiet ==
    ASSUME \A w \in Workers : ScrapeExact(w), NEW t \in Threads, pc[t] # "idle",
           UNCHANGED quiet
    PROVE  \A w \in Workers : ScrapeExact(w)'
  BY DEF ScrapeExact

LEMMA RecordExact ==
    ASSUME Inv, RecordsExact, \A w \in Workers : ScrapeExact(w), NEW t \in Threads, Record(t),
           ~disturbed'
    PROVE  RecordsExact' /\ \A w \in Workers : ScrapeExact(w)'
  <1> USE DEF observers
  <1>1. pc[t] # "idle" /\ UNCHANGED <<outcomes, quiet>>
    BY DEF Record, CountRequest, CountError, Observe, ReadShared, ReadOwn, SetHealth
  <1>2. \A w \in Workers : ScrapeExact(w)' BY <1>1, NoneQuiet
  <1>3. Name(t) \in Names BY <1>1, ThreadFacts DEF Inv
  <1>4. ASSUME CountRequest(t) \/ CountError(t) \/ Observe(t) PROVE RecordsExact'
    <2>1. UNCHANGED <<of, seen>> BY <1>4 DEF CountRequest, CountError, Observe
    <2>2. /\ \A u \in Threads : pc'[u] = "idle" <=> pc[u] = "idle"
          /\ \A u \in Threads \ {t} : pc'[u] = pc[u]
          /\ pc'[t] \in {"own", "health"} => Ok(t)
      BY <1>4 DEF CountRequest, CountError, Observe, Goto, Inv, TypeOK
    <2>3. \A x \in Stores : store'[x].health = store[x].health
      <3>1. PICK s \in Stores :
               \/ store' = [store EXCEPT ![s].requests[Name(t)] = @ + 1]
               \/ store' = [store EXCEPT ![s].errors[Name(t)] = @ + 1]
               \/ store' = [store EXCEPT ![s].observed[Name(t)] = @ + 1]
        BY <1>4 DEF CountRequest, CountError, Observe
      <3> QED BY <1>3, <3>1, CountsKeepRows DEF Inv
    <2>4. OneAtATime' /\ OwnRowsUnused' /\ SharedExact' BY <1>1, <2>1, <2>2, <2>3, RecordsKept
    <2>5. SeenExact'
      <3> SUFFICES ASSUME NEW u \in Threads, pc'[u] \in {"own", "health"}, ~Ok(u)'
                   PROVE  (seen[u].last_ok = LastOk(Name(u)))'
        BY DEF SeenExact
      <3>1. Ok(u)' = Ok(u) /\ (LastOk(Name(u)))' = LastOk(Name(u))
        BY <1>1, <2>1, <2>2, SameRecord
      <3>2. pc[u] \in {"own", "health"} BY <2>2, <3>1
      <3>3. seen[u].last_ok = LastOk(Name(u)) BY <3>1, <3>2 DEF RecordsExact, SeenExact
      <3> QED BY <2>1, <3>1, <3>3
    <2> QED BY <2>4, <2>5 DEF RecordsExact
  <1>5. ASSUME ReadShared(t) \/ ReadOwn(t) PROVE RecordsExact'
    <2>1. UNCHANGED <<of, store>> BY <1>5 DEF ReadShared, ReadOwn
    <2>2. \A u \in Threads : pc'[u] = "idle" <=> pc[u] = "idle"
      BY <1>5 DEF ReadShared, ReadOwn, Goto, Inv, TypeOK
    <2>3. OneAtATime' /\ OwnRowsUnused' /\ SharedExact' BY <1>1, <2>1, <2>2, RecordsKept
    <2>4. \A u \in Threads : u # t => pc'[u] = "idle"
      BY <1>1, <2>2 DEF RecordsExact, OneAtATime
    <2>5. ~Ok(t) => seen'[t].last_ok = LastOk(Name(t))
      <3>1. CASE ReadShared(t)
        <4>1. seen'[t] = store[Shared].health[Name(t)]
          BY <3>1 DEF ReadShared, Fault, Inv, TypeOK
        <4>2. seen'[t] = [last_ok |-> LastOk(Name(t)), last_error |-> LastError(Name(t))]
          BY <1>3, <4>1 DEF RecordsExact, SharedExact
        <4> QED BY <4>2
      <3>2. CASE ReadOwn(t)
        <4>1. store[WorkerOf[t]].health[Name(t)] = NoRow
          BY <1>3, WorkerAssumption DEF RecordsExact, OwnRowsUnused
        <4>2. seen'[t] = MergedRow(seen[t], NoRow) BY <3>2, <4>1 DEF ReadOwn, Inv, TypeOK
        <4>3. seen'[t] = seen[t] BY <4>2 DEF MergedRow
        <4> QED BY <3>2, <4>3 DEF ReadOwn, RecordsExact, SeenExact
      <3> QED BY <1>5, <3>1, <3>2
    <2>6. SeenExact'
      <3> SUFFICES ASSUME NEW u \in Threads, pc'[u] \in {"own", "health"}, ~Ok(u)'
                   PROVE  (seen[u].last_ok = LastOk(Name(u)))'
        BY DEF SeenExact
      <3>1. u = t BY <2>4
      <3>2. Ok(t)' = Ok(t) /\ (LastOk(Name(t)))' = LastOk(Name(t))
        BY <1>1, <2>1, <2>2, SameRecord
      <3> QED BY <2>5, <3>1, <3>2
    <2> QED BY <2>3, <2>6 DEF RecordsExact
  <1>6. SetHealth(t) => RecordsExact' BY SetHealthExact
  <1> QED BY <1>2, <1>4, <1>5, <1>6 DEF Record

LEMMA ScrapesExact ==
    ASSUME Inv, RecordsExact, \A v \in Workers : ScrapeExact(v), NEW w \in Workers, Scrape(w)
    PROVE  RecordsExact' /\ \A v \in Workers : ScrapeExact(v)'
  <1> USE DEF observers
  <1>1. UNCHANGED <<store, pc, of, seen, outcomes>>
    BY DEF Scrape, BeginScrape, SelectCounters, SelectLatency, SelectHealth,
           SnapshotFails, MergeOwn, Reply
  <1>2. RecordsExact'
    BY <1>1, NothingRecorded
  <1>3. \A n : TrueRow(n)' = TrueRow(n) BY <1>1, RecordedSame
  <1>4. ASSUME NEW v \in Workers, v # w PROVE ScrapeExact(v)'
    <2>1. quiet'[v] = quiet[v] /\ scrape'[v] = scrape[v] /\ view'[v] = view[v]
      BY <1>4 DEF Scrape, BeginScrape, SelectCounters, SelectLatency, SelectHealth,
                  SnapshotFails, MergeOwn, Reply, ScrapeTo, Inv, TypeOK
    <2> QED BY <1>1, <1>3, <2>1 DEF ScrapeExact
  <1>5. store[Shared] \in Contents /\ store[w] \in Contents /\ view[w] \in Contents
    BY DEF Inv, TypeOK, Stores
  <1>6. ScrapeExact(w)'
    <2> SUFFICES ASSUME quiet'[w]
                 PROVE  /\ \A t \in Threads : pc[t] = "idle"
                        /\ scrape'[w] \in {"own", "done"} => \A n \in Names : view'[w].health[n] = TrueRow(n)
      BY <1>1, <1>3 DEF ScrapeExact
    <2>1. CASE BeginScrape(w)
      BY <2>1 DEF BeginScrape, ScrapeTo, Inv, TypeOK
    <2>2. CASE SelectCounters(w) \/ SelectLatency(w)
      BY <2>2 DEF SelectCounters, SelectLatency, ScrapeTo, ScrapeExact, Inv, TypeOK
    <2>3. CASE SelectHealth(w)
      <3>1. view'[w] = [view[w] EXCEPT !.health = store[Shared].health]
        BY <2>3 DEF SelectHealth, Inv, TypeOK
      <3>2. view'[w].health = store[Shared].health BY <1>5, <3>1 DEF Contents
      <3>3. \A t \in Threads : pc[t] = "idle" BY <2>3 DEF SelectHealth, ScrapeExact
      <3>4. \A n \in Names : store[Shared].health[n] = TrueRow(n)
        BY <3>3, AllRecorded DEF RecordsExact, SharedExact
      <3> QED BY <3>2, <3>3, <3>4
    <2>4. CASE SnapshotFails(w) \/ Reply(w)
      BY <2>4 DEF SnapshotFails, Reply, Inv, TypeOK
    <2>5. CASE MergeOwn(w)
      <3>1. view'[w] = Merged(view[w], store[w]) BY <2>5 DEF MergeOwn, Inv, TypeOK
      <3>2. \A n \in Names : view'[w].health[n] = MergedRow(view[w].health[n], NoRow)
        BY <3>1 DEF Merged, RecordsExact, OwnRowsUnused
      <3>3. \A n \in Names : view'[w].health[n] = view[w].health[n] BY <3>2 DEF MergedRow
      <3>4. quiet[w] /\ scrape[w] = "own" BY <2>5 DEF MergeOwn
      <3> QED BY <3>3, <3>4 DEF ScrapeExact
    <2> QED BY <2>1, <2>2, <2>3, <2>4, <2>5 DEF Scrape
  <1> QED BY <1>2, <1>4, <1>6

LEMMA RestartExact ==
    ASSUME Inv, RecordsExact, \A v \in Workers : ScrapeExact(v), NEW w \in Workers, Restart(w),
           ~disturbed'
    PROVE  RecordsExact' /\ \A v \in Workers : ScrapeExact(v)'
  <1>1. UNCHANGED <<outcomes, quiet>> BY DEF Restart
  <1>2. \A u \in Threads : /\ pc'[u] = pc[u]
                           /\ pc[u] # "idle" => of'[u] = of[u] /\ seen'[u] = seen[u]
    BY DEF Restart, Inv, TypeOK
  <1>3. \A s \in Stores, n \in Names :
           \/ store'[s].health[n] = store[s].health[n]
           \/ s \in Workers /\ store'[s].health[n] = NoRow
    BY EmptyFacts DEF Restart, Inv, TypeOK
  <1>4. OneAtATime' /\ OwnRowsUnused' /\ SharedExact' BY <1>1, <1>2, <1>3, RecordsKept
  <1>5. SeenExact'
    <2> SUFFICES ASSUME NEW u \in Threads, pc'[u] \in {"own", "health"}, ~Ok(u)'
                 PROVE  (seen[u].last_ok = LastOk(Name(u)))'
      BY DEF SeenExact
    <2>1. pc[u] \in {"own", "health"} /\ of'[u] = of[u] /\ seen'[u] = seen[u] BY <1>2
    <2>2. Ok(u)' = Ok(u) /\ (LastOk(Name(u)))' = LastOk(Name(u)) BY <1>1, <1>2, <2>1, SameRecord
    <2> QED BY <2>1, <2>2 DEF RecordsExact, SeenExact
  <1>6. \A n : TrueRow(n)' = TrueRow(n) BY <1>1, <1>2, RecordedSame
  <1>7. ASSUME NEW v \in Workers PROVE ScrapeExact(v)'
    <2>1. IF v = w THEN scrape'[v] = "idle" ELSE scrape'[v] = scrape[v] /\ view'[v] = view[v]
      BY DEF Restart, ScrapeTo, Inv, TypeOK
    <2> QED BY <1>1, <1>2, <1>6, <2>1 DEF ScrapeExact
  <1> QED BY <1>4, <1>5, <1>7 DEF RecordsExact

LEMMA InitExact == Init => Exact
  <1> SUFFICES ASSUME Init PROVE Exact OBVIOUS
  <1>1. \A t \in Threads : pc[t] = "idle" BY DEF Init
  <1>2. OneAtATime /\ SeenExact BY <1>1 DEF OneAtATime, SeenExact
  <1>3. OwnRowsUnused BY EmptyFacts, WorkerAssumption DEF Init, OwnRowsUnused, Stores
  <1>4. SharedExact
    <2>1. store[Shared] = TrueContents BY DEF Init, Stores
    <2>2. \A n \in Names : store[Shared].health[n] = TrueRow(n) BY <2>1 DEF TrueContents
    <2> QED BY <1>1, <2>2, AllRecorded DEF SharedExact
  <1>5. \A w \in Workers : ScrapeExact(w) BY DEF Init, ScrapeExact
  <1> QED BY <1>2, <1>3, <1>4, <1>5 DEF Exact, RecordsExact

LEMMA StepExact == Inv /\ Exact /\ [Next]_vars => Exact'
  <1> SUFFICES ASSUME Inv, Exact, [Next]_vars, ~disturbed'
               PROVE  RecordsExact' /\ \A w \in Workers : ScrapeExact(w)'
    BY DEF Exact
  <1>1. RecordsExact /\ \A w \in Workers : ScrapeExact(w) BY DisturbedStays DEF Exact
  <1>2. ASSUME NEW t \in Threads, Begin(t)
        PROVE  RecordsExact' /\ \A w \in Workers : ScrapeExact(w)'
    BY <1>1, <1>2, BeginExact
  <1>3. ASSUME NEW t \in Threads, Record(t)
        PROVE  RecordsExact' /\ \A w \in Workers : ScrapeExact(w)'
    BY <1>1, <1>3, RecordExact
  <1>4. ASSUME NEW w \in Workers, Scrape(w)
        PROVE  RecordsExact' /\ \A v \in Workers : ScrapeExact(v)'
    BY <1>1, <1>4, ScrapesExact
  <1>5. ASSUME NEW w \in Workers, Restart(w)
        PROVE  RecordsExact' /\ \A v \in Workers : ScrapeExact(v)'
    BY <1>1, <1>5, RestartExact
  <1>6. CASE UNCHANGED vars
    <2>1. UNCHANGED <<store, pc, of, seen, outcomes, scrape, view, quiet>>
      BY <1>6 DEF vars, observers
    <2>2. RecordsExact' BY <1>1, <2>1, NothingRecorded
    <2>3. \A n : TrueRow(n)' = TrueRow(n) BY <2>1, RecordedSame
    <2> QED BY <1>1, <2>1, <2>2, <2>3 DEF ScrapeExact
  <1> QED BY <1>2, <1>3, <1>4, <1>5, <1>6, ScrapedAssumption DEF Next

\* Undisturbed, health is exact, and both endpoints agree on it.
THEOREM QuietIsExact == Spec => []QuietHealthIsExact
  <1>1. Inv /\ Exact => QuietHealthIsExact
    <2> SUFFICES ASSUME Inv, Exact, NEW w \in Workers, scrape[w] = "done", quiet[w], ~disturbed
                 PROVE  /\ view[w].health = [n \in Names |-> TrueRow(n)]
                        /\ StatusOf(view[w].health) = "degraded" <=> \E n \in Judged : LastFailed(n)
                        /\ \A n \in Names :
                              Gauge(EffectiveRow(n, view[w].health[n])) = 0
                                <=> (n \in Judged /\ LastFailed(n))
      BY DEF QuietHealthIsExact
    <2>1. \A n \in Names : view[w].health[n] = TrueRow(n) BY DEF Exact, ScrapeExact
    <2>2. view[w].health \in [Names -> Row] BY DEF Inv, TypeOK, Contents
    <2>3. \A n \in Names : TrueRow(n).last_error # None <=> LastFailed(n)
      <3>1. \A n : Ranks(n, {FALSE}) \subseteq Nat \ {0} BY RanksFinite DEF Inv, TypeOK
      <3> QED BY <3>1 DEF TrueRow, LastFailed, None
    <2>4. StatusOf(view[w].health) = "degraded" <=> \E n \in Judged : LastFailed(n)
      BY <2>1, <2>3, NameAssumption DEF StatusOf
    <2>5. \A n \in Names : Gauge(EffectiveRow(n, view[w].health[n])) = 0
                              <=> (n \in Judged /\ LastFailed(n))
      <3>1. \A n \in Names : EffectiveRow(n, view[w].health[n]).last_error
                               = IF n \in Judged THEN TrueRow(n).last_error ELSE None
        BY <2>1, <2>2 DEF EffectiveRow, Row
      <3> QED BY <2>3, <3>1 DEF Gauge
    <2> QED BY <2>1, <2>2, <2>4, <2>5
  <1>2. Inv /\ [Next]_vars => Inv' BY StepType, StepHonest DEF Inv
  <1> QED BY InitInv, InitExact, StepExact, <1>1, <1>2, PTL DEF Spec

-----------------------------------------------------------------------------
(* Counters. *)

\* The counters of a store, the outcomes each is of, and how far a thread has
\* not counted its own yet.
Fields == {"requests", "errors", "observed"}
Tally(c, f) == IF f = "requests" THEN c.requests ELSE IF f = "errors" THEN c.errors ELSE c.observed
ResultsOf(f) == IF f = "errors" THEN {FALSE} ELSE BOOLEAN
Before(f) ==
    IF f = "requests" THEN {"requests"}
    ELSE IF f = "errors" THEN {"requests", "errors"} ELSE {"requests", "errors", "latency"}

Uncounted(f) == {of[t] : t \in {u \in Threads : pc[u] \in Before(f)}}
Counted(f, n) == Ranks(n, ResultsOf(f)) \ Uncounted(f)

\* Every thread records an outcome of its own, and only failures are errors.
OwnOutcomes ==
    /\ \A t, u \in Threads : pc[t] # "idle" /\ pc[u] # "idle" /\ of[t] = of[u] => t = u
    /\ \A t \in Threads : pc[t] = "errors" => ~Ok(t)

\* The file and any process's own store have counted nothing twice.
CountsBounded ==
    \A w \in Workers, f \in Fields, n \in Names :
        Tally(store[Shared], f)[n] + Tally(store[w], f)[n] <= Cardinality(Counted(f, n))

\* Where a scrape has yet to read a counter of the file, and where it has it.
Unread(f) == IF f = "observed" THEN {"counters", "latency"} ELSE {"counters"}
HasRead(f) == IF f = "observed" THEN {"health", "own"} ELSE {"latency", "health", "own"}

ScrapeInv(w) ==
    \A f \in Fields, n \in Names :
        LET shared == Tally(store[Shared], f)[n]
            own == Tally(store[w], f)[n]
            low == Tally(floor[w], f)[n]
            read == Tally(view[w], f)[n]
        IN  /\ scrape[w] # "done" => read <= shared
            /\ scrape[w] \in Unread(f) => low <= shared + own
            /\ scrape[w] \in HasRead(f) => low <= read + own
            /\ scrape[w] = "done" => low <= read /\ read <= Cardinality(Ranks(n, ResultsOf(f)))

Bounded == OwnOutcomes /\ CountsBounded /\ \A w \in Workers : ScrapeInv(w)

LEMMA FieldFacts ==
    /\ \A f \in Fields : f = "requests" \/ f = "errors" \/ f = "observed"
    /\ \A f : "idle" \notin Before(f) /\ "own" \notin Before(f) /\ "health" \notin Before(f)
              /\ "snapshot" \notin Before(f)
  BY DEF Fields, Before

LEMMA TallyFacts ==
    ASSUME NEW n \in Names, NEW f \in Fields
    PROVE  /\ \A c \in Contents : Tally(c, f)[n] \in Nat
           /\ Tally(Empty, f)[n] = 0
           /\ \A a, b \in Contents : Tally(Merged(a, b), f)[n] = Tally(a, f)[n] + Tally(b, f)[n]
  <1>1. \A c \in Contents : /\ c.requests[n] \in Nat /\ c.errors[n] \in Nat
                            /\ c.observed[n] \in Nat
    BY DEF Contents
  <1>2. Empty.requests[n] = 0 /\ Empty.errors[n] = 0 /\ Empty.observed[n] = 0 BY DEF Empty
  <1>3. \A a, b \in Contents :
           /\ Merged(a, b).requests[n] = a.requests[n] + b.requests[n]
           /\ Merged(a, b).errors[n] = a.errors[n] + b.errors[n]
           /\ Merged(a, b).observed[n] = a.observed[n] + b.observed[n]
    BY DEF Merged, Plus
  <1> QED BY <1>1, <1>2, <1>3 DEF Tally

\* Operations that leave the counters alone, and those that add to one.
LEMMA HealthCountsNothing ==
    ASSUME TypeOK, NEW s \in Stores, NEW m \in Names, NEW row \in Row,
           store' = [store EXCEPT ![s].health[m] = row]
    PROVE  \A x \in Stores, f \in Fields : Tally(store'[x], f) = Tally(store[x], f)
  <1>1. store[s] \in Contents BY DEF TypeOK
  <1>2. \A c \in Contents : /\ [c EXCEPT !.health[m] = row].requests = c.requests
                            /\ [c EXCEPT !.health[m] = row].errors = c.errors
                            /\ [c EXCEPT !.health[m] = row].observed = c.observed
    BY DEF Contents
  <1>3. store'[s] = [store[s] EXCEPT !.health[m] = row] BY DEF TypeOK
  <1>4. \A x \in Stores : x # s => store'[x] = store[x] BY DEF TypeOK
  <1> QED BY <1>1, <1>2, <1>3, <1>4 DEF Tally

LEMMA CountFacts ==
    ASSUME TypeOK, NEW s \in Stores, NEW m \in Names, NEW g \in Fields,
           \/ g = "requests" /\ store' = [store EXCEPT ![s].requests[m] = @ + 1]
           \/ g = "errors" /\ store' = [store EXCEPT ![s].errors[m] = @ + 1]
           \/ g = "observed" /\ store' = [store EXCEPT ![s].observed[m] = @ + 1]
    PROVE  /\ \A x \in Stores, f \in Fields, n \in Names :
                 (x # s \/ f # g \/ n # m) => Tally(store'[x], f)[n] = Tally(store[x], f)[n]
           /\ Tally(store'[s], g)[m] = Tally(store[s], g)[m] + 1
  <1>1. store[s] \in Contents BY DEF TypeOK
  <1>2. /\ store[s].requests \in [Names -> Nat] /\ store[s].errors \in [Names -> Nat]
        /\ store[s].observed \in [Names -> Nat]
    BY <1>1 DEF Contents
  <1>3. \A x \in Stores : x # s => store'[x] = store[x] BY DEF TypeOK
  <1>4. CASE g = "requests"
    <2>1. store'[s] = [store[s] EXCEPT !.requests[m] = @ + 1] BY <1>4 DEF TypeOK
    <2>2. /\ store'[s].requests = [store[s].requests EXCEPT ![m] = @ + 1]
          /\ store'[s].errors = store[s].errors /\ store'[s].observed = store[s].observed
      BY <1>1, <2>1 DEF Contents
    <2> QED BY <1>2, <1>3, <1>4, <2>2 DEF Tally, Fields
  <1>5. CASE g = "errors"
    <2>1. store'[s] = [store[s] EXCEPT !.errors[m] = @ + 1] BY <1>5 DEF TypeOK
    <2>2. /\ store'[s].errors = [store[s].errors EXCEPT ![m] = @ + 1]
          /\ store'[s].requests = store[s].requests /\ store'[s].observed = store[s].observed
      BY <1>1, <2>1 DEF Contents
    <2> QED BY <1>2, <1>3, <1>5, <2>2 DEF Tally, Fields
  <1>6. CASE g = "observed"
    <2>1. store'[s] = [store[s] EXCEPT !.observed[m] = @ + 1] BY <1>6 DEF TypeOK
    <2>2. /\ store'[s].observed = [store[s].observed EXCEPT ![m] = @ + 1]
          /\ store'[s].requests = store[s].requests /\ store'[s].errors = store[s].errors
      BY <1>1, <2>1 DEF Contents
    <2> QED BY <1>2, <1>3, <1>6, <2>2 DEF Tally, Fields
  <1> QED BY <1>4, <1>5, <1>6 DEF Fields

\* Of finite sets, the larger one counts more, and one that has one more
\* element counts one more.
LEMMA CountedMore ==
    ASSUME NEW B, IsFiniteSet(B), NEW A, A \subseteq B
    PROVE  /\ Cardinality(A) \in Nat /\ Cardinality(B) \in Nat
           /\ Cardinality(A) <= Cardinality(B)
           /\ \A x \in B : x \notin A => Cardinality(A) + 1 <= Cardinality(B)
  <1>1. IsFiniteSet(A) /\ Cardinality(A) <= Cardinality(B) BY FS_Subset
  <1>2. Cardinality(A) \in Nat /\ Cardinality(B) \in Nat BY <1>1, FS_CardinalityType
  <1>3. ASSUME NEW x \in B, x \notin A PROVE Cardinality(A) + 1 <= Cardinality(B)
    <2>1. Cardinality(A \cup {x}) = Cardinality(A) + 1 BY <1>1, <1>3, FS_AddElement
    <2>2. A \cup {x} \subseteq B BY <1>3
    <2>3. Cardinality(A \cup {x}) <= Cardinality(B) BY <2>2, FS_Subset
    <2> QED BY <2>1, <2>3
  <1> QED BY <1>1, <1>2, <1>3

LEMMA PlacesAreFinite ==
    ASSUME NEW seq \in Seq(Outcome), NEW S \in SUBSET DOMAIN seq
    PROVE  IsFiniteSet(S)
  <1>1. Len(seq) \in Nat /\ DOMAIN seq = 1..Len(seq) OBVIOUS
  <1>2. IsFiniteSet(1..Len(seq)) BY <1>1, FS_Interval
  <1> QED BY <1>1, <1>2, FS_Subset

\* A thread that moves on leaves no outcome that was counted uncounted.
LEMMA MovesOn ==
    ASSUME UNCHANGED outcomes, NEW f, NEW n,
           \A u \in Threads : pc'[u] \in Before(f) => pc[u] \in Before(f) /\ of'[u] = of[u]
    PROVE  Counted(f, n) \subseteq Counted(f, n)' /\ Ranks(n, ResultsOf(f))' = Ranks(n, ResultsOf(f))
  <1>1. Uncounted(f)' \subseteq Uncounted(f) BY DEF Uncounted
  <1>2. Ranks(n, ResultsOf(f))' = Ranks(n, ResultsOf(f)) BY DEF Ranks, ResultsOf
  <1> QED BY <1>1, <1>2 DEF Counted

\* An outcome that has just happened is uncounted, and no other.
LEMMA BeginCounted ==
    ASSUME Inv, NEW t \in Threads, Begin(t), NEW f, NEW n
    PROVE  /\ Counted(f, n) \subseteq Counted(f, n)'
           /\ Ranks(n, ResultsOf(f)) \subseteq Ranks(n, ResultsOf(f))'
  <1>1. PICK m \in Judged, ok \in BOOLEAN : outcomes' = Append(outcomes, [name |-> m, ok |-> ok])
    BY DEF Begin
  <1>2. [name |-> m, ok |-> ok] \in Outcome BY NameAssumption DEF Outcome
  <1>3. outcomes \in Seq(Outcome) BY DEF Inv, TypeOK
  <1>4. /\ \A i \in DOMAIN outcomes : i \in DOMAIN outcomes' /\ outcomes'[i] = outcomes[i]
        /\ Len(outcomes) + 1 \notin DOMAIN outcomes
    BY <1>1, <1>2, <1>3
  <1>5. Ranks(n, ResultsOf(f)) \subseteq Ranks(n, ResultsOf(f))' BY <1>4 DEF Ranks, ResultsOf
  <1>6. ASSUME NEW u \in Threads, pc'[u] \in Before(f)
        PROVE  of'[u] = Len(outcomes) + 1 \/ (of'[u] = of[u] /\ pc[u] \in Before(f))
    <2>1. CASE u = t BY <2>1 DEF Begin, Inv, TypeOK
    <2>2. CASE u # t BY <1>6, <2>2 DEF Begin, Goto, Inv, TypeOK
    <2> QED BY <2>1, <2>2
  <1>7. Uncounted(f)' \subseteq Uncounted(f) \cup {Len(outcomes) + 1} BY <1>6 DEF Uncounted
  <1>8. Ranks(n, ResultsOf(f)) \subseteq DOMAIN outcomes BY DEF Ranks
  <1> QED BY <1>4, <1>5, <1>7, <1>8 DEF Counted

\* What bounds the counts, when nothing is counted.
LEMMA NothingCounted ==
    ASSUME TypeOK, TypeOK', CountsBounded,
           \A f \in Fields, n \in Names : Counted(f, n) \subseteq Counted(f, n)',
           \A s \in Stores, f \in Fields, n \in Names :
              Tally(store'[s], f)[n] <= Tally(store[s], f)[n]
    PROVE  CountsBounded'
  <1> SUFFICES ASSUME NEW w \in Workers, NEW f \in Fields, NEW n \in Names
               PROVE  Tally(store'[Shared], f)[n] + Tally(store'[w], f)[n] <= Cardinality(Counted(f, n)')
    BY DEF CountsBounded, Tally
  <1>1. w \in Stores /\ Shared \in Stores BY DEF Stores
  <1>2. /\ Tally(store[Shared], f)[n] \in Nat /\ Tally(store[w], f)[n] \in Nat
        /\ Tally(store'[Shared], f)[n] \in Nat /\ Tally(store'[w], f)[n] \in Nat
    BY <1>1, TallyFacts DEF TypeOK
  <1>3. Tally(store[Shared], f)[n] + Tally(store[w], f)[n] <= Cardinality(Counted(f, n))
    BY DEF CountsBounded
  <1>4. outcomes' \in Seq(Outcome) BY DEF TypeOK
  <1>5. Counted(f, n)' \subseteq DOMAIN outcomes' BY DEF Counted, Ranks
  <1>6. IsFiniteSet(Counted(f, n)') BY <1>4, <1>5, PlacesAreFinite
  <1>8. /\ Cardinality(Counted(f, n)) <= Cardinality(Counted(f, n)')
        /\ Cardinality(Counted(f, n)) \in Nat /\ Cardinality(Counted(f, n)') \in Nat
    BY <1>6, CountedMore
  <1>9. /\ Tally(store'[Shared], f)[n] <= Tally(store[Shared], f)[n]
        /\ Tally(store'[w], f)[n] <= Tally(store[w], f)[n]
    BY <1>1
  <1> QED BY <1>2, <1>3, <1>8, <1>9

\* A thread that counts its outcome leaves one outcome less to count.
LEMMA OneCounted ==
    ASSUME Inv, TypeOK', OwnOutcomes, CountsBounded, UNCHANGED <<outcomes, of>>,
           NEW t \in Threads, NEW g \in Fields, NEW place,
           pc[t] \in Before(g), of[t] \in Ranks(Name(t), ResultsOf(g)),
           pc' = [pc EXCEPT ![t] = place], place \notin Before(g),
           \A f \in Fields : place \in Before(f) => pc[t] \in Before(f),
           NEW s \in Stores,
           \A x \in Stores, f \in Fields, n \in Names :
              (x # s \/ f # g \/ n # Name(t)) => Tally(store'[x], f)[n] = Tally(store[x], f)[n],
           Tally(store'[s], g)[Name(t)] = Tally(store[s], g)[Name(t)] + 1
    PROVE  CountsBounded'
  <1> SUFFICES ASSUME NEW w \in Workers, NEW f \in Fields, NEW n \in Names
               PROVE  Tally(store'[Shared], f)[n] + Tally(store'[w], f)[n] <= Cardinality(Counted(f, n)')
    BY DEF CountsBounded, Tally
  <1>1. w \in Stores /\ Shared \in Stores /\ w # Shared BY WorkerAssumption DEF Stores
  <1>2. \A u \in Threads : pc'[u] \in Before(f) => pc[u] \in Before(f) /\ of'[u] = of[u]
    BY DEF Inv, TypeOK
  <1>3. Counted(f, n) \subseteq Counted(f, n)' BY <1>2, MovesOn
  <1>4. IsFiniteSet(Counted(f, n)')
    <2>1. outcomes' \in Seq(Outcome) BY DEF TypeOK
    <2>2. Counted(f, n)' \subseteq DOMAIN outcomes' BY DEF Counted, Ranks
    <2> QED BY <2>1, <2>2, PlacesAreFinite
  <1>5. /\ Cardinality(Counted(f, n)) <= Cardinality(Counted(f, n)')
        /\ Cardinality(Counted(f, n)) \in Nat /\ Cardinality(Counted(f, n)') \in Nat
        /\ \A x \in Counted(f, n)' : x \notin Counted(f, n) =>
              Cardinality(Counted(f, n)) + 1 <= Cardinality(Counted(f, n)')
    BY <1>3, <1>4, CountedMore
  <1>6. Tally(store[Shared], f)[n] + Tally(store[w], f)[n] <= Cardinality(Counted(f, n))
    BY DEF CountsBounded
  <1>7. Tally(store[Shared], f)[n] \in Nat /\ Tally(store[w], f)[n] \in Nat
    BY <1>1, TallyFacts DEF Inv, TypeOK
  <1>8. CASE f = g /\ n = Name(t)
    <2>1. of[t] \notin Counted(f, n) BY <1>8 DEF Counted, Uncounted
    <2>2. of[t] \in Counted(f, n)'
      <3>1. ASSUME NEW u \in Threads, pc'[u] \in Before(g), of'[u] = of[t] PROVE FALSE
        <4>1. u # t BY <3>1 DEF Inv, TypeOK
        <4>2. pc[u] \in Before(g) /\ of[u] = of[t] BY <1>2, <1>8, <3>1
        <4>3. pc[u] # "idle" /\ pc[t] # "idle" BY <4>2, FieldFacts
        <4> QED BY <4>1, <4>2, <4>3 DEF OwnOutcomes
      <3>2. of[t] \notin Uncounted(g)' BY <3>1 DEF Uncounted
      <3>3. of[t] \in Ranks(n, ResultsOf(f))' BY <1>8 DEF Ranks, ResultsOf
      <3> QED BY <1>8, <3>2, <3>3 DEF Counted
    <2>3. Cardinality(Counted(f, n)) + 1 <= Cardinality(Counted(f, n)') BY <1>5, <2>1, <2>2
    <2>4. /\ \A x \in Stores : x # s => Tally(store'[x], f)[n] = Tally(store[x], f)[n]
          /\ Tally(store'[s], f)[n] = Tally(store[s], f)[n] + 1
      BY <1>8
    <2>5. Tally(store'[Shared], f)[n] + Tally(store'[w], f)[n]
             <= Tally(store[Shared], f)[n] + Tally(store[w], f)[n] + 1
      <3>1. CASE s = Shared BY <1>1, <1>7, <2>4, <3>1
      <3>2. CASE s = w BY <1>1, <1>7, <2>4, <3>2
      <3>3. CASE s # Shared /\ s # w BY <1>1, <1>7, <2>4, <3>3
      <3> QED BY <3>1, <3>2, <3>3
    <2>6. Tally(store'[Shared], f)[n] \in Nat /\ Tally(store'[w], f)[n] \in Nat
      BY <1>1, TallyFacts DEF TypeOK
    <2> QED BY <1>5, <1>6, <1>7, <2>3, <2>5, <2>6
  <1>9. CASE f # g \/ n # Name(t)
    <2>1. /\ Tally(store'[Shared], f)[n] = Tally(store[Shared], f)[n]
          /\ Tally(store'[w], f)[n] = Tally(store[w], f)[n]
      BY <1>1, <1>9
    <2> QED BY <1>5, <1>6, <1>7, <2>1
  <1> QED BY <1>8, <1>9

\* A scrape keeps its bounds while counters rise and outcomes happen.
LEMMA ScrapeKept ==
    ASSUME TypeOK, TypeOK', NEW w \in Workers, ScrapeInv(w),
           UNCHANGED <<scrape[w], view[w], floor[w]>>,
           \A f \in Fields, n \in Names :
              /\ Tally(store[Shared], f)[n] <= Tally(store'[Shared], f)[n]
              /\ Tally(store[w], f)[n] <= Tally(store'[w], f)[n]
              /\ Ranks(n, ResultsOf(f)) \subseteq Ranks(n, ResultsOf(f))'
    PROVE  ScrapeInv(w)'
  <1> SUFFICES ASSUME NEW f \in Fields, NEW n \in Names
               PROVE  LET shared == Tally(store'[Shared], f)[n]
                          own == Tally(store'[w], f)[n]
                          low == Tally(floor[w], f)[n]
                          read == Tally(view[w], f)[n]
                      IN  /\ scrape[w] # "done" => read <= shared
                          /\ scrape[w] \in Unread(f) => low <= shared + own
                          /\ scrape[w] \in HasRead(f) => low <= read + own
                          /\ scrape[w] = "done" =>
                                low <= read /\ read <= Cardinality(Ranks(n, ResultsOf(f))')
    BY DEF ScrapeInv, Tally, Unread, HasRead
  <1>1. w \in Stores /\ Shared \in Stores BY DEF Stores
  <1>2. /\ Tally(store[Shared], f)[n] \in Nat /\ Tally(store[w], f)[n] \in Nat
        /\ Tally(store'[Shared], f)[n] \in Nat /\ Tally(store'[w], f)[n] \in Nat
        /\ Tally(floor[w], f)[n] \in Nat /\ Tally(view[w], f)[n] \in Nat
    BY <1>1, TallyFacts DEF TypeOK
  <1>3. /\ Cardinality(Ranks(n, ResultsOf(f))) <= Cardinality(Ranks(n, ResultsOf(f))')
        /\ Cardinality(Ranks(n, ResultsOf(f))) \in Nat
        /\ Cardinality(Ranks(n, ResultsOf(f))') \in Nat
    <2>1. outcomes' \in Seq(Outcome) BY DEF TypeOK
    <2>2. Ranks(n, ResultsOf(f))' \subseteq DOMAIN outcomes' BY DEF Ranks
    <2>3. IsFiniteSet(Ranks(n, ResultsOf(f))') BY <2>1, <2>2, PlacesAreFinite
    <2> QED BY <2>3, CountedMore
  <1>4. /\ Tally(store[Shared], f)[n] <= Tally(store'[Shared], f)[n]
        /\ Tally(store[w], f)[n] <= Tally(store'[w], f)[n]
    OBVIOUS
  <1>5. /\ scrape[w] # "done" => Tally(view[w], f)[n] <= Tally(store[Shared], f)[n]
        /\ scrape[w] \in Unread(f) =>
              Tally(floor[w], f)[n] <= Tally(store[Shared], f)[n] + Tally(store[w], f)[n]
        /\ scrape[w] \in HasRead(f) =>
              Tally(floor[w], f)[n] <= Tally(view[w], f)[n] + Tally(store[w], f)[n]
        /\ scrape[w] = "done" => /\ Tally(floor[w], f)[n] <= Tally(view[w], f)[n]
                                 /\ Tally(view[w], f)[n] <= Cardinality(Ranks(n, ResultsOf(f)))
    BY DEF ScrapeInv
  <1> QED BY <1>2, <1>3, <1>4, <1>5

\* A scrape's own steps.
LEMMA ScrapeStep ==
    ASSUME Inv, TypeOK', CountsBounded, NEW w \in Workers, ScrapeInv(w), Scrape(w)
    PROVE  ScrapeInv(w)'
  <1>1. UNCHANGED <<store, outcomes>>
    BY DEF Scrape, BeginScrape, SelectCounters, SelectLatency, SelectHealth, SnapshotFails,
           MergeOwn, Reply, observers
  <1>2. \A n, R : Ranks(n, R)' = Ranks(n, R) BY <1>1 DEF Ranks
  <1> SUFFICES ASSUME NEW f \in Fields, NEW n \in Names
               PROVE  LET shared == Tally(store[Shared], f)[n]
                          own == Tally(store[w], f)[n]
                          low == Tally(floor'[w], f)[n]
                          read == Tally(view'[w], f)[n]
                      IN  /\ scrape'[w] # "done" => read <= shared
                          /\ scrape'[w] \in Unread(f) => low <= shared + own
                          /\ scrape'[w] \in HasRead(f) => low <= read + own
                          /\ scrape'[w] = "done" =>
                                low <= read /\ read <= Cardinality(Ranks(n, ResultsOf(f)))
    BY <1>1, <1>2 DEF ScrapeInv, Tally, Unread, HasRead, ResultsOf
  <1> DEFINE shared == Tally(store[Shared], f)[n]
             own == Tally(store[w], f)[n]
             low == Tally(floor[w], f)[n]
             read == Tally(view[w], f)[n]
  <1>3. /\ store[Shared] \in Contents /\ store[w] \in Contents
        /\ view[w] \in Contents /\ floor[w] \in Contents
    BY DEF Inv, TypeOK, Stores
  <1>4. shared \in Nat /\ own \in Nat /\ low \in Nat /\ read \in Nat BY <1>3, TallyFacts
  <1>5. /\ scrape[w] # "done" => read <= shared
        /\ scrape[w] \in Unread(f) => low <= shared + own
        /\ scrape[w] \in HasRead(f) => low <= read + own
    BY DEF ScrapeInv
  <1>6. shared + own <= Cardinality(Ranks(n, ResultsOf(f)))
        /\ Cardinality(Ranks(n, ResultsOf(f))) \in Nat
    <2>1. shared + own <= Cardinality(Counted(f, n)) BY DEF CountsBounded
    <2>2. Counted(f, n) \subseteq Ranks(n, ResultsOf(f)) BY DEF Counted
    <2>3. outcomes \in Seq(Outcome) /\ Ranks(n, ResultsOf(f)) \subseteq DOMAIN outcomes
      BY DEF Inv, TypeOK, Ranks
    <2>4. IsFiniteSet(Ranks(n, ResultsOf(f))) BY <2>3, PlacesAreFinite
    <2>5. /\ Cardinality(Counted(f, n)) \in Nat /\ Cardinality(Ranks(n, ResultsOf(f))) \in Nat
          /\ Cardinality(Counted(f, n)) <= Cardinality(Ranks(n, ResultsOf(f)))
      BY <2>2, <2>4, CountedMore
    <2> HIDE DEF shared, own
    <2> QED BY <1>4, <2>1, <2>5
  <1>7. CASE BeginScrape(w)
    <2>1. scrape'[w] = "counters" /\ view'[w] = Empty
          /\ floor'[w] = Merged(store[Shared], store[w])
      BY <1>7 DEF BeginScrape, ScrapeTo, Inv, TypeOK
    <2>2. Tally(view'[w], f)[n] = 0 /\ Tally(floor'[w], f)[n] = shared + own
      BY <1>3, <2>1, TallyFacts
    <2> QED BY <1>4, <2>1, <2>2 DEF HasRead
  <1>8. CASE SelectCounters(w)
    <2>1. /\ scrape[w] = "counters" /\ scrape'[w] = "latency" /\ floor'[w] = floor[w]
          /\ view'[w] = [view[w] EXCEPT !.requests = store[Shared].requests,
                                        !.errors = store[Shared].errors]
      BY <1>8 DEF SelectCounters, ScrapeTo, observers, Inv, TypeOK
    <2>2. /\ view'[w].requests = store[Shared].requests /\ view'[w].errors = store[Shared].errors
          /\ view'[w].observed = view[w].observed
      BY <1>3, <2>1 DEF Contents
    <2>3. CASE f = "observed"
      <3>1. Tally(view'[w], f)[n] = read BY <2>2, <2>3 DEF Tally
      <3>2. low <= shared + own /\ read <= shared BY <1>5, <2>1, <2>3 DEF Unread
      <3> QED BY <2>1, <2>3, <3>1, <3>2 DEF HasRead
    <2>4. CASE f # "observed"
      <3>1. Tally(view'[w], f)[n] = shared BY <2>2, <2>4, FieldFacts DEF Tally
      <3>2. low <= shared + own BY <1>5, <2>1, <2>4 DEF Unread
      <3> QED BY <1>4, <2>1, <2>4, <3>1, <3>2 DEF Unread
    <2> QED BY <2>3, <2>4
  <1>9. CASE SelectLatency(w)
    <2>1. /\ scrape[w] = "latency" /\ scrape'[w] = "health" /\ floor'[w] = floor[w]
          /\ view'[w] = [view[w] EXCEPT !.observed = store[Shared].observed]
      BY <1>9 DEF SelectLatency, ScrapeTo, observers, Inv, TypeOK
    <2>2. /\ view'[w].requests = view[w].requests /\ view'[w].errors = view[w].errors
          /\ view'[w].observed = store[Shared].observed
      BY <1>3, <2>1 DEF Contents
    <2>3. CASE f = "observed"
      <3>1. Tally(view'[w], f)[n] = shared BY <2>2, <2>3 DEF Tally
      <3>2. low <= shared + own BY <1>5, <2>1, <2>3 DEF Unread
      <3> QED BY <1>4, <2>1, <2>3, <3>1, <3>2 DEF Unread
    <2>4. CASE f # "observed"
      <3>1. Tally(view'[w], f)[n] = read BY <2>2, <2>4, FieldFacts DEF Tally
      <3>2. low <= read + own /\ read <= shared BY <1>5, <2>1, <2>4 DEF HasRead
      <3> QED BY <1>4, <2>1, <2>4, <3>1, <3>2 DEF Unread
    <2> QED BY <2>3, <2>4
  <1>10. CASE SelectHealth(w)
    <2>1. /\ scrape[w] = "health" /\ scrape'[w] = "own" /\ floor'[w] = floor[w]
          /\ view'[w] = [view[w] EXCEPT !.health = store[Shared].health]
      BY <1>10 DEF SelectHealth, ScrapeTo, observers, Inv, TypeOK
    <2>2. /\ view'[w].requests = view[w].requests /\ view'[w].errors = view[w].errors
          /\ view'[w].observed = view[w].observed
      BY <1>3, <2>1 DEF Contents
    <2>3. Tally(view'[w], f)[n] = read BY <2>2 DEF Tally
    <2>4. low <= read + own /\ read <= shared BY <1>5, <2>1 DEF HasRead
    <2> QED BY <2>1, <2>3, <2>4 DEF Unread
  <1>11. CASE SnapshotFails(w)
    <2>1. scrape'[w] = "own" /\ view'[w] = Empty /\ floor'[w] = store[w]
      BY <1>11 DEF SnapshotFails, ScrapeTo, Inv, TypeOK
    <2>2. Tally(view'[w], f)[n] = 0 /\ Tally(floor'[w], f)[n] = own BY <2>1, TallyFacts
    <2> QED BY <1>4, <2>1, <2>2 DEF Unread
  <1>12. CASE MergeOwn(w)
    <2>1. /\ scrape[w] = "own" /\ scrape'[w] = "done" /\ floor'[w] = floor[w]
          /\ view'[w] = Merged(view[w], store[w])
      BY <1>12 DEF MergeOwn, ScrapeTo, observers, Inv, TypeOK
    <2>2. Tally(view'[w], f)[n] = read + own BY <1>3, <2>1, TallyFacts
    <2>3. low <= read + own /\ read <= shared BY <1>5, <2>1 DEF HasRead
    <2> QED BY <1>4, <1>6, <2>1, <2>2, <2>3 DEF Unread, HasRead
  <1>13. CASE Reply(w)
    <2>1. scrape'[w] = "idle" /\ view'[w] = Empty BY <1>13 DEF Reply, ScrapeTo, Inv, TypeOK
    <2>2. Tally(view'[w], f)[n] = 0 BY <2>1, TallyFacts
    <2> QED BY <1>4, <2>1, <2>2 DEF Unread, HasRead
  <1> QED BY <1>7, <1>8, <1>9, <1>10, <1>11, <1>12, <1>13 DEF Scrape

\* Threads that record nothing new keep their outcomes apart.
LEMMA OwnKept ==
    ASSUME OwnOutcomes, UNCHANGED outcomes,
           \A u \in Threads :
              \/ pc'[u] = "idle"
              \/ /\ pc[u] # "idle" /\ of'[u] = of[u]
                 /\ pc'[u] = "errors" => pc[u] = "errors" \/ ~Ok(u)
    PROVE  OwnOutcomes'
  <1>1. \A u \in Threads : of'[u] = of[u] => Ok(u)' = Ok(u) BY DEF Ok
  <1>2. ASSUME NEW t \in Threads, NEW u \in Threads, pc'[t] # "idle", pc'[u] # "idle", of'[t] = of'[u]
        PROVE  t = u
    BY <1>2 DEF OwnOutcomes
  <1>3. ASSUME NEW t \in Threads, pc'[t] = "errors" PROVE ~Ok(t)'
    <2>1. pc'[t] # "idle" BY <1>3
    <2>2. of'[t] = of[t] /\ (pc[t] = "errors" \/ ~Ok(t)) BY <1>3, <2>1
    <2>3. ~Ok(t) BY <2>2 DEF OwnOutcomes
    <2> QED BY <1>1, <2>2, <2>3
  <1> QED BY <1>2, <1>3 DEF OwnOutcomes

\* A step that counts nothing, and begins nothing.
LEMMA NoCount ==
    ASSUME Inv, TypeOK', OwnOutcomes, CountsBounded, UNCHANGED outcomes,
           \A u \in Threads :
              \/ pc'[u] = "idle" \/ pc'[u] = "own" \/ pc'[u] = "health"
              \/ pc'[u] = pc[u],
           \A u \in Threads : pc'[u] # "idle" => pc[u] # "idle" /\ of'[u] = of[u],
           \A s \in Stores, f \in Fields, n \in Names :
              Tally(store'[s], f)[n] <= Tally(store[s], f)[n]
    PROVE  OwnOutcomes' /\ CountsBounded'
  <1>1. OwnOutcomes' BY OwnKept
  <1>2. \A f : \A u \in Threads : pc'[u] \in Before(f) => pc[u] \in Before(f) /\ of'[u] = of[u]
    BY FieldFacts
  <1>3. \A f \in Fields, n \in Names : Counted(f, n) \subseteq Counted(f, n)'
    BY <1>2, MovesOn
  <1> QED BY <1>1, <1>3, NothingCounted DEF Inv

LEMMA BoundedInit == Init => Bounded
  <1> SUFFICES ASSUME Init PROVE Bounded OBVIOUS
  <1>1. OwnOutcomes BY DEF Init, OwnOutcomes
  <1>2. \A f \in Fields, n \in Names : Counted(f, n) = Ranks(n, ResultsOf(f))
    <2>1. \A f : Uncounted(f) = {} BY FieldFacts DEF Init, Uncounted
    <2> QED BY <2>1 DEF Counted
  <1>3. outcomes \in Seq(Outcome) BY NameAssumption DEF Init
  <1>4. ASSUME NEW f \in Fields, NEW n \in Names
        PROVE  /\ Tally(store[Shared], f)[n] = Cardinality(Ranks(n, ResultsOf(f)))
               /\ \A w \in Workers : Tally(store[w], f)[n] = 0
               /\ \A w \in Workers : Tally(view[w], f)[n] = 0
               /\ Tally(store[Shared], f)[n] \in Nat
    <2>1. /\ store[Shared] = TrueContents /\ \A w \in Workers : store[w] = Empty
          /\ \A w \in Workers : view[w] = Empty
      BY WorkerAssumption DEF Init, Stores
    <2>2. Tally(TrueContents, f)[n] = Cardinality(Ranks(n, ResultsOf(f)))
      BY FieldFacts DEF Tally, TrueContents, ResultsOf
    <2>3. Cardinality(Ranks(n, ResultsOf(f))) \in Nat BY <1>3, RanksFinite
    <2> QED BY <2>1, <2>2, <2>3, TallyFacts
  <1>5. CountsBounded BY <1>2, <1>4 DEF CountsBounded
  <1>6. ASSUME NEW w \in Workers PROVE ScrapeInv(w)
    <2>1. scrape[w] = "idle" BY DEF Init
    <2> QED BY <1>4, <2>1 DEF ScrapeInv, Unread, HasRead
  <1> QED BY <1>1, <1>5, <1>6 DEF Bounded

\* A thread counts its outcome.
LEMMA CountStep ==
    ASSUME Inv, TypeOK', Bounded, NEW t \in Threads,
           CountRequest(t) \/ CountError(t) \/ Observe(t)
    PROVE  Bounded'
  <1>1. /\ UNCHANGED <<outcomes, of, scrape, view, floor>> /\ pc[t] # "idle"
        /\ Name(t) \in Names /\ Ok(t) \in BOOLEAN
    BY ThreadFacts DEF CountRequest, CountError, Observe, observers, Inv
  <1>2. PICK g \in Fields, s \in Stores, place \in RecordPlaces :
           /\ pc' = [pc EXCEPT ![t] = place]
           /\ \/ g = "requests" /\ store' = [store EXCEPT ![s].requests[Name(t)] = @ + 1]
              \/ g = "errors" /\ store' = [store EXCEPT ![s].errors[Name(t)] = @ + 1]
              \/ g = "observed" /\ store' = [store EXCEPT ![s].observed[Name(t)] = @ + 1]
           /\ pc[t] \in Before(g) /\ place \notin Before(g)
           /\ \A f \in Fields : place \in Before(f) => pc[t] \in Before(f)
           /\ place = "errors" => ~Ok(t)
           /\ g = "errors" => ~Ok(t)
    <2>1. CASE CountRequest(t)
      <3> DEFINE place == IF Ok(t) THEN "latency" ELSE "errors"
      <3>1. PICK s \in Stores : store' = [store EXCEPT ![s].requests[Name(t)] = @ + 1]
        BY <2>1 DEF CountRequest
      <3>2. pc' = [pc EXCEPT ![t] = place] /\ pc[t] = "requests" BY <2>1 DEF CountRequest, Goto
      <3>3. place = "latency" \/ (place = "errors" /\ ~Ok(t)) OBVIOUS
      <3>4. "requests" \in Fields /\ place \in RecordPlaces BY <3>3 DEF Fields, RecordPlaces
      <3>5. pc[t] \in Before("requests") /\ place \notin Before("requests")
            /\ \A f \in Fields : pc[t] \in Before(f)
        BY <3>2, <3>3 DEF Before, Fields
      <3> HIDE DEF place
      <3> QED BY <3>1, <3>2, <3>3, <3>4, <3>5
    <2>2. CASE CountError(t)
      <3>1. PICK s \in Stores : store' = [store EXCEPT ![s].errors[Name(t)] = @ + 1]
        BY <2>2 DEF CountError
      <3>2. pc' = [pc EXCEPT ![t] = "latency"] /\ pc[t] = "errors" BY <2>2 DEF CountError, Goto
      <3>3. ~Ok(t) BY <3>2 DEF Bounded, OwnOutcomes
      <3>4. "errors" \in Fields /\ "latency" \in RecordPlaces BY DEF Fields, RecordPlaces
      <3>5. pc[t] \in Before("errors") /\ "latency" \notin Before("errors")
            /\ \A f \in Fields : "latency" \in Before(f) => pc[t] \in Before(f)
        BY <3>2 DEF Before, Fields
      <3> QED BY <3>1, <3>2, <3>3, <3>4, <3>5
    <2>3. CASE Observe(t)
      <3> DEFINE place == IF Ok(t) THEN "health" ELSE "snapshot"
      <3>1. PICK s \in Stores : store' = [store EXCEPT ![s].observed[Name(t)] = @ + 1]
        BY <2>3 DEF Observe
      <3>2. pc' = [pc EXCEPT ![t] = place] /\ pc[t] = "latency" BY <2>3 DEF Observe, Goto
      <3>3. place = "health" \/ place = "snapshot" OBVIOUS
      <3>4. "observed" \in Fields /\ place \in RecordPlaces BY <3>3 DEF Fields, RecordPlaces
      <3>5. pc[t] \in Before("observed") /\ \A f : place \notin Before(f)
        BY <3>2, <3>3, FieldFacts DEF Before
      <3> HIDE DEF place
      <3> QED BY <3>1, <3>2, <3>3, <3>4, <3>5
    <2> QED BY <2>1, <2>2, <2>3
  <1>3. /\ \A x \in Stores, f \in Fields, n \in Names :
              (x # s \/ f # g \/ n # Name(t)) => Tally(store'[x], f)[n] = Tally(store[x], f)[n]
        /\ Tally(store'[s], g)[Name(t)] = Tally(store[s], g)[Name(t)] + 1
    <2>1. TypeOK BY DEF Inv
    <2> QED BY <1>1, <1>2, <2>1, CountFacts
  <1>4. of[t] \in Ranks(Name(t), ResultsOf(g))
    <2>1. of[t] \in DOMAIN outcomes BY <1>1 DEF Inv, Recording
    <2>2. outcomes[of[t]].name = Name(t) /\ outcomes[of[t]].ok \in ResultsOf(g)
      BY <1>1, <1>2 DEF Name, Ok, ResultsOf
    <2> QED BY <2>1, <2>2 DEF Ranks
  <1>5. CountsBounded'
    <2>1. OwnOutcomes /\ CountsBounded BY DEF Bounded
    <2> QED BY <1>1, <1>2, <1>3, <1>4, <2>1, OneCounted
  <1>6. OwnOutcomes'
    <2>1. \A u \in Threads : IF u = t THEN pc'[u] = place ELSE pc'[u] = pc[u] BY <1>2 DEF Inv, TypeOK
    <2> QED BY <1>1, <1>2, <2>1, OwnKept DEF Bounded
  <1>7. ASSUME NEW w \in Workers PROVE ScrapeInv(w)'
    <2>1. \A x \in Stores, f \in Fields, n \in Names : Tally(store[x], f)[n] <= Tally(store'[x], f)[n]
      <3> SUFFICES ASSUME NEW x \in Stores, NEW f \in Fields, NEW n \in Names
                   PROVE  Tally(store[x], f)[n] <= Tally(store'[x], f)[n]
        OBVIOUS
      <3>1. Tally(store[x], f)[n] \in Nat BY TallyFacts DEF Inv, TypeOK
      <3>2. CASE x = s /\ f = g /\ n = Name(t) BY <1>3, <3>1, <3>2
      <3>3. CASE x # s \/ f # g \/ n # Name(t) BY <1>3, <3>1, <3>3
      <3> QED BY <3>2, <3>3
    <2>2. \A n, R : Ranks(n, R)' = Ranks(n, R) BY <1>1 DEF Ranks
    <2>3. \A f \in Fields, n \in Names :
             /\ Tally(store[Shared], f)[n] <= Tally(store'[Shared], f)[n]
             /\ Tally(store[w], f)[n] <= Tally(store'[w], f)[n]
             /\ Ranks(n, ResultsOf(f)) \subseteq Ranks(n, ResultsOf(f))'
      BY <2>1, <2>2 DEF Stores, ResultsOf
    <2> QED BY <1>1, <2>3, ScrapeKept DEF Inv, Bounded
  <1> QED BY <1>5, <1>6, <1>7 DEF Bounded

\* A step that lets stores, outcomes and scrapes be, counts nothing.
LEMMA NothingScraped ==
    ASSUME Inv, TypeOK', NEW w \in Workers, ScrapeInv(w),
           UNCHANGED <<scrape[w], view[w], floor[w], outcomes>>,
           \A f \in Fields : /\ Tally(store'[Shared], f) = Tally(store[Shared], f)
                             /\ Tally(store'[w], f) = Tally(store[w], f)
    PROVE  ScrapeInv(w)'
  <1>1. \A n, R : Ranks(n, R)' = Ranks(n, R) BY DEF Ranks
  <1>2. w \in Stores /\ Shared \in Stores BY DEF Stores
  <1>3. \A f \in Fields, n \in Names : /\ Tally(store[Shared], f)[n] \in Nat
                                       /\ Tally(store[w], f)[n] \in Nat
    BY <1>2, TallyFacts DEF Inv, TypeOK
  <1>4. \A f \in Fields, n \in Names :
           /\ Tally(store[Shared], f)[n] <= Tally(store'[Shared], f)[n]
           /\ Tally(store[w], f)[n] <= Tally(store'[w], f)[n]
           /\ Ranks(n, ResultsOf(f)) \subseteq Ranks(n, ResultsOf(f))'
    BY <1>1, <1>3 DEF ResultsOf
  <1> QED BY <1>4, ScrapeKept DEF Inv

\* No step counts an outcome twice, or loses one that a scrape has to report.
LEMMA BoundedStep == Inv /\ Inv' /\ Bounded /\ [Next]_vars => Bounded'
  <1> SUFFICES ASSUME Inv, Inv', Bounded, [Next]_vars PROVE Bounded' OBVIOUS
  <1>1. TypeOK /\ TypeOK' /\ OwnOutcomes /\ CountsBounded /\ \A w \in Workers : ScrapeInv(w)
    BY DEF Inv, Bounded
  <1>2. \A s \in Stores, f \in Fields, n \in Names : Tally(store[s], f)[n] \in Nat
    BY <1>1, TallyFacts DEF TypeOK
  <1>3. Shared \in Stores /\ Workers \subseteq Stores BY DEF Stores
  <1>4. ASSUME NEW t \in Threads, Begin(t) PROVE Bounded'
    <2>1. UNCHANGED <<store, scrape, view, floor>> /\ pc[t] = "idle" BY <1>4 DEF Begin
    <2>2. PICK m \in Judged, ok \in BOOLEAN : outcomes' = Append(outcomes, [name |-> m, ok |-> ok])
      BY <1>4 DEF Begin
    <2>3. [name |-> m, ok |-> ok] \in Outcome BY NameAssumption DEF Outcome
    <2>4. /\ \A i \in DOMAIN outcomes : outcomes'[i] = outcomes[i]
          /\ Len(outcomes) + 1 \notin DOMAIN outcomes
      BY <1>1, <2>2, <2>3 DEF TypeOK
    <2>5. /\ pc'[t] = "requests" /\ of'[t] = Len(outcomes) + 1
          /\ \A u \in Threads : u # t => pc'[u] = pc[u] /\ of'[u] = of[u]
      BY <1>1, <1>4 DEF Begin, Goto, TypeOK
    <2>6. \A u \in Threads : pc[u] # "idle" => of[u] \in DOMAIN outcomes BY DEF Inv, Recording
    <2>7. OwnOutcomes'
      <3>1. ASSUME NEW u \in Threads, NEW v \in Threads,
                   pc'[u] # "idle", pc'[v] # "idle", of'[u] = of'[v]
            PROVE  u = v
        BY <1>1, <2>4, <2>5, <2>6, <3>1 DEF OwnOutcomes
      <3>2. ASSUME NEW u \in Threads, pc'[u] = "errors" PROVE ~Ok(u)'
        <4>1. u # t /\ pc[u] = "errors" /\ of'[u] = of[u] BY <2>5, <3>2
        <4>2. ~Ok(u) /\ of[u] \in DOMAIN outcomes BY <1>1, <2>6, <4>1 DEF OwnOutcomes
        <4>3. Ok(u)' = Ok(u) BY <2>4, <4>1, <4>2 DEF Ok
        <4> QED BY <4>2, <4>3
      <3> QED BY <3>1, <3>2 DEF OwnOutcomes
    <2>8. CountsBounded'
      <3>1. \A f \in Fields, n \in Names : Counted(f, n) \subseteq Counted(f, n)'
        BY <1>4, BeginCounted
      <3>2. \A s \in Stores, f \in Fields, n \in Names :
               Tally(store'[s], f)[n] <= Tally(store[s], f)[n]
        BY <1>2, <2>1
      <3> QED BY <1>1, <3>1, <3>2, NothingCounted
    <2>9. ASSUME NEW w \in Workers PROVE ScrapeInv(w)'
      <3>1. \A f \in Fields, n \in Names :
               /\ Tally(store[Shared], f)[n] <= Tally(store'[Shared], f)[n]
               /\ Tally(store[w], f)[n] <= Tally(store'[w], f)[n]
               /\ Ranks(n, ResultsOf(f)) \subseteq Ranks(n, ResultsOf(f))'
        BY <1>2, <1>3, <1>4, <2>1, BeginCounted
      <3> QED BY <1>1, <2>1, <3>1, ScrapeKept
    <2> QED BY <2>7, <2>8, <2>9 DEF Bounded
  <1>5. ASSUME NEW t \in Threads, CountRequest(t) \/ CountError(t) \/ Observe(t) PROVE Bounded'
    BY <1>1, <1>5, CountStep
  <1>6. ASSUME NEW t \in Threads, ReadShared(t) \/ ReadOwn(t) \/ SetHealth(t) PROVE Bounded'
    <2>1. UNCHANGED <<outcomes, scrape, view, floor>> /\ pc[t] # "idle"
      BY <1>6 DEF ReadShared, ReadOwn, SetHealth, observers
    <2>2. \A u \in Threads :
             /\ pc'[u] = "idle" \/ pc'[u] = "own" \/ pc'[u] = "health" \/ pc'[u] = pc[u]
             /\ pc'[u] # "idle" => pc[u] # "idle" /\ of'[u] = of[u]
      BY <1>1, <1>6 DEF ReadShared, ReadOwn, SetHealth, Goto, TypeOK
    <2>3. \A s \in Stores, f \in Fields : Tally(store'[s], f) = Tally(store[s], f)
      <3>1. CASE UNCHANGED store BY <3>1
      <3>2. CASE SetHealth(t)
        <4>1. PICK s \in Stores : store' = [store EXCEPT ![s].health[Name(t)] = NewRow(t)]
          BY <3>2 DEF SetHealth
        <4>2. Name(t) \in Names /\ NewRow(t) \in Row
          BY <2>1, ThreadFacts, NewRowFacts DEF Inv
        <4> QED BY <1>1, <4>1, <4>2, HealthCountsNothing
      <3> QED BY <1>6, <3>1, <3>2 DEF ReadShared, ReadOwn
    <2>4. \A s \in Stores, f \in Fields, n \in Names :
             Tally(store'[s], f)[n] <= Tally(store[s], f)[n]
      BY <1>2, <2>3
    <2>5. OwnOutcomes' /\ CountsBounded' BY <1>1, <2>1, <2>2, <2>4, NoCount
    <2>6. ASSUME NEW w \in Workers PROVE ScrapeInv(w)'
      BY <1>1, <1>3, <2>1, <2>3, NothingScraped
    <2> QED BY <2>5, <2>6 DEF Bounded
  <1>7. ASSUME NEW w \in Workers, Scrape(w) PROVE Bounded'
    <2>1. /\ UNCHANGED <<store, pc, of, outcomes>>
          /\ \A v \in Workers : v # w => UNCHANGED <<scrape[v], view[v], floor[v]>>
      BY <1>1, <1>7 DEF Scrape, BeginScrape, SelectCounters, SelectLatency, SelectHealth,
                        SnapshotFails, MergeOwn, Reply, ScrapeTo, observers, TypeOK
    <2>2. \A s \in Stores, f \in Fields, n \in Names :
             Tally(store'[s], f)[n] <= Tally(store[s], f)[n]
      BY <1>2, <2>1
    <2>3. OwnOutcomes' /\ CountsBounded' BY <1>1, <2>1, <2>2, NoCount
    <2>4. ASSUME NEW v \in Workers PROVE ScrapeInv(v)'
      <3>1. CASE v = w BY <1>1, <1>7, <3>1, ScrapeStep
      <3>2. CASE v # w BY <1>1, <2>1, <3>2, NothingScraped
      <3> QED BY <3>1, <3>2
    <2> QED BY <2>3, <2>4 DEF Bounded
  <1>8. ASSUME NEW w \in Workers, Restart(w) PROVE Bounded'
    <2>1. /\ UNCHANGED outcomes
          /\ \A u \in Threads : pc'[u] = "idle" \/ (pc'[u] = pc[u] /\ of'[u] = of[u])
          /\ store'[w] = Empty /\ \A s \in Stores : s # w => store'[s] = store[s]
          /\ scrape'[w] = "idle" /\ view'[w] = Empty
          /\ \A v \in Workers : v # w => UNCHANGED <<scrape[v], view[v], floor[v]>>
      BY <1>1, <1>3, <1>8 DEF Restart, ScrapeTo, TypeOK
    <2>2. Shared # w BY WorkerAssumption
    <2>3. \A s \in Stores, f \in Fields, n \in Names :
             Tally(store'[s], f)[n] <= Tally(store[s], f)[n]
      <3> SUFFICES ASSUME NEW s \in Stores, NEW f \in Fields, NEW n \in Names
                   PROVE  Tally(store'[s], f)[n] <= Tally(store[s], f)[n]
        OBVIOUS
      <3>1. Tally(Empty, f)[n] = 0 /\ Tally(store[s], f)[n] \in Nat BY <1>2, TallyFacts
      <3>2. store'[s] = Empty \/ store'[s] = store[s] BY <2>1
      <3> QED BY <3>1, <3>2
    <2>4. OwnOutcomes' /\ CountsBounded'
      <3>1. \A u \in Threads : pc'[u] # "idle" => pc[u] # "idle" /\ of'[u] = of[u] BY <2>1
      <3>2. \A u \in Threads :
               pc'[u] = "idle" \/ pc'[u] = "own" \/ pc'[u] = "health" \/ pc'[u] = pc[u]
        BY <2>1
      <3> QED BY <1>1, <2>1, <2>3, <3>1, <3>2, NoCount
    <2>5. ASSUME NEW v \in Workers PROVE ScrapeInv(v)'
      <3>1. CASE v # w
        BY <1>1, <1>3, <2>1, <2>2, <3>1, NothingScraped
      <3>2. CASE v = w
        <4>1. \A f \in Fields, n \in Names :
                 Tally(view'[w], f)[n] = 0 /\ Tally(store'[Shared], f)[n] \in Nat
          BY <1>2, <1>3, <2>1, <2>2, TallyFacts
        <4>2. \A f \in Fields, n \in Names : Tally(view'[w], f)[n] <= Tally(store'[Shared], f)[n]
          BY <4>1
        <4> QED BY <2>1, <3>2, <4>2 DEF ScrapeInv, Tally, Unread, HasRead
      <3> QED BY <3>1, <3>2
    <2> QED BY <2>4, <2>5 DEF Bounded
  <1>9. CASE UNCHANGED vars
    <2>1. UNCHANGED <<store, pc, of, outcomes, scrape, view, floor>> BY <1>9 DEF vars, observers
    <2>2. \A s \in Stores, f \in Fields, n \in Names :
             Tally(store'[s], f)[n] <= Tally(store[s], f)[n]
      BY <1>2, <2>1
    <2>3. OwnOutcomes' /\ CountsBounded' BY <1>1, <2>1, <2>2, NoCount
    <2>4. ASSUME NEW v \in Workers PROVE ScrapeInv(v)' BY <1>1, <2>1, NothingScraped
    <2> QED BY <2>3, <2>4 DEF Bounded
  <1> QED BY <1>4, <1>5, <1>6, <1>7, <1>8, <1>9, ScrapedAssumption DEF Next, Record

\* Through whatever fallbacks, restarts and scrapes, the file and a process's own
\* store never count an outcome twice between them.
LEMMA BoundedInvariance == Spec => []Bounded
  <1> QED BY BoundedInit, BoundedStep, Invariance, PTL DEF Spec

\* A reply reports no more than happened, and no less than what had been
\* recorded, in the file or in the process that replies, when it began.
THEOREM ScrapesAreBounded == Spec => []ScrapeIsBounded
  <1>1. Bounded => ScrapeIsBounded
    <2> SUFFICES ASSUME Bounded, NEW w \in Workers, scrape[w] = "done"
                 PROVE  /\ Between(floor[w].requests, view[w].requests, BOOLEAN)
                        /\ Between(floor[w].errors, view[w].errors, {FALSE})
                        /\ Between(floor[w].observed, view[w].observed, BOOLEAN)
      BY DEF ScrapeIsBounded
    <2>1. \A f \in Fields, n \in Names :
             /\ Tally(floor[w], f)[n] <= Tally(view[w], f)[n]
             /\ Tally(view[w], f)[n] <= Cardinality(Ranks(n, ResultsOf(f)))
      BY DEF Bounded, ScrapeInv
    <2>2. {"requests", "errors", "observed"} \subseteq Fields BY DEF Fields
    <2> QED BY <2>1, <2>2 DEF Between, Tally, ResultsOf
  <1> QED BY <1>1, BoundedInvariance, PTL

=============================================================================
