--------------------------- MODULE HealthRecords ----------------------------
(***************************************************************************)
(* What the service knows of its backends (amiweak/metrics.py over the     *)
(* ResilientStore of amiweak/store.py): request threads of several worker  *)
(* processes record the outcome of each fetch in one shared SQLite file,   *)
(* or, whenever an operation on it fails, in the memory of their process;  *)
(* /metrics and /healthz read both and merge them.                         *)
(*                                                                         *)
(* record_backend is several operations on the store, and a scrape is      *)
(* several reads: each is a step.  A time is the rank of the outcome it is *)
(* the time of, and so is an error.                                        *)
(***************************************************************************)
EXTENDS Naturals, Sequences, FiniteSets

CONSTANTS
    Workers,      \* gunicorn worker processes
    Threads,      \* their request threads
    WorkerOf,     \* the worker of each thread
    Names,        \* backends that are, or once were, recorded
    Judged,       \* those /healthz judges by: enabled checks, and zxcvbn if enabled
    Past,         \* the outcomes the shared file was left with by earlier runs
    MaxOutcomes,  \* bound: outcomes recorded, the past included
    Scraped,      \* the workers a scrape happens to reach
    MaxFaults     \* bound: operations on the shared file that fail, and restarts

Shared == "shared"
ASSUME WorkerAssumption == WorkerOf \in [Threads -> Workers] /\ Shared \notin Workers

Outcome == [name : Names, ok : BOOLEAN]
ASSUME NameAssumption == Judged \subseteq Names /\ Past \in Seq(Outcome)
ASSUME ScrapedAssumption == Scraped \subseteq Workers
ASSUME BoundAssumption == MaxOutcomes \in Nat /\ MaxFaults \in Nat

Stores == Workers \cup {Shared}

\* A row of `health`.  0 is None; a row is never written with two of them, so
\* two of them are the absence of a row.
None == 0
Row == [last_ok : Nat, last_error : Nat]
NoRow == [last_ok |-> None, last_error |-> None]

\* What a store holds, or a snapshot of it: backend_requests_total,
\* backend_errors_total, the count of `latency`, and `health`.
Contents ==
    [requests : [Names -> Nat], errors : [Names -> Nat], observed : [Names -> Nat],
     health : [Names -> Row]]
Empty ==
    LET zero == [n \in Names |-> 0]
    IN  [requests |-> zero, errors |-> zero, observed |-> zero,
         health |-> [n \in Names |-> NoRow]]

\* record_backend between its operations, and a scrape between its reads.
RecordPlaces == {"idle", "requests", "errors", "latency", "snapshot", "own", "health"}
ScrapePlaces == {"idle", "counters", "latency", "health", "own", "done"}

VARIABLES
    store,        \* the contents of each store
    faults,       \* failed operations and restarts so far
    pc,           \* where each thread is in record_backend
    of,           \* the outcome it records
    seen,         \* the row its snapshot found
    scrape,       \* where each worker is with a scrape
    view,         \* what the scrape has read; its reply, when done
    outcomes,     \* observer: every outcome, in the order they happened
    floor,        \* observer: what a scrape could see when it began
    disturbed,    \* observer: records overlapped, or a health operation failed
    quiet         \* observer: nothing went on while a scrape was made

observers == <<outcomes, floor, disturbed, quiet>>
vars == <<store, faults, pc, of, seen, scrape, view, observers>>

TypeOK ==
    /\ store \in [Stores -> Contents]
    /\ faults \in 0..MaxFaults
    /\ pc \in [Threads -> RecordPlaces]
    /\ of \in [Threads -> Nat]
    /\ seen \in [Threads -> Row]
    /\ scrape \in [Workers -> ScrapePlaces]
    /\ view \in [Workers -> Contents]
    /\ outcomes \in Seq(Outcome)
    /\ floor \in [Workers -> Contents]
    /\ disturbed \in BOOLEAN
    /\ quiet \in [Workers -> BOOLEAN]

\* The ranks of the outcomes of a backend, and the latest of a set of them.
Ranks(n, results) == {i \in DOMAIN outcomes : outcomes[i].name = n /\ outcomes[i].ok \in results}
Latest(ranks) ==
    LET last == {i \in ranks : \A j \in ranks : j <= i}
    IN  IF last = {} THEN None ELSE CHOOSE i \in last : TRUE

\* The row of a backend whose outcomes were recorded one after the other.
TrueRow(n) ==
    LET last == Latest(Ranks(n, BOOLEAN))
    IN  [last_ok |-> Latest(Ranks(n, {TRUE})),
         last_error |-> IF last \in Ranks(n, {FALSE}) THEN last ELSE None]

TrueContents ==
    [requests |-> [n \in Names |-> Cardinality(Ranks(n, BOOLEAN))],
     errors |-> [n \in Names |-> Cardinality(Ranks(n, {FALSE}))],
     observed |-> [n \in Names |-> Cardinality(Ranks(n, BOOLEAN))],
     health |-> [n \in Names |-> TrueRow(n)]]

Init ==
    /\ outcomes = Past
    /\ store = [s \in Stores |-> IF s = Shared THEN TrueContents ELSE Empty]
    /\ faults = 0
    /\ pc = [t \in Threads |-> "idle"]
    /\ of = [t \in Threads |-> None]
    /\ seen = [t \in Threads |-> NoRow]
    /\ scrape = [w \in Workers |-> "idle"]
    /\ view = [w \in Workers |-> Empty]
    /\ floor = [w \in Workers |-> Empty]
    /\ disturbed = FALSE
    /\ quiet = [w \in Workers |-> FALSE]

-----------------------------------------------------------------------------
(* record_backend. *)

Name(t) == outcomes[of[t]].name
Ok(t) == outcomes[of[t]].ok

Goto(t, place) == pc' = [pc EXCEPT ![t] = place]

\* A fetch, or a round trip to the scorer, has ended one way or the other.
Begin(t) ==
    /\ pc[t] = "idle"
    /\ Len(outcomes) < MaxOutcomes
    /\ \E n \in Judged, ok \in BOOLEAN :
          outcomes' = Append(outcomes, [name |-> n, ok |-> ok])
    /\ of' = [of EXCEPT ![t] = Len(outcomes) + 1]
    /\ disturbed' = (disturbed \/ \E u \in Threads : pc[u] # "idle")
    /\ quiet' = [w \in Workers |-> FALSE]
    /\ Goto(t, "requests")
    /\ UNCHANGED <<store, faults, seen, scrape, view, floor>>

\* One of the operations on the file raises, or a process is killed.
Fault ==
    /\ faults < MaxFaults
    /\ faults' = faults + 1

\* An operation of ResilientStore takes effect in the shared file or, when that
\* raises, in the process's own store.
Takes(t, s) ==
    \/ s = Shared /\ UNCHANGED faults
    \/ s = WorkerOf[t] /\ Fault

CountRequest(t) ==
    /\ pc[t] = "requests"
    /\ \E s \in Stores :
          /\ Takes(t, s)
          /\ store' = [store EXCEPT ![s].requests[Name(t)] = @ + 1]
    /\ Goto(t, IF Ok(t) THEN "latency" ELSE "errors")
    /\ UNCHANGED <<of, seen, scrape, view, observers>>

CountError(t) ==
    /\ pc[t] = "errors"
    /\ \E s \in Stores :
          /\ Takes(t, s)
          /\ store' = [store EXCEPT ![s].errors[Name(t)] = @ + 1]
    /\ Goto(t, "latency")
    /\ UNCHANGED <<of, seen, scrape, view, observers>>

\* Only a failure goes on to read what health was before it.
Observe(t) ==
    /\ pc[t] = "latency"
    /\ \E s \in Stores :
          /\ Takes(t, s)
          /\ store' = [store EXCEPT ![s].observed[Name(t)] = @ + 1]
    /\ Goto(t, IF Ok(t) THEN "health" ELSE "snapshot")
    /\ UNCHANGED <<of, seen, scrape, view, observers>>

\* snapshot() of the shared file.  One that fails is an empty one.
ReadShared(t) ==
    /\ pc[t] = "snapshot"
    /\ \/ /\ seen' = [seen EXCEPT ![t] = store[Shared].health[Name(t)]]
          /\ UNCHANGED <<faults, disturbed>>
       \/ /\ seen' = [seen EXCEPT ![t] = NoRow]
          /\ Fault
          /\ disturbed' = TRUE
    /\ Goto(t, "own")
    /\ UNCHANGED <<store, of, scrape, view, outcomes, floor, quiet>>

\* The merge: the process's own row shows only where the shared file has none.
MergedRow(shared, own) == IF shared = NoRow THEN own ELSE shared

ReadOwn(t) ==
    /\ pc[t] = "own"
    /\ seen' = [seen EXCEPT ![t] = MergedRow(@, store[WorkerOf[t]].health[Name(t)])]
    /\ Goto(t, "health")
    /\ UNCHANGED <<store, faults, of, scrape, view, observers>>

\* Fault: a failure is dated like a success.
AlwaysDated(t) == [last_ok |-> of[t], last_error |-> IF Ok(t) THEN None ELSE of[t]]

\* A success clears the error, a failure keeps the last_ok it found.
NewRow(t) ==
    IF Ok(t) THEN [last_ok |-> of[t], last_error |-> None]
    ELSE [last_ok |-> seen[t].last_ok, last_error |-> of[t]]

SetHealth(t) ==
    /\ pc[t] = "health"
    /\ \E s \in Stores :
          /\ Takes(t, s)
          /\ store' = [store EXCEPT ![s].health[Name(t)] = NewRow(t)]
          /\ disturbed' = (disturbed \/ s # Shared)
    /\ Goto(t, "idle")
    /\ of' = [of EXCEPT ![t] = None]
    /\ seen' = [seen EXCEPT ![t] = NoRow]
    /\ UNCHANGED <<scrape, view, outcomes, floor, quiet>>

Record(t) ==
    \/ CountRequest(t) \/ CountError(t) \/ Observe(t)
    \/ ReadShared(t) \/ ReadOwn(t) \/ SetHealth(t)

-----------------------------------------------------------------------------
(* A scrape: the three SELECTs of SqliteStore.snapshot, and the merge with  *)
(* the store of the process that happens to serve it.  /metrics reports the *)
(* counters of one and /healthz the health of one; /metrics/prometheus is a *)
(* /healthz followed by a /metrics.                                         *)

\* Fault: the counters of the process replace those of the file.
OwnCountersWin(a, b) == [n \in Names |-> IF b[n] > 0 THEN b[n] ELSE a[n]]

Plus(a, b) == [n \in Names |-> a[n] + b[n]]

Merged(shared, own) ==
    [requests |-> Plus(shared.requests, own.requests),
     errors |-> Plus(shared.errors, own.errors),
     observed |-> Plus(shared.observed, own.observed),
     health |-> [n \in Names |-> MergedRow(shared.health[n], own.health[n])]]

ScrapeTo(w, place) == scrape' = [scrape EXCEPT ![w] = place]

BeginScrape(w) ==
    /\ scrape[w] = "idle"
    /\ ScrapeTo(w, "counters")
    /\ view' = [view EXCEPT ![w] = Empty]
    /\ floor' = [floor EXCEPT ![w] = Merged(store[Shared], store[w])]
    /\ quiet' = [quiet EXCEPT ![w] = \A t \in Threads : pc[t] = "idle"]
    /\ UNCHANGED <<store, faults, pc, of, seen, outcomes, disturbed>>

SelectCounters(w) ==
    /\ scrape[w] = "counters"
    /\ view' = [view EXCEPT ![w].requests = store[Shared].requests,
                            ![w].errors = store[Shared].errors]
    /\ ScrapeTo(w, "latency")
    /\ UNCHANGED <<store, faults, pc, of, seen, observers>>

SelectLatency(w) ==
    /\ scrape[w] = "latency"
    /\ view' = [view EXCEPT ![w].observed = store[Shared].observed]
    /\ ScrapeTo(w, "health")
    /\ UNCHANGED <<store, faults, pc, of, seen, observers>>

SelectHealth(w) ==
    /\ scrape[w] = "health"
    /\ view' = [view EXCEPT ![w].health = store[Shared].health]
    /\ ScrapeTo(w, "own")
    /\ UNCHANGED <<store, faults, pc, of, seen, observers>>

\* Any of the three raises: the file counts as empty, whatever was read of it.
SnapshotFails(w) ==
    /\ scrape[w] \in {"counters", "latency", "health"}
    /\ Fault
    /\ view' = [view EXCEPT ![w] = Empty]
    /\ ScrapeTo(w, "own")
    /\ floor' = [floor EXCEPT ![w] = store[w]]
    /\ quiet' = [quiet EXCEPT ![w] = FALSE]
    /\ UNCHANGED <<store, pc, of, seen, outcomes, disturbed>>

MergeOwn(w) ==
    /\ scrape[w] = "own"
    /\ view' = [view EXCEPT ![w] = Merged(@, store[w])]
    /\ ScrapeTo(w, "done")
    /\ UNCHANGED <<store, faults, pc, of, seen, observers>>

Reply(w) ==
    /\ scrape[w] = "done"
    /\ ScrapeTo(w, "idle")
    /\ view' = [view EXCEPT ![w] = Empty]
    /\ floor' = [floor EXCEPT ![w] = Empty]
    /\ quiet' = [quiet EXCEPT ![w] = FALSE]
    /\ UNCHANGED <<store, faults, pc, of, seen, outcomes, disturbed>>

Scrape(w) ==
    \/ BeginScrape(w) \/ SelectCounters(w) \/ SelectLatency(w) \/ SelectHealth(w)
    \/ SnapshotFails(w) \/ MergeOwn(w) \/ Reply(w)

\* gunicorn replaces a worker: its threads, its scrape and its own store are
\* gone, the shared file stays.
Restart(w) ==
    LET mine == {t \in Threads : WorkerOf[t] = w}
    IN  /\ store' = [store EXCEPT ![w] = Empty]
        /\ pc' = [t \in Threads |-> IF t \in mine THEN "idle" ELSE pc[t]]
        /\ of' = [t \in Threads |-> IF t \in mine THEN None ELSE of[t]]
        /\ seen' = [t \in Threads |-> IF t \in mine THEN NoRow ELSE seen[t]]
        /\ Fault
        /\ ScrapeTo(w, "idle")
        /\ view' = [view EXCEPT ![w] = Empty]
        /\ floor' = [floor EXCEPT ![w] = Empty]
        /\ disturbed' = (disturbed \/ \E t \in mine : pc[t] # "idle")
        /\ UNCHANGED <<outcomes, quiet>>

Next ==
    \/ \E t \in Threads : Begin(t) \/ Record(t)
    \/ \E w \in Scraped : Scrape(w)
    \/ \E w \in Workers : Restart(w)

Spec == Init /\ [][Next]_vars

-----------------------------------------------------------------------------
(* What is made of a reply. *)

\* What /healthz calls degraded: one enabled backend with an error.
StatusOf(health) ==
    IF \E n \in Judged : health[n].last_error # None THEN "degraded" ELSE "ok"

\* Fault: rows left by disabled backends count as they are.
AnyRow(n, row) == row

\* /metrics/prometheus clears the errors of disabled backends first, ...
EffectiveRow(n, row) == IF n \in Judged THEN row ELSE [row EXCEPT !.last_error = None]

\* ... and then sets a gauge from each row.
Gauge(row) == IF row.last_error # None THEN 0 ELSE 1

LastFailed(n) == Latest(Ranks(n, BOOLEAN)) \in Ranks(n, {FALSE})

-----------------------------------------------------------------------------
(* What the records promise. *)

\* f lies between low and the number of outcomes of each backend.
Between(low, f, results) ==
    \A n \in Names : low[n] <= f[n] /\ f[n] <= Cardinality(Ranks(n, results))

\* "Merge both views, so counters recorded while degraded still appear": a
\* scrape reports no outcome twice, and none is missing that was recorded, in
\* the file or in the process that replies, when it began.  A file that cannot
\* be read counts as an empty one.  ResilientStore.incr, observe, snapshot.
ScrapeIsBounded ==
    \A w \in Workers : scrape[w] = "done" =>
        /\ Between(floor[w].requests, view[w].requests, BOOLEAN)
        /\ Between(floor[w].errors, view[w].errors, {FALSE})
        /\ Between(floor[w].observed, view[w].observed, BOOLEAN)

\* Each date was that of a success of that backend, each error was one of its.
HonestRow(n, row) ==
    /\ row.last_ok # None => row.last_ok \in Ranks(n, {TRUE})
    /\ row.last_error # None => row.last_error \in Ranks(n, {FALSE})

\* However rows are read, merged and written back by threads that interleave,
\* fall back and die, a reply says of no backend that it answered when it did
\* not, nor that it failed in a way it did not.  record_backend, snapshot.
HealthIsHonest ==
    \A w \in Workers : scrape[w] = "done" =>
        \A n \in Names : HonestRow(n, view[w].health[n])

\* When records were made one at a time and no health operation failed, health
\* is exact: the last success and the error of the last outcome.  Both
\* endpoints agree on it: "degraded" and a gauge of 0 are for a backend that is
\* enabled and failed last, never for what a disabled one left in the file.
QuietHealthIsExact ==
    \A w \in Workers : scrape[w] = "done" /\ quiet[w] /\ ~disturbed =>
        /\ view[w].health = [n \in Names |-> TrueRow(n)]
        /\ StatusOf(view[w].health) = "degraded" <=> \E n \in Judged : LastFailed(n)
        /\ \A n \in Names :
              Gauge(EffectiveRow(n, view[w].health[n])) = 0 <=> (n \in Judged /\ LastFailed(n))

\* "Preserves last_ok across a failure" (metrics.py:49): a row that gets an
\* error keeps its last success.
LastOkKept ==
    [][\A s \in Stores, n \in Names :
          LET old == store[s].health[n]
              new == store'[s].health[n]
          IN  old # NoRow /\ new.last_error \notin {None, old.last_error}
              => new.last_ok = old.last_ok]_vars

=============================================================================
