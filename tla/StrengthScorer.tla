--------------------------- MODULE StrengthScorer ---------------------------
(***************************************************************************)
(* The persistent Node child that scores passwords (amiweak/strength.py,   *)
(* strength_worker.js).  Request threads share one child behind a lock; a  *)
(* reader thread per child moves its output lines into a queue; a caller   *)
(* that waits too long kills the child, and a later one spawns another.    *)
(*                                                                         *)
(* A line is the request it is about and what it says.  The child reads    *)
(* its input in order, writes one line per request, and may be slow for    *)
(* ever or crash at any moment, in the middle of a line too.  Children are *)
(* numbered in the order they are spawned.                                 *)
(***************************************************************************)
EXTENDS Naturals, Sequences

CONSTANTS
    Threads,    \* request threads
    MaxCalls,   \* bound: calls to score() per thread
    MaxSpawns   \* bound: successful calls to Popen

ASSUME BoundsAssumption == MaxCalls \in Nat /\ MaxSpawns \in Nat

Children == 1..MaxSpawns
NoChild == 0
NoThread == "nobody"
ASSUME NoThreadAssumption == NoThread \notin Threads

\* A call to score(), and what the child can write about it.
Request == [thread : Threads, call : 0..MaxCalls]
Line == [of : Request, says : {"score", "error", "torn"}]

\* ScoreResult: a score, or one of the two reasons for having none.
Outcome == {"none", "score", "internal", "timeout"}

VARIABLES
    lock,      \* who holds self._lock
    pc,        \* where each thread is in score()
    calls,     \* how many calls each thread has made
    got,       \* the line the thread's call took from the queue, if any
    outcome,   \* what the thread's call returned
    process,   \* self._process
    outQueue,  \* self._out_queue, by the child it was made for
    spawned,   \* how many children there have been
    alive,     \* which of them run
    feeds,     \* the queue each child's reader thread was given
    stdin,     \* the pipe into each child
    stdout,    \* the pipe out of each child
    queue,     \* the queues, by the child they were made for
    backoff    \* _last_spawn_failure is less than _RESPAWN_BACKOFF_SECONDS ago

vars == <<lock, pc, calls, got, outcome, process, outQueue, spawned, alive,
          feeds, stdin, stdout, queue, backoff>>

callers == <<lock, pc, calls, got, outcome>>
pipes == <<stdin, stdout, queue>>

Places == {"idle", "acquire", "write", "get"}

RequestOf(t) == [thread |-> t, call |-> calls[t]]

TypeOK ==
    /\ lock \in Threads \cup {NoThread}
    /\ pc \in [Threads -> Places]
    /\ calls \in [Threads -> 0..MaxCalls]
    /\ got \in [Threads -> SUBSET Line]
    /\ outcome \in [Threads -> Outcome]
    /\ process \in Children \cup {NoChild}
    /\ outQueue \in Children \cup {NoChild}
    /\ spawned \in 0..MaxSpawns
    /\ alive \in [Children -> BOOLEAN]
    /\ feeds \in [Children -> Children]
    /\ stdin \in [Children -> Seq(Request)]
    /\ stdout \in [Children -> Seq(Line)]
    /\ queue \in [Children -> Seq(Line)]
    /\ backoff \in BOOLEAN

Init ==
    /\ lock = NoThread
    /\ pc = [t \in Threads |-> "idle"]
    /\ calls = [t \in Threads |-> 0]
    /\ got = [t \in Threads |-> {}]
    /\ outcome = [t \in Threads |-> "none"]
    /\ process = NoChild
    /\ outQueue = NoChild
    /\ spawned = 0
    /\ alive = [g \in Children |-> FALSE]
    /\ feeds = [g \in Children |-> g]
    /\ stdin = [g \in Children |-> <<>>]
    /\ stdout = [g \in Children |-> <<>>]
    /\ queue = [g \in Children |-> <<>>]
    /\ backoff = FALSE

-----------------------------------------------------------------------------
(* score(). *)

Call(t) ==
    /\ pc[t] = "idle"
    /\ calls[t] < MaxCalls
    /\ pc' = [pc EXCEPT ![t] = "acquire"]
    /\ calls' = [calls EXCEPT ![t] = @ + 1]
    /\ got' = [got EXCEPT ![t] = {}]
    /\ outcome' = [outcome EXCEPT ![t] = "none"]
    /\ UNCHANGED <<lock, process, outQueue, spawned, alive, feeds, pipes, backoff>>

\* The thread returns, and with it leaves the lock.
Finish(t, result) ==
    /\ pc' = [pc EXCEPT ![t] = "idle"]
    /\ outcome' = [outcome EXCEPT ![t] = result]
    /\ lock' = NoThread

\* _process.poll() is None.
Running == process # NoChild /\ alive[process]

\* The thread takes the lock; what follows is _ensure_running, under it.
Enter(t) == pc[t] = "acquire" /\ lock = NoThread

Reuse(t) ==
    /\ Enter(t)
    /\ Running
    /\ lock' = t
    /\ pc' = [pc EXCEPT ![t] = "write"]
    /\ UNCHANGED <<calls, got, outcome, process, outQueue, spawned, alive, feeds, pipes, backoff>>

\* A spawn failure or a timeout too recent: no child, no score.
HoldOff(t) ==
    /\ Enter(t)
    /\ ~Running
    /\ backoff
    /\ Finish(t, "internal")
    /\ UNCHANGED <<calls, got, process, outQueue, spawned, alive, feeds, pipes, backoff>>

\* Popen raises OSError.
SpawnFails(t) ==
    /\ Enter(t)
    /\ ~Running
    /\ ~backoff
    /\ backoff' = TRUE
    /\ Finish(t, "internal")
    /\ UNCHANGED <<calls, got, process, outQueue, spawned, alive, feeds, pipes>>

\* Fault: the queue of the first child serves for all.
OneQueue(g) == 1

\* "Fresh queue": the one a new child's reader thread is given.
FreshQueue(g) == g

Spawn(t) ==
    /\ Enter(t)
    /\ ~Running
    /\ ~backoff
    /\ spawned < MaxSpawns
    /\ LET g == spawned + 1
       IN  /\ spawned' = g
           /\ process' = g
           /\ alive' = [alive EXCEPT ![g] = TRUE]
           /\ outQueue' = FreshQueue(g)
           /\ feeds' = [feeds EXCEPT ![g] = FreshQueue(g)]
    /\ lock' = t
    /\ pc' = [pc EXCEPT ![t] = "write"]
    /\ UNCHANGED <<calls, got, outcome, pipes, backoff>>

WriteLine(t) ==
    /\ pc[t] = "write"
    /\ alive[process]
    /\ stdin' = [stdin EXCEPT ![process] = Append(@, RequestOf(t))]
    /\ pc' = [pc EXCEPT ![t] = "get"]
    /\ UNCHANGED <<lock, calls, got, outcome, process, outQueue, spawned, alive,
                   feeds, stdout, queue, backoff>>

\* Fault: the child is forgotten, not killed.
Forgotten == process' = NoChild /\ UNCHANGED alive

\* _kill, when there is a child to kill.
Kill ==
    /\ process' = NoChild
    /\ alive' = [alive EXCEPT ![process] = FALSE]

\* The child died since _ensure_running looked.
BrokenPipe(t) ==
    /\ pc[t] = "write"
    /\ ~alive[process]
    /\ Kill
    /\ Finish(t, "internal")
    /\ UNCHANGED <<calls, got, outQueue, spawned, feeds, pipes, backoff>>

\* The line came in time; it is parsed once the lock is released.
Get(t) ==
    /\ pc[t] = "get"
    /\ queue[outQueue] # <<>>
    /\ LET line == Head(queue[outQueue])
       IN  /\ got' = [got EXCEPT ![t] = {line}]
           /\ Finish(t, IF line.says = "score" THEN "score" ELSE "internal")
    /\ queue' = [queue EXCEPT ![outQueue] = Tail(@)]
    /\ UNCHANGED <<calls, process, outQueue, spawned, alive, feeds, stdin, stdout, backoff>>

\* Fault: the queue is read without a timeout.
NoTimeout(t) == FALSE

\* Fault: the child that was too slow is kept.
KeepOnTimeout(t) ==
    /\ pc[t] = "get"
    /\ queue[outQueue] = <<>>
    /\ backoff' = TRUE
    /\ Finish(t, "timeout")
    /\ UNCHANGED <<calls, got, process, alive, outQueue, spawned, feeds, pipes>>

\* No line in time: the child is presumed stuck.
Timeout(t) ==
    /\ pc[t] = "get"
    /\ queue[outQueue] = <<>>
    /\ Kill
    /\ backoff' = TRUE
    /\ Finish(t, "timeout")
    /\ UNCHANGED <<calls, got, outQueue, spawned, feeds, pipes>>

-----------------------------------------------------------------------------
(* The child, its reader thread, the clock, and close(). *)

\* One line of input, one line of output.
Answer(g) ==
    /\ alive[g]
    /\ stdin[g] # <<>>
    /\ stdin' = [stdin EXCEPT ![g] = Tail(@)]
    /\ \E says \in {"score", "error"} :
          stdout' = [stdout EXCEPT ![g] = Append(@, [of |-> Head(stdin[g]), says |-> says])]
    /\ UNCHANGED <<callers, process, outQueue, spawned, alive, feeds, queue, backoff>>

Crash(g) ==
    /\ alive[g]
    /\ alive' = [alive EXCEPT ![g] = FALSE]
    /\ UNCHANGED <<callers, process, outQueue, spawned, feeds, pipes, backoff>>

\* A child that died while it wrote left half a line in its pipe.
TornLine(g) ==
    /\ ~alive[g]
    /\ stdin[g] # <<>>
    /\ stdin' = [stdin EXCEPT ![g] = <<>>]
    /\ stdout' = [stdout EXCEPT ![g] = Append(@, [of |-> Head(stdin[g]), says |-> "torn"])]
    /\ UNCHANGED <<callers, process, outQueue, spawned, alive, feeds, queue, backoff>>

\* _read_stdout goes on until the pipe is empty, after the child's death too.
Read(g) ==
    /\ stdout[g] # <<>>
    /\ stdout' = [stdout EXCEPT ![g] = Tail(@)]
    /\ queue' = [queue EXCEPT ![feeds[g]] = Append(@, Head(stdout[g]))]
    /\ UNCHANGED <<callers, process, outQueue, spawned, alive, feeds, stdin, backoff>>

BackoffOver ==
    /\ backoff
    /\ backoff' = FALSE
    /\ UNCHANGED <<callers, process, outQueue, spawned, alive, feeds, pipes>>

\* close() takes the lock, and nothing keeps score() from being called again.
Close ==
    /\ lock = NoThread
    /\ process # NoChild
    /\ Kill
    /\ UNCHANGED <<callers, outQueue, spawned, feeds, pipes, backoff>>

Score(t) ==
    \/ Reuse(t) \/ HoldOff(t) \/ SpawnFails(t) \/ Spawn(t)
    \/ WriteLine(t) \/ BrokenPipe(t) \/ Get(t) \/ Timeout(t)

Environment(g) == Answer(g) \/ Crash(g) \/ TornLine(g) \/ Read(g)

Next ==
    \/ \E t \in Threads : Call(t) \/ Score(t)
    \/ \E g \in Children : Environment(g)
    \/ BackoffOver
    \/ Close

Spec == Init /\ [][Next]_vars

\* Request threads are scheduled and get() has a timeout; nothing is assumed
\* of the child, of its reader thread or of the clock.  MaxCalls makes every
\* crowd at the lock a finite one: threading.Lock promises no order.
FairSpec == Spec /\ \A t \in Threads : WF_vars(Score(t))

-----------------------------------------------------------------------------
(* What the scorer promises. *)

\* "a stale response left behind by a killed process must never be handed to
\* the next caller as if it were theirs": the line a call takes is about the
\* very password it asked about, and without such a line there is no score.
OwnAnswer ==
    \A t \in Threads :
        /\ \A l \in got[t] : l.of = RequestOf(t)
        /\ outcome[t] = "score" => \E l \in got[t] : l.says = "score"

InFlight(g) == Len(stdin[g]) + Len(stdout[g]) + Len(queue[g])

\* "one round trip in flight at a time": between the child in use and its
\* callers there is one line at most, and none while nobody holds the lock.
OneRoundTrip ==
    process # NoChild =>
        InFlight(process) <= (IF lock = NoThread THEN 0 ELSE 1)

\* A killed child is dead: at most one runs, and it is the one in use.
NoOrphan == \A g \in Children : alive[g] => g = process

\* However slow the child, and however often it dies, a call to score()
\* returns.
ScoreReturns == \A t \in Threads : (pc[t] # "idle") ~> (pc[t] = "idle")

-----------------------------------------------------------------------------
(* What makes the promises hold: the inductive invariant of                *)
(* StrengthScorerProofs, with TypeOK and NoOrphan.                         *)

\* The lock is held exactly by the thread between _ensure_running and the end
\* of its wait, and that thread has a child in use.
LockDiscipline ==
    /\ \A t \in Threads : pc[t] \in {"write", "get"} <=> lock = t
    /\ lock # NoThread => process # NoChild

\* The child in use reads and fills pipes and a queue of its own.
OwnPipes ==
    /\ process # NoChild => outQueue = process
    /\ process <= spawned
    /\ \A g \in Children : feeds[g] = g
    /\ \A g \in Children : g > spawned => ~alive[g] /\ InFlight(g) = 0

\* What is under way between the child in use and its callers is the line of
\* the thread that waits for it, and of nobody else.
OnlyMine ==
    process # NoChild =>
        IF lock # NoThread /\ pc[lock] = "get"
        THEN /\ InFlight(process) <= 1
             /\ \A i \in DOMAIN stdin[process] : stdin[process][i] = RequestOf(lock)
             /\ \A i \in DOMAIN stdout[process] : stdout[process][i].of = RequestOf(lock)
             /\ \A i \in DOMAIN queue[process] : queue[process][i].of = RequestOf(lock)
        ELSE InFlight(process) = 0

ScorerInv == LockDiscipline /\ OwnPipes /\ OnlyMine

=============================================================================
