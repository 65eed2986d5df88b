------------------------ MODULE StrengthScorerProofs ------------------------
(***************************************************************************)
(* Theorems about StrengthScorer, for any number of threads, calls and     *)
(* children.  The inductive invariant is Inv: whoever holds the lock has   *)
(* the only line under way, and the child in use fills a queue of its own. *)
(***************************************************************************)
EXTENDS StrengthScorer, SequenceTheorems, TLAPS

-----------------------------------------------------------------------------
(* Type correctness. *)

\* Initially every variable has its type.
LEMMA InitType == Init => TypeOK
<1>1. 0 \in 0..MaxCalls /\ 0 \in 0..MaxSpawns
  BY BoundsAssumption
<1>2. <<>> \in Seq(Request) /\ <<>> \in Seq(Line)
  OBVIOUS
<1> SUFFICES ASSUME Init PROVE TypeOK
  OBVIOUS
<1>3. /\ stdin \in [Children -> Seq(Request)]
      /\ stdout \in [Children -> Seq(Line)]
      /\ queue \in [Children -> Seq(Line)]
  BY <1>2, Zenon DEF Init
<1>4. /\ alive \in [Children -> BOOLEAN]
      /\ feeds \in [Children -> Children]
      /\ backoff \in BOOLEAN
  BY DEF Init
<1>5. /\ lock \in Threads \cup {NoThread}
      /\ pc \in [Threads -> Places]
      /\ calls \in [Threads -> 0..MaxCalls]
      /\ got \in [Threads -> SUBSET Line]
      /\ outcome \in [Threads -> Outcome]
      /\ spawned \in 0..MaxSpawns
  BY <1>1 DEF Init, Places, Outcome
<1> QED BY <1>3, <1>4, <1>5 DEF Init, TypeOK

\* And a step from a state of the invariant leaves it its type.
LEMMA StepType == TypeOK /\ LockDiscipline /\ OwnPipes /\ [Next]_vars => TypeOK'
<1> SUFFICES ASSUME TypeOK, LockDiscipline, OwnPipes, [Next]_vars
             PROVE  TypeOK'
  OBVIOUS
<1> USE DEF TypeOK, Places, callers, pipes
<1>1. ASSUME NEW t \in Threads, Call(t) PROVE TypeOK'
  <2>1. calls[t] + 1 \in 0..MaxCalls
    BY <1>1, BoundsAssumption DEF Call
  <2> QED BY <1>1, <2>1 DEF Call, Outcome
<1>2. ASSUME NEW t \in Threads, Reuse(t) PROVE TypeOK'
  BY <1>2 DEF Reuse
<1>3. ASSUME NEW t \in Threads, HoldOff(t) PROVE TypeOK'
  BY <1>3 DEF HoldOff, Finish, Outcome
<1>4. ASSUME NEW t \in Threads, SpawnFails(t) PROVE TypeOK'
  BY <1>4 DEF SpawnFails, Finish, Outcome
<1>5. ASSUME NEW t \in Threads, Spawn(t) PROVE TypeOK'
  <2>1. spawned + 1 \in Children /\ spawned + 1 \in 0..MaxSpawns
    BY <1>5, BoundsAssumption DEF Spawn, Children
  <2> QED BY <1>5, <2>1 DEF Spawn, FreshQueue
<1>6. ASSUME NEW t \in Threads, WriteLine(t) PROVE TypeOK'
  <2>1. RequestOf(t) \in Request
    BY DEF RequestOf, Request
  <2>2. \A g \in Children : Append(stdin[g], RequestOf(t)) \in Seq(Request)
    BY <2>1, AppendProperties
  <2> QED BY <1>6, <2>2 DEF WriteLine
<1>7. ASSUME NEW t \in Threads, BrokenPipe(t) PROVE TypeOK'
  BY <1>7 DEF BrokenPipe, Kill, Finish, Outcome
<1>8. ASSUME NEW t \in Threads, Get(t) PROVE TypeOK'
  <2>1. outQueue \in Children
    BY <1>8, NoThreadAssumption DEF Get, LockDiscipline, OwnPipes
  <2>2. Head(queue[outQueue]) \in Line /\ Tail(queue[outQueue]) \in Seq(Line)
    BY <1>8, <2>1, HeadTailProperties DEF Get
  <2> QED BY <1>8, <2>2 DEF Get, Finish, Outcome
<1>9. ASSUME NEW t \in Threads, Timeout(t) PROVE TypeOK'
  BY <1>9 DEF Timeout, Kill, Finish, Outcome
<1>10. ASSUME NEW g \in Children, Answer(g) PROVE TypeOK'
  <2>1. Head(stdin[g]) \in Request /\ Tail(stdin[g]) \in Seq(Request)
    BY <1>10, HeadTailProperties DEF Answer
  <2>2. \A says \in {"score", "error"} :
           Append(stdout[g], [of |-> Head(stdin[g]), says |-> says]) \in Seq(Line)
    BY <2>1, AppendProperties DEF Line
  <2> QED BY <1>10, <2>1, <2>2 DEF Answer
<1>11. ASSUME NEW g \in Children, Crash(g) PROVE TypeOK'
  BY <1>11 DEF Crash
<1>12. ASSUME NEW g \in Children, TornLine(g) PROVE TypeOK'
  <2>1. Head(stdin[g]) \in Request
    BY <1>12, HeadTailProperties DEF TornLine
  <2>2. Append(stdout[g], [of |-> Head(stdin[g]), says |-> "torn"]) \in Seq(Line)
    BY <2>1, AppendProperties DEF Line
  <2>3. <<>> \in Seq(Request)
    OBVIOUS
  <2> QED BY <1>12, <2>2, <2>3 DEF TornLine
<1>13. ASSUME NEW g \in Children, Read(g) PROVE TypeOK'
  <2>1. Head(stdout[g]) \in Line /\ Tail(stdout[g]) \in Seq(Line)
    BY <1>13, HeadTailProperties DEF Read
  <2>2. \A h \in Children : Append(queue[h], Head(stdout[g])) \in Seq(Line)
    BY <2>1, AppendProperties
  <2> QED BY <1>13, <2>1, <2>2 DEF Read
<1>14. CASE BackoffOver
  BY <1>14 DEF BackoffOver
<1>15. CASE Close
  BY <1>15 DEF Close, Kill
<1>16. CASE UNCHANGED vars
  BY <1>16 DEF vars
<1> QED BY <1>1, <1>2, <1>3, <1>4, <1>5, <1>6, <1>7, <1>8, <1>9, <1>10,
           <1>11, <1>12, <1>13, <1>14, <1>15, <1>16 DEF Next, Score, Environment

-----------------------------------------------------------------------------
(* The inductive invariant. *)

Inv == TypeOK /\ ScorerInv /\ NoOrphan /\ OwnAnswer

\* Initially no child and nobody inside.
LEMMA InitInv == Init => Inv
<1> SUFFICES ASSUME Init PROVE Inv
  OBVIOUS
<1>1. TypeOK
  BY InitType
<1>2. LockDiscipline
  BY NoThreadAssumption DEF Init, LockDiscipline
<1>3. OwnPipes
  BY BoundsAssumption DEF Init, OwnPipes, InFlight, NoChild, Children
<1>4. OnlyMine /\ NoOrphan /\ OwnAnswer
  BY DEF Init, OnlyMine, NoOrphan, OwnAnswer
<1> QED BY <1>1, <1>2, <1>3, <1>4 DEF Inv, ScorerInv

\* The steps of a caller outside the lock: to call, and to be turned away.
LEMMA OutsideInv ==
    ASSUME Inv, NEW t \in Threads, Call(t) \/ HoldOff(t) \/ SpawnFails(t)
    PROVE  ScorerInv' /\ NoOrphan' /\ OwnAnswer'
<1> USE NoThreadAssumption DEF Inv, TypeOK, ScorerInv, callers, pipes
<1>1. pc[t] \in {"idle", "acquire"} /\ lock # t
  BY DEF Call, HoldOff, SpawnFails, Enter, LockDiscipline
<1>2. /\ pc' \in [Threads -> Places]
      /\ pc'[t] \in {"idle", "acquire"}
      /\ \A u \in Threads \ {t} : pc'[u] = pc[u] /\ calls'[u] = calls[u]
      /\ \A u \in Threads \ {t} : got'[u] = got[u] /\ outcome'[u] = outcome[u]
      /\ lock' = lock
      /\ UNCHANGED <<process, outQueue, spawned, alive, feeds, stdin, stdout, queue>>
  BY DEF Call, HoldOff, SpawnFails, Enter, Finish, Places
<1>3. /\ outcome'[t] # "score"
      /\ got'[t] = {} \/ (got'[t] = got[t] /\ calls'[t] = calls[t])
  <2>1. CASE Call(t)
    BY <2>1 DEF Call
  <2>2. CASE HoldOff(t)
    BY <2>2 DEF HoldOff, Finish
  <2>3. CASE SpawnFails(t)
    BY <2>3 DEF SpawnFails, Finish
  <2> QED BY <2>1, <2>2, <2>3
<1>4. LockDiscipline'
  BY <1>1, <1>2 DEF LockDiscipline
<1>5. OwnPipes'
  BY <1>2 DEF OwnPipes, InFlight
<1>6. OnlyMine'
  BY <1>1, <1>2 DEF OnlyMine, InFlight, RequestOf
<1>7. NoOrphan'
  BY <1>2 DEF NoOrphan
<1>8. OwnAnswer'
  <2>1. \A u \in Threads \ {t} : RequestOf(u)' = RequestOf(u)
    BY <1>2 DEF RequestOf
  <2>2. \A l \in got'[t] : l.of = RequestOf(t)'
    BY <1>3 DEF RequestOf, OwnAnswer
  <2>3. \A u \in Threads \ {t} : \A l \in got'[u] : l.of = RequestOf(u)'
    BY <1>2, <2>1 DEF OwnAnswer
  <2>4. \A u \in Threads \ {t} : outcome'[u] = "score" => \E l \in got'[u] : l.says = "score"
    BY <1>2 DEF OwnAnswer
  <2> QED BY <1>3, <2>2, <2>3, <2>4 DEF OwnAnswer
<1> QED BY <1>4, <1>5, <1>6, <1>7, <1>8

\* The steps that take the lock: with the child at hand, or with a new one.
LEMMA EnterInv ==
    ASSUME Inv, NEW t \in Threads, Reuse(t) \/ Spawn(t)
    PROVE  ScorerInv' /\ NoOrphan' /\ OwnAnswer'
<1> USE NoThreadAssumption DEF Inv, TypeOK, ScorerInv, callers, pipes
<1>1. /\ lock = NoThread /\ lock' = t
      /\ pc' = [pc EXCEPT ![t] = "write"]
      /\ UNCHANGED <<calls, got, outcome, stdin, stdout, queue>>
  BY DEF Reuse, Spawn, Enter
<1>2. OwnAnswer'
  BY <1>1 DEF OwnAnswer, RequestOf
<1>3. CASE Reuse(t)
  <2>1. process # NoChild /\ UNCHANGED <<process, outQueue, spawned, alive, feeds>>
    BY <1>3 DEF Reuse, Running
  <2>2. LockDiscipline'
    BY <1>1, <2>1 DEF LockDiscipline
  <2>3. OwnPipes' /\ NoOrphan'
    BY <1>1, <2>1 DEF OwnPipes, InFlight, NoOrphan
  <2>4. OnlyMine'
    BY <1>1, <2>1 DEF OnlyMine, InFlight
  <2> QED BY <1>2, <2>2, <2>3, <2>4
<1>4. CASE Spawn(t)
  <2> DEFINE g == spawned + 1
  <2>1. g \in Children /\ g # NoChild
    BY <1>4, BoundsAssumption DEF Spawn, Children, NoChild
  <2>2. /\ spawned' = g /\ process' = g /\ outQueue' = g
        /\ alive' = [alive EXCEPT ![g] = TRUE]
        /\ feeds' = [feeds EXCEPT ![g] = g]
        /\ ~Running
    BY <1>4 DEF Spawn, FreshQueue
  <2>3. \A h \in Children : ~alive[h]
    BY <2>2 DEF NoOrphan, Running, NoChild, Children
  <2>4. InFlight(g) = 0
    BY <2>1, BoundsAssumption DEF OwnPipes, InFlight
  <2>5. LockDiscipline'
    BY <1>1, <2>1, <2>2 DEF LockDiscipline
  <2>6. NoOrphan'
    BY <2>1, <2>2, <2>3 DEF NoOrphan
  <2>7. /\ process' <= spawned'
        /\ \A h \in Children : h > spawned' => h > spawned /\ h # g
    BY <2>1, <2>2, BoundsAssumption DEF Children
  <2>8. OwnPipes'
    BY <1>1, <2>1, <2>2, <2>7 DEF OwnPipes, InFlight
  <2>9. OnlyMine'
    BY <1>1, <2>1, <2>2, <2>4 DEF OnlyMine, InFlight
  <2> QED BY <1>2, <2>5, <2>6, <2>8, <2>9
<1> QED BY <1>3, <1>4

\* The step that writes: what it writes is all there is.
LEMMA WriteInv ==
    ASSUME Inv, NEW t \in Threads, WriteLine(t)
    PROVE  ScorerInv' /\ NoOrphan' /\ OwnAnswer'
<1> USE NoThreadAssumption DEF Inv, TypeOK, ScorerInv, callers, pipes
<1> DEFINE g == process
<1>1. lock = t /\ g # NoChild /\ g \in Children /\ pc[t] = "write"
  BY DEF WriteLine, LockDiscipline
<1>2. InFlight(g) = 0
  BY <1>1 DEF OnlyMine
<1>3. stdin[g] = <<>> /\ stdout[g] = <<>> /\ queue[g] = <<>>
  <2>1. Len(stdin[g]) \in Nat /\ Len(stdout[g]) \in Nat /\ Len(queue[g]) \in Nat
    BY <1>1, LenProperties
  <2>2. Len(stdin[g]) = 0 /\ Len(stdout[g]) = 0 /\ Len(queue[g]) = 0
    BY <1>2, <2>1 DEF InFlight
  <2> QED BY <1>1, <2>2, EmptySeq
<1>4. stdin' = [stdin EXCEPT ![g] = <<RequestOf(t)>>]
  BY <1>1, <1>3 DEF WriteLine
<1>5. /\ pc' = [pc EXCEPT ![t] = "get"]
      /\ UNCHANGED <<lock, calls, got, outcome, process, outQueue, spawned, alive,
                     feeds, stdout, queue>>
  BY DEF WriteLine
<1>6. LockDiscipline'
  BY <1>1, <1>5 DEF LockDiscipline
<1>7. g <= spawned /\ \A h \in Children : h > spawned => h # g
  BY <1>1, BoundsAssumption DEF OwnPipes, Children
<1>8. OwnPipes'
  BY <1>1, <1>4, <1>5, <1>7 DEF OwnPipes, InFlight
<1>9. InFlight(g)' = 1
  BY <1>1, <1>3, <1>4, <1>5 DEF InFlight
<1>10. OnlyMine'
  BY <1>1, <1>3, <1>4, <1>5, <1>9 DEF OnlyMine, RequestOf
<1>11. NoOrphan' /\ OwnAnswer'
  BY <1>5 DEF NoOrphan, OwnAnswer, RequestOf
<1> QED BY <1>6, <1>8, <1>10, <1>11

\* The steps that give the lock back: with the line, or without.
LEMMA LeaveInv ==
    ASSUME Inv, NEW t \in Threads, BrokenPipe(t) \/ Get(t) \/ Timeout(t)
    PROVE  ScorerInv' /\ NoOrphan' /\ OwnAnswer'
<1> USE NoThreadAssumption DEF Inv, TypeOK, ScorerInv, callers, pipes
<1> DEFINE g == process
<1>1. lock = t /\ g # NoChild /\ g \in Children /\ pc[t] \in {"write", "get"}
  BY DEF BrokenPipe, Get, Timeout, LockDiscipline
<1>2. /\ pc' = [pc EXCEPT ![t] = "idle"] /\ lock' = NoThread
      /\ UNCHANGED <<calls, outQueue, spawned, feeds, stdin, stdout>>
  BY DEF BrokenPipe, Get, Timeout, Finish
<1>3. LockDiscipline'
  BY <1>1, <1>2 DEF LockDiscipline
<1>4. CASE BrokenPipe(t) \/ Timeout(t)
  <2>1. /\ process' = NoChild
        /\ alive' = [alive EXCEPT ![g] = FALSE]
        /\ UNCHANGED <<got, queue>>
    BY <1>4 DEF BrokenPipe, Timeout, Kill
  <2>2. \E result \in {"internal", "timeout"} : outcome' = [outcome EXCEPT ![t] = result]
    BY <1>4 DEF BrokenPipe, Timeout, Finish
  <2>3. NoOrphan'
    BY <1>1, <2>1 DEF NoOrphan
  <2>4. NoChild <= spawned
    BY BoundsAssumption DEF NoChild
  <2>5. OwnPipes'
    BY <1>1, <1>2, <2>1, <2>4 DEF OwnPipes, InFlight
  <2>6. OnlyMine'
    BY <2>1 DEF OnlyMine
  <2>7. OwnAnswer'
    BY <1>2, <2>1, <2>2 DEF OwnAnswer, RequestOf
  <2> QED BY <1>3, <2>3, <2>5, <2>6, <2>7
<1>5. CASE Get(t)
  <2> DEFINE line == Head(queue[g])
  <2>1. /\ outQueue = g /\ pc[t] = "get"
        /\ queue[g] # <<>>
        /\ got' = [got EXCEPT ![t] = {line}]
        /\ outcome' = [outcome EXCEPT ![t] = IF line.says = "score" THEN "score" ELSE "internal"]
        /\ queue' = [queue EXCEPT ![g] = Tail(queue[g])]
        /\ UNCHANGED <<process, alive>>
    BY <1>1, <1>5 DEF Get, Finish, OwnPipes
  <2>2. line = queue[g][1] /\ 1 \in DOMAIN queue[g] /\ Len(queue[g]) >= 1
    BY <1>1, <2>1
  <2>3. line.of = RequestOf(t)
    BY <1>1, <2>1, <2>2 DEF OnlyMine
  <2>4. OwnAnswer'
    BY <1>2, <2>1, <2>3 DEF OwnAnswer, RequestOf
  <2>5. InFlight(g) <= 1
    BY <1>1, <2>1 DEF OnlyMine
  <2>6. InFlight(g)' = 0
    <3>1. Len(stdin[g]) \in Nat /\ Len(stdout[g]) \in Nat /\ Len(queue[g]) \in Nat
      BY <1>1, LenProperties
    <3>2. Len(queue'[g]) = Len(queue[g]) - 1
      BY <1>1, <2>1, HeadTailProperties
    <3>3. InFlight(g)' = Len(stdin[g]) + Len(stdout[g]) + Len(queue'[g])
      BY <1>2, <2>1 DEF InFlight
    <3>4. Len(stdin[g]) + Len(stdout[g]) + Len(queue[g]) <= 1
      BY <2>5 DEF InFlight
    <3> QED BY <2>2, <3>1, <3>2, <3>3, <3>4
  <2>7. OnlyMine'
    BY <1>2, <2>1, <2>6 DEF OnlyMine
  <2>8. g <= spawned /\ \A h \in Children : h > spawned => h # g
    BY <1>1, BoundsAssumption DEF OwnPipes, Children
  <2>9. OwnPipes'
    BY <1>1, <1>2, <2>1, <2>8 DEF OwnPipes, InFlight
  <2>10. NoOrphan'
    BY <2>1 DEF NoOrphan
  <2> QED BY <1>3, <2>4, <2>7, <2>9, <2>10
<1> QED BY <1>4, <1>5

\* The child and its reader thread move a line along and change none.
LEMMA EnvironmentInv ==
    ASSUME Inv, NEW g \in Children, Environment(g)
    PROVE  ScorerInv' /\ NoOrphan' /\ OwnAnswer'
<1> USE NoThreadAssumption DEF Inv, TypeOK, ScorerInv, callers, pipes
<1>1. UNCHANGED <<lock, pc, calls, got, outcome, process, outQueue, spawned, feeds>>
  BY DEF Environment, Answer, Crash, TornLine, Read
<1>2. LockDiscipline'
  BY <1>1 DEF LockDiscipline
<1>3. OwnAnswer'
  BY <1>1 DEF OwnAnswer, RequestOf
<1>4. alive' \in [Children -> BOOLEAN] /\ \A h \in Children : alive'[h] => alive[h]
  BY DEF Environment, Answer, Crash, TornLine, Read
<1>5. NoOrphan'
  BY <1>1, <1>4 DEF NoOrphan
<1>6. SUFFICES /\ \A h \in Children : InFlight(h)' <= InFlight(h)
               /\ \A h \in Children : InFlight(h)' \in Nat
               /\ \A h \in Children, r \in Request :
                     (/\ \A i \in DOMAIN stdin[h] : stdin[h][i] = r
                      /\ \A i \in DOMAIN stdout[h] : stdout[h][i].of = r
                      /\ \A i \in DOMAIN queue[h] : queue[h][i].of = r)
                     => (/\ \A i \in DOMAIN stdin'[h] : stdin'[h][i] = r
                         /\ \A i \in DOMAIN stdout'[h] : stdout'[h][i].of = r
                         /\ \A i \in DOMAIN queue'[h] : queue'[h][i].of = r)
  <2>1. OwnPipes'
    BY <1>1, <1>4, <1>6 DEF OwnPipes
  <2>2. OnlyMine'
    <3>1. \A h \in Children : InFlight(h) \in Nat
      BY LenProperties DEF InFlight
    <3>2. ASSUME process # NoChild, lock # NoThread, pc[lock] = "get"
          PROVE  OnlyMine'
      <4>1. RequestOf(lock) \in Request
        BY <3>2 DEF RequestOf, Request
      <4> DEFINE r == RequestOf(lock)
      <4>2. /\ InFlight(process) <= 1
            /\ \A i \in DOMAIN stdin[process] : stdin[process][i] = r
            /\ \A i \in DOMAIN stdout[process] : stdout[process][i].of = r
            /\ \A i \in DOMAIN queue[process] : queue[process][i].of = r
        BY <3>2 DEF OnlyMine
      <4>3. /\ \A i \in DOMAIN stdin'[process] : stdin'[process][i] = r
            /\ \A i \in DOMAIN stdout'[process] : stdout'[process][i].of = r
            /\ \A i \in DOMAIN queue'[process] : queue'[process][i].of = r
        BY <1>6, <3>2, <4>1, <4>2
      <4>4. InFlight(process)' <= 1
        <5>1. PICK h \in Children : h = process
          BY <3>2
        <5>2. InFlight(h)' <= InFlight(h) /\ InFlight(h)' \in Nat /\ InFlight(h) \in Nat
          BY <1>6, <3>1
        <5>3. InFlight(h) <= 1
          BY <4>2, <5>1
        <5>4. InFlight(h)' <= 1
          BY <5>2, <5>3
        <5> QED BY <1>1, <5>1, <5>4 DEF InFlight
      <4> QED BY <1>1, <3>2, <4>3, <4>4 DEF OnlyMine, RequestOf
    <3>3. ASSUME process # NoChild, ~(lock # NoThread /\ pc[lock] = "get")
          PROVE  OnlyMine'
      BY <1>1, <1>6, <3>1, <3>3 DEF OnlyMine
    <3> QED BY <1>1, <3>2, <3>3 DEF OnlyMine
  <2> QED BY <1>2, <1>3, <1>5, <2>1, <2>2
<1>7. feeds[g] = g
  BY DEF OwnPipes
<1>8. \A h \in Children : Len(stdin[h]) \in Nat /\ Len(stdout[h]) \in Nat /\ Len(queue[h]) \in Nat
  BY LenProperties
<1>9. CASE Answer(g)
  <2>1. PICK says \in {"score", "error"} :
          stdout' = [stdout EXCEPT ![g] = Append(@, [of |-> Head(stdin[g]), says |-> says])]
    BY <1>9 DEF Answer
  <2> DEFINE line == [of |-> Head(stdin[g]), says |-> says]
  <2>2. /\ stdin[g] # <<>> /\ stdin' = [stdin EXCEPT ![g] = Tail(stdin[g])]
        /\ stdout' = [stdout EXCEPT ![g] = Append(stdout[g], line)]
        /\ queue' = queue
    BY <1>9, <2>1 DEF Answer
  <2>3. line \in Line /\ line.of = stdin[g][1] /\ 1 \in DOMAIN stdin[g]
    BY <2>2, HeadTailProperties DEF Line
  <2>4. /\ Len(stdin'[g]) = Len(stdin[g]) - 1
        /\ \A i \in DOMAIN stdin'[g] : i + 1 \in DOMAIN stdin[g] /\ stdin'[g][i] = stdin[g][i + 1]
    BY <2>2, HeadTailProperties
  <2>5. /\ Len(stdout'[g]) = Len(stdout[g]) + 1
        /\ \A i \in DOMAIN stdout'[g] :
              (i \in DOMAIN stdout[g] /\ stdout'[g][i] = stdout[g][i]) \/ stdout'[g][i] = line
    BY <2>2, <2>3, AppendProperties
  <2>6. \A h \in Children \ {g} : stdin'[h] = stdin[h] /\ stdout'[h] = stdout[h]
    BY <2>2
  <2>7. \A h \in Children : InFlight(h)' = InFlight(h) /\ InFlight(h) \in Nat
    <3>1. InFlight(g)' = InFlight(g) /\ InFlight(g) \in Nat
      BY <1>8, <2>2, <2>4, <2>5 DEF InFlight
    <3>2. \A h \in Children \ {g} : InFlight(h)' = InFlight(h) /\ InFlight(h) \in Nat
      BY <1>8, <2>2, <2>6 DEF InFlight
    <3> QED BY <3>1, <3>2
  <2>8. ASSUME NEW h \in Children, NEW r \in Request,
               \A i \in DOMAIN stdin[h] : stdin[h][i] = r,
               \A i \in DOMAIN stdout[h] : stdout[h][i].of = r
        PROVE  /\ \A i \in DOMAIN stdin'[h] : stdin'[h][i] = r
               /\ \A i \in DOMAIN stdout'[h] : stdout'[h][i].of = r
    <3>1. CASE h = g
      BY <2>3, <2>4, <2>5, <2>8, <3>1
    <3>2. CASE h # g
      BY <2>6, <2>8, <3>2
    <3> QED BY <3>1, <3>2
  <2> QED BY <2>2, <2>7, <2>8
<1>10. CASE Crash(g)
  BY <1>8, <1>10 DEF Crash, InFlight
<1>11. CASE TornLine(g)
  <2> DEFINE line == [of |-> Head(stdin[g]), says |-> "torn"]
  <2>1. /\ stdin[g] # <<>> /\ stdin' = [stdin EXCEPT ![g] = <<>>]
        /\ stdout' = [stdout EXCEPT ![g] = Append(stdout[g], line)]
        /\ queue' = queue
    BY <1>11 DEF TornLine
  <2>2. line \in Line /\ line.of = stdin[g][1] /\ 1 \in DOMAIN stdin[g]
    BY <2>1, HeadTailProperties DEF Line
  <2>3. Len(stdin'[g]) = 0 /\ Len(stdin[g]) >= 1 /\ DOMAIN stdin'[g] = {}
    BY <2>1, <2>2
  <2>4. /\ Len(stdout'[g]) = Len(stdout[g]) + 1
        /\ \A i \in DOMAIN stdout'[g] :
              (i \in DOMAIN stdout[g] /\ stdout'[g][i] = stdout[g][i]) \/ stdout'[g][i] = line
    BY <2>1, <2>2, AppendProperties
  <2>5. \A h \in Children \ {g} : stdin'[h] = stdin[h] /\ stdout'[h] = stdout[h]
    BY <2>1
  <2>6. \A h \in Children : InFlight(h)' <= InFlight(h) /\ InFlight(h)' \in Nat
    BY <1>8, <2>1, <2>3, <2>4, <2>5 DEF InFlight
  <2>7. ASSUME NEW h \in Children, NEW r \in Request,
               \A i \in DOMAIN stdin[h] : stdin[h][i] = r,
               \A i \in DOMAIN stdout[h] : stdout[h][i].of = r
        PROVE  /\ \A i \in DOMAIN stdin'[h] : stdin'[h][i] = r
               /\ \A i \in DOMAIN stdout'[h] : stdout'[h][i].of = r
    <3>1. CASE h = g
      BY <2>2, <2>3, <2>4, <2>7, <3>1
    <3>2. CASE h # g
      BY <2>5, <2>7, <3>2
    <3> QED BY <3>1, <3>2
  <2> QED BY <2>1, <2>6, <2>7
<1>12. CASE Read(g)
  <2> DEFINE line == Head(stdout[g])
  <2>1. /\ stdout[g] # <<>> /\ stdout' = [stdout EXCEPT ![g] = Tail(stdout[g])]
        /\ queue' = [queue EXCEPT ![g] = Append(queue[g], line)]
        /\ stdin' = stdin
    BY <1>7, <1>12 DEF Read
  <2>2. line \in Line /\ line = stdout[g][1] /\ 1 \in DOMAIN stdout[g]
    BY <2>1, HeadTailProperties
  <2>3. /\ Len(stdout'[g]) = Len(stdout[g]) - 1
        /\ \A i \in DOMAIN stdout'[g] : i + 1 \in DOMAIN stdout[g] /\ stdout'[g][i] = stdout[g][i + 1]
    BY <2>1, HeadTailProperties
  <2>4. /\ Len(queue'[g]) = Len(queue[g]) + 1
        /\ \A i \in DOMAIN queue'[g] :
              (i \in DOMAIN queue[g] /\ queue'[g][i] = queue[g][i]) \/ queue'[g][i] = line
    BY <2>1, <2>2, AppendProperties
  <2>5. \A h \in Children \ {g} : stdout'[h] = stdout[h] /\ queue'[h] = queue[h]
    BY <2>1
  <2>6. \A h \in Children : InFlight(h)' = InFlight(h) /\ InFlight(h) \in Nat
    <3>1. InFlight(g)' = InFlight(g) /\ InFlight(g) \in Nat
      BY <1>8, <2>1, <2>3, <2>4 DEF InFlight
    <3>2. \A h \in Children \ {g} : InFlight(h)' = InFlight(h) /\ InFlight(h) \in Nat
      BY <1>8, <2>1, <2>5 DEF InFlight
    <3> QED BY <3>1, <3>2
  <2>7. ASSUME NEW h \in Children, NEW r \in Request,
               \A i \in DOMAIN stdout[h] : stdout[h][i].of = r,
               \A i \in DOMAIN queue[h] : queue[h][i].of = r
        PROVE  /\ \A i \in DOMAIN stdout'[h] : stdout'[h][i].of = r
               /\ \A i \in DOMAIN queue'[h] : queue'[h][i].of = r
    <3>1. CASE h = g
      <4>1. \A i \in DOMAIN stdout'[g] : stdout'[g][i].of = r
        BY <2>3, <2>7, <3>1
      <4>2. line.of = r
        BY <2>2, <2>7, <3>1
      <4>3. \A i \in DOMAIN queue'[g] : queue'[g][i].of = r
        BY <2>4, <2>7, <3>1, <4>2
      <4> QED BY <3>1, <4>1, <4>3
    <3>2. CASE h # g
      BY <2>5, <2>7, <3>2
    <3> QED BY <3>1, <3>2
  <2>8. \A h \in Children : InFlight(h)' <= InFlight(h) /\ InFlight(h)' \in Nat
    BY <2>6
  <2>9. stdin' = stdin
    BY <2>1
  <2> HIDE DEF line
  <2> QED BY <2>7, <2>8, <2>9
<1> QED BY <1>9, <1>10, <1>11, <1>12 DEF Environment

\* close() and the clock.
LEMMA CloseInv ==
    ASSUME Inv, Close \/ BackoffOver
    PROVE  ScorerInv' /\ NoOrphan' /\ OwnAnswer'
<1> USE NoThreadAssumption DEF Inv, TypeOK, ScorerInv, callers, pipes
<1>1. UNCHANGED <<lock, pc, calls, got, outcome, outQueue, spawned, feeds, stdin, stdout, queue>>
  BY DEF Close, BackoffOver
<1>2. OwnAnswer'
  BY <1>1 DEF OwnAnswer, RequestOf
<1>3. CASE Close
  <2>1. /\ lock = NoThread /\ process # NoChild
        /\ process' = NoChild /\ alive' = [alive EXCEPT ![process] = FALSE]
    BY <1>3 DEF Close, Kill
  <2>2. LockDiscipline' /\ OnlyMine' /\ NoOrphan'
    BY <1>1, <2>1 DEF LockDiscipline, OnlyMine, NoOrphan
  <2>3. NoChild <= spawned
    BY BoundsAssumption DEF NoChild
  <2>4. OwnPipes'
    BY <1>1, <2>1, <2>3 DEF OwnPipes, InFlight
  <2> QED BY <1>2, <2>2, <2>4
<1>4. CASE BackoffOver
  <2>1. UNCHANGED <<process, alive>>
    BY <1>4 DEF BackoffOver
  <2> QED BY <1>1, <1>2, <2>1 DEF LockDiscipline, OwnPipes, OnlyMine, NoOrphan, InFlight, RequestOf
<1> QED BY <1>3, <1>4

\* Inv holds in every reachable state.
THEOREM ScorerInvariance == Spec => []Inv
<1>1. Init => Inv
  BY InitInv
<1>2. Inv /\ [Next]_vars => Inv'
  <2> SUFFICES ASSUME Inv, [Next]_vars
               PROVE  Inv'
    OBVIOUS
  <2>1. TypeOK'
    BY StepType DEF Inv, ScorerInv
  <2>2. ASSUME Next PROVE ScorerInv' /\ NoOrphan' /\ OwnAnswer'
    BY <2>2, OutsideInv, EnterInv, WriteInv, LeaveInv, EnvironmentInv, CloseInv
       DEF Next, Score
  <2>3. CASE UNCHANGED vars
    BY <2>3 DEF vars, Inv, TypeOK, ScorerInv, LockDiscipline, OwnPipes, OnlyMine,
                NoOrphan, OwnAnswer, InFlight, RequestOf, Running
  <2> QED BY <2>1, <2>2, <2>3 DEF Inv
<1> QED BY <1>1, <1>2, PTL DEF Spec

-----------------------------------------------------------------------------
(* The promises. *)

\* Every variable of the scorer keeps its type in every reachable state.
THEOREM ScorerTypeCorrect == Spec => []TypeOK
BY ScorerInvariance, PTL DEF Inv

\* No call is ever answered with the line of another.
THEOREM AnswerIsOwn == Spec => []OwnAnswer
BY ScorerInvariance, PTL DEF Inv

\* There is one round trip in flight at a time.
THEOREM OneAtATime == Spec => []OneRoundTrip
<1>1. Inv => OneRoundTrip
  BY NoThreadAssumption DEF Inv, ScorerInv, OnlyMine, OneRoundTrip
<1> QED BY <1>1, ScorerInvariance, PTL

\* No child runs but the one in use.
THEOREM KilledIsDead == Spec => []NoOrphan
BY ScorerInvariance, PTL DEF Inv

=============================================================================
