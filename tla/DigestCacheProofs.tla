-------------------------- MODULE DigestCacheProofs -------------------------
(***************************************************************************)
(* What DigestCache promises, proved for any number of workers and any     *)
(* texts.  A worker's knowledge grows along its program: Knows says what   *)
(* it has read by the time it is at each place, Good that no refused set   *)
(* is past the generation, and Undisturbed that, while no edit came under  *)
(* a load, everything a loading worker has read is still what is there.    *)
(***************************************************************************)
EXTENDS DigestCache, TLAPS

Knows ==
    \A w \in Workers :
        /\ pc[w] # "down" => entries[w] \in Dictionaries
        /\ pc[w] \notin {"down", "fingerprint"} => fingerprint[w] \in Texts
        /\ pc[w] \in {"write", "serving"} => digests[w] \in Texts

Good ==
    /\ file.valid => file.digests \notin Refused
    /\ \A w \in Workers : pc[w] \in {"write", "serving"} => digests[w] \notin Refused

Undisturbed ==
    ~disturbed =>
        /\ file.valid => file.digests = file.fingerprint
        /\ \A w \in Workers :
              /\ pc[w] \in Loading => entries[w] = texts.dictionary
              /\ pc[w] \in Loading \ {"fingerprint"} => fingerprint[w] = texts
              /\ pc[w] \in {"write", "serving"} => digests[w] = fingerprint[w]
              /\ pc[w] = "serving" => digests[w].dictionary = entries[w]

Inv == TypeOK /\ Knows /\ LockInv /\ Good /\ Undisturbed

-----------------------------------------------------------------------------
(* The invariant, action by action. *)

\* Before any worker has started.
LEMMA InitInv == Init => Inv
<1> SUFFICES ASSUME Init PROVE Inv
  OBVIOUS
<1>1. ~file.valid
  BY DEF Init, Malformed
<1>2. TypeOK
  BY DEF Init, TypeOK, Places
<1>3. Knows
  BY DEF Init, Knows
<1>4. LockInv
  BY NamesAssumption DEF Init, LockInv, InLock
<1>5. Good
  BY <1>1 DEF Init, Good
<1>6. Undisturbed
  BY <1>1 DEF Init, Undisturbed, Loading
<1> QED BY <1>2, <1>3, <1>4, <1>5, <1>6 DEF Inv

\* A file that reads back has a fingerprint and digests.
LEMMA ReadsBack ==
  ASSUME TypeOK, file.valid
  PROVE  file.fingerprint \in Texts /\ file.digests \in Texts
<1>1. file # Malformed
  BY DEF Malformed
<1> QED BY <1>1 DEF TypeOK, CacheFile

\* A worker keeps its own knowledge in order, and leaves that of others alone.
LEMMA TypeStep ==
  ASSUME TypeOK, Knows, [Next]_vars
  PROVE  TypeOK' /\ Knows'
<1> USE DEF TypeOK, Knows, Goto, Places, Loading
<1>1. ASSUME NEW w \in Workers, ReadEntries(w) PROVE TypeOK' /\ Knows'
  BY <1>1 DEF ReadEntries, Texts
<1>2. ASSUME NEW w \in Workers, Fingerprint(w) PROVE TypeOK' /\ Knows'
  BY <1>2 DEF Fingerprint
<1>3. ASSUME NEW w \in Workers, Check(w) PROVE TypeOK' /\ Knows'
  BY <1>3, ReadsBack DEF Check, TakeCached, Cached
<1>4. ASSUME NEW w \in Workers, Acquire(w) PROVE TypeOK' /\ Knows'
  BY <1>4 DEF Acquire, mine
<1>5. ASSUME NEW w \in Workers, GiveUp(w) PROVE TypeOK' /\ Knows'
  BY <1>5 DEF GiveUp, Fails, Forget
<1>6. ASSUME NEW w \in Workers, Recheck(w) PROVE TypeOK' /\ Knows'
  BY <1>6, ReadsBack DEF Recheck, TakeCached, Cached
<1>7. ASSUME NEW w \in Workers, Generate(w) PROVE TypeOK' /\ Knows'
  <2>1. pc[w] = "generate" => Generated(w) \in Texts
    BY DEF Generated, Texts
  <2> QED BY <1>7, <2>1 DEF Generate, Fails, Forget
<1>8. ASSUME NEW w \in Workers, WriteFails(w) PROVE TypeOK' /\ Knows'
  BY <1>8 DEF WriteFails, Fails, Forget
<1>9. ASSUME NEW w \in Workers, Replace(w) PROVE TypeOK' /\ Knows'
  <2>1. file' \in CacheFile
    BY <1>9 DEF Replace, CacheFile
  <2> QED BY <1>9, <2>1 DEF Replace, mine
<1>10. ASSUME NEW w \in Workers, Killed(w) PROVE TypeOK' /\ Knows'
  BY <1>10 DEF Killed, Forget
<1>11. CASE Edit
  BY <1>11 DEF Edit, mine
<1>12. CASE Damage
  BY <1>12 DEF Damage, mine
<1>13. CASE UNCHANGED vars
  BY <1>13 DEF vars, mine
<1> QED
  BY <1>1, <1>2, <1>3, <1>4, <1>5, <1>6, <1>7, <1>8, <1>9, <1>10, <1>11, <1>12, <1>13
     DEF Next, Load

\* The lock has one holder, and a holder that ends has let go of it.
LEMMA LockStep ==
  ASSUME TypeOK, LockInv, [Next]_vars
  PROVE  LockInv'
<1> USE NamesAssumption DEF TypeOK, LockInv, InLock, Goto
<1>1. ASSUME NEW w \in Workers, ReadEntries(w) PROVE LockInv'
  BY <1>1 DEF ReadEntries
<1>2. ASSUME NEW w \in Workers, Fingerprint(w) PROVE LockInv'
  BY <1>2 DEF Fingerprint
<1>3. ASSUME NEW w \in Workers, Check(w) PROVE LockInv'
  BY <1>3 DEF Check, TakeCached
<1>4. ASSUME NEW w \in Workers, Acquire(w) PROVE LockInv'
  BY <1>4 DEF Acquire
<1>5. ASSUME NEW w \in Workers, GiveUp(w) PROVE LockInv'
  BY <1>5 DEF GiveUp, Fails
<1>6. ASSUME NEW w \in Workers, Recheck(w) PROVE LockInv'
  BY <1>6 DEF Recheck, TakeCached
<1>7. ASSUME NEW w \in Workers, Generate(w) PROVE LockInv'
  BY <1>7 DEF Generate, Fails
<1>8. ASSUME NEW w \in Workers, WriteFails(w) PROVE LockInv'
  BY <1>8 DEF WriteFails, Fails
<1>9. ASSUME NEW w \in Workers, Replace(w) PROVE LockInv'
  BY <1>9 DEF Replace
<1>10. ASSUME NEW w \in Workers, Killed(w) PROVE LockInv'
  BY <1>10 DEF Killed
<1>11. CASE Edit
  BY <1>11 DEF Edit
<1>12. CASE Damage
  BY <1>12 DEF Damage
<1>13. CASE UNCHANGED vars
  BY <1>13 DEF vars
<1> QED
  BY <1>1, <1>2, <1>3, <1>4, <1>5, <1>6, <1>7, <1>8, <1>9, <1>10, <1>11, <1>12, <1>13
     DEF Next, Load

\* A refused set gets neither into the file nor past its generation.
LEMMA GoodStep ==
  ASSUME TypeOK, Good, [Next]_vars
  PROVE  Good'
<1> USE DEF TypeOK, Good, Goto
<1>1. ASSUME NEW w \in Workers, ReadEntries(w) PROVE Good'
  BY <1>1 DEF ReadEntries
<1>2. ASSUME NEW w \in Workers, Fingerprint(w) PROVE Good'
  BY <1>2 DEF Fingerprint
<1>3. ASSUME NEW w \in Workers, Check(w) PROVE Good'
  BY <1>3 DEF Check, TakeCached, Cached
<1>4. ASSUME NEW w \in Workers, Acquire(w) PROVE Good'
  BY <1>4 DEF Acquire, mine
<1>5. ASSUME NEW w \in Workers, GiveUp(w) PROVE Good'
  BY <1>5 DEF GiveUp, Fails, Forget
<1>6. ASSUME NEW w \in Workers, Recheck(w) PROVE Good'
  BY <1>6 DEF Recheck, TakeCached, Cached
<1>7. ASSUME NEW w \in Workers, Generate(w) PROVE Good'
  BY <1>7 DEF Generate, Fails, Forget
<1>8. ASSUME NEW w \in Workers, WriteFails(w) PROVE Good'
  BY <1>8 DEF WriteFails, Fails, Forget
<1>9. ASSUME NEW w \in Workers, Replace(w) PROVE Good'
  BY <1>9 DEF Replace, mine
<1>10. ASSUME NEW w \in Workers, Killed(w) PROVE Good'
  BY <1>10 DEF Killed, Forget
<1>11. CASE Edit
  BY <1>11 DEF Edit, mine
<1>12. CASE Damage
  BY <1>12 DEF Damage, Malformed, mine
<1>13. CASE UNCHANGED vars
  BY <1>13 DEF vars, mine
<1> QED
  BY <1>1, <1>2, <1>3, <1>4, <1>5, <1>6, <1>7, <1>8, <1>9, <1>10, <1>11, <1>12, <1>13
     DEF Next, Load

\* While no edit comes under a load, what was read first and what was read
\* again are the same text.
LEMMA UndisturbedStep ==
  ASSUME TypeOK, Knows, Undisturbed, [Next]_vars
  PROVE  Undisturbed'
<1> USE DEF TypeOK, Undisturbed, Goto, Loading
<1>1. ASSUME NEW w \in Workers, ReadEntries(w) PROVE Undisturbed'
  BY <1>1 DEF ReadEntries
<1>2. ASSUME NEW w \in Workers, Fingerprint(w) PROVE Undisturbed'
  BY <1>2 DEF Fingerprint
<1>3. ASSUME NEW w \in Workers, Check(w) PROVE Undisturbed'
  BY <1>3 DEF Check, TakeCached, Cached
<1>4. ASSUME NEW w \in Workers, Acquire(w) PROVE Undisturbed'
  BY <1>4 DEF Acquire, mine
<1>5. ASSUME NEW w \in Workers, GiveUp(w) PROVE Undisturbed'
  BY <1>5 DEF GiveUp, Fails, Forget
<1>6. ASSUME NEW w \in Workers, Recheck(w) PROVE Undisturbed'
  BY <1>6 DEF Recheck, TakeCached, Cached
<1>7. ASSUME NEW w \in Workers, Generate(w) PROVE Undisturbed'
  <2>1. pc[w] = "generate" /\ ~disturbed => Generated(w) = texts
    BY DEF Generated, Texts
  <2> QED BY <1>7, <2>1 DEF Generate, Fails, Forget
<1>8. ASSUME NEW w \in Workers, WriteFails(w) PROVE Undisturbed'
  BY <1>8 DEF WriteFails, Fails, Forget
<1>9. ASSUME NEW w \in Workers, Replace(w) PROVE Undisturbed'
  BY <1>9 DEF Replace, mine
<1>10. ASSUME NEW w \in Workers, Killed(w) PROVE Undisturbed'
  BY <1>10 DEF Killed, Forget
<1>11. CASE Edit
  BY <1>11 DEF Edit, mine
<1>12. CASE Damage
  BY <1>12 DEF Damage, Malformed, mine
<1>13. CASE UNCHANGED vars
  BY <1>13 DEF vars, mine
<1> QED
  BY <1>1, <1>2, <1>3, <1>4, <1>5, <1>6, <1>7, <1>8, <1>9, <1>10, <1>11, <1>12, <1>13
     DEF Next, Load

\* Every reachable state satisfies the invariant.
THEOREM DigestInvariance == Spec => []Inv
<1>1. Inv /\ [Next]_vars => Inv'
  BY TypeStep, LockStep, GoodStep, UndisturbedStep DEF Inv
<1> QED BY InitInv, <1>1, PTL DEF Spec

-----------------------------------------------------------------------------
(* The promises. *)

\* Every variable of the loading keeps its type.
THEOREM DigestTypeCorrect == Spec => []TypeOK
<1>1. Inv => TypeOK
  BY DEF Inv
<1> QED BY <1>1, DigestInvariance, PTL

\* One worker at a time generates digests and writes the file.
THEOREM OneGenerator == Spec => []LockInv
<1>1. Inv => LockInv
  BY DEF Inv
<1> QED BY <1>1, DigestInvariance, PTL

\* Unless a text was edited under a load, every worker serves the digests of
\* the dictionary it has the tokens of, and the file is what it says it is.
THEOREM ServedIsOwn == Spec => []ServesItsDictionary
<1>1. Inv => ServesItsDictionary
  BY DEF Inv, Undisturbed, ServesItsDictionary, CacheIsTrue
<1> QED BY <1>1, DigestInvariance, PTL

\* No worker ever serves a refused expansion, its own or a sibling's.
THEOREM NeverServed == Spec => []RefusedIsNeverServed
<1>1. Inv => RefusedIsNeverServed
  BY DEF Inv, Good, RefusedIsNeverServed
<1> QED BY <1>1, DigestInvariance, PTL

\* No step of a worker takes a valid file away, wherever it is killed.
THEOREM FileSurvives == Spec => OldFileOrNew
<1>1. [Next]_vars => [pc' # pc /\ file.valid => file'.valid]_vars
  <2> SUFFICES ASSUME Next, pc' # pc, file.valid
               PROVE  file'.valid
    OBVIOUS
  <2>1. ASSUME NEW w \in Workers, ReadEntries(w) \/ Load(w) \/ Killed(w)
        PROVE  file'.valid
    BY <2>1 DEF ReadEntries, Load, Fingerprint, Check, Acquire, GiveUp, Recheck, Generate,
                WriteFails, Replace, Killed
  <2>2. ~Edit /\ ~Damage
    BY DEF Edit, Damage
  <2> QED BY <2>1, <2>2 DEF Next
<1> QED BY <1>1, PTL DEF Spec, OldFileOrNew

\* A worker generates only what the file did not hold when it looked.
THEOREM GenerationIsNeeded == Spec => NoIdleGeneration
<1>1. ASSUME Inv, Next, NEW w \in Workers, pc[w] # "generate", pc'[w] = "generate"
      PROVE  ~Cached(w)
  <2>1. ASSUME NEW v \in Workers, ReadEntries(v) \/ Load(v) \/ Killed(v)
        PROVE  ~Cached(w)
    BY <1>1, <2>1 DEF Inv, TypeOK, Goto, ReadEntries, Load, Fingerprint, Check, TakeCached,
       Acquire, GiveUp, Recheck, Generate, WriteFails, Replace, Killed, Fails
  <2>2. ~Edit /\ ~Damage
    BY <1>1 DEF Edit, Damage
  <2> QED BY <1>1, <2>1, <2>2 DEF Next
<1>2. Inv /\ [Next]_vars
      => [\A w \in Workers : pc[w] # "generate" /\ pc'[w] = "generate" => ~Cached(w)]_vars
  BY <1>1
<1> QED BY <1>2, DigestInvariance, PTL DEF Spec, NoIdleGeneration

=============================================================================
