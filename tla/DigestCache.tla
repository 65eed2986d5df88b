---------------------------- MODULE DigestCache -----------------------------
(***************************************************************************)
(* How worker processes load the organisation denylist                     *)
(* (amiweak/denylist.py) and share the SHA-1 digests they derive from it   *)
(* in one cache file (amiweak/digest_store.py).                            *)
(*                                                                         *)
(* A text is a model value, a digest set is the pair of texts it was       *)
(* generated from, and so is a fingerprint: different contents have        *)
(* different digests and different fingerprints.  Every worker reads the   *)
(* dictionary, then takes the fingerprint of the dictionary and the rules, *)
(* and then looks for the digests in the file, which it writes itself if   *)
(* it must, under a lock.  Operators edit the texts, files get damaged,    *)
(* and workers are killed and started at any time.                         *)
(***************************************************************************)
EXTENDS Naturals, FiniteSets

CONSTANTS
    Workers,          \* worker processes
    Dictionaries,     \* contents of denylist.path
    Rules,            \* contents of denylist.rules
    Refused           \* texts whose rules hcrulepy refuses, or whose expansion
                      \* is beyond max_digests

ASSUME TextAssumption ==
    Refused \subseteq [dictionary : Dictionaries, rules : Rules]

Nobody == "nobody"
NoText == "none"
NoTexts == [dictionary |-> NoText, rules |-> NoText]
ASSUME NamesAssumption == Nobody \notin Workers /\ NoText \notin Dictionaries

Texts == [dictionary : Dictionaries, rules : Rules]

\* What an unreadable, truncated or foreign file is to read_cache.
Malformed == [valid |-> FALSE]
CacheFile == [valid : {TRUE}, fingerprint : Texts, digests : Texts]

Loading == {"fingerprint", "check", "lock", "recheck", "generate", "write"}
Places == Loading \cup {"down", "serving"}
InLock == {"recheck", "generate", "write"}

VARIABLES
    texts,        \* what denylist.path and denylist.rules hold
    file,         \* the cache file
    lock,         \* the holder of its lock
    pc,           \* where each worker is in Denylist.load
    entries,      \* the dictionary it read: its tokens
    fingerprint,  \* the fingerprint it took
    digests,      \* the digests it serves, or has generated
    disturbed     \* observer: a text was edited while a worker loaded

mine == <<entries, fingerprint, digests>>
vars == <<texts, file, lock, pc, mine, disturbed>>

TypeOK ==
    /\ texts \in Texts
    /\ file \in CacheFile \cup {Malformed}
    /\ lock \in Workers \cup {Nobody}
    /\ pc \in [Workers -> Places]
    /\ entries \in [Workers -> Dictionaries \cup {NoText}]
    /\ fingerprint \in [Workers -> Texts \cup {NoTexts}]
    /\ digests \in [Workers -> Texts \cup {NoTexts}]
    /\ disturbed \in BOOLEAN

Init ==
    /\ texts \in Texts
    /\ file = Malformed
    /\ lock = Nobody
    /\ pc = [w \in Workers |-> "down"]
    /\ entries = [w \in Workers |-> NoText]
    /\ fingerprint = [w \in Workers |-> NoTexts]
    /\ digests = [w \in Workers |-> NoTexts]
    /\ disturbed = FALSE

-----------------------------------------------------------------------------
(* Denylist.load. *)

Goto(w, place) == pc' = [pc EXCEPT ![w] = place]

\* A process that ends takes what it has read with it.
Forget(w) ==
    /\ entries' = [entries EXCEPT ![w] = NoText]
    /\ fingerprint' = [fingerprint EXCEPT ![w] = NoTexts]
    /\ digests' = [digests EXCEPT ![w] = NoTexts]

\* The load raises: with blocks let go of the lock, and the process ends.
Fails(w) ==
    /\ Goto(w, "down")
    /\ lock' = IF lock = w THEN Nobody ELSE lock
    /\ Forget(w)

\* Fault: any file of the right shape will do.
AnyFile(w) == file.valid

\* read_cache found this worker's digests.
Cached(w) == file.valid /\ file.fingerprint = fingerprint[w]

\* A worker starts with _read_entries.  One that meets too short an entry, or no
\* dictionary, ends there and then.
ReadEntries(w) ==
    /\ pc[w] = "down"
    /\ entries' = [entries EXCEPT ![w] = texts.dictionary]
    /\ Goto(w, "fingerprint")
    /\ UNCHANGED <<texts, file, lock, fingerprint, digests, disturbed>>

\* _fingerprint reads both files again.
Fingerprint(w) ==
    /\ pc[w] = "fingerprint"
    /\ fingerprint' = [fingerprint EXCEPT ![w] = texts]
    /\ Goto(w, "check")
    /\ UNCHANGED <<texts, file, lock, entries, digests, disturbed>>

TakeCached(w) ==
    /\ digests' = [digests EXCEPT ![w] = file.digests]
    /\ Goto(w, "serving")

\* The first look at the file, with no lock.
Check(w) ==
    /\ pc[w] = "check"
    /\ IF Cached(w)
       THEN TakeCached(w)
       ELSE Goto(w, "lock") /\ UNCHANGED digests
    /\ UNCHANGED <<texts, file, lock, entries, fingerprint, disturbed>>

Acquire(w) ==
    /\ pc[w] = "lock"
    /\ lock = Nobody
    /\ lock' = w
    /\ Goto(w, "recheck")
    /\ UNCHANGED <<texts, file, mine, disturbed>>

\* Fault: FileLock without a timeout waits for ever.
WaitForEver(w) == FALSE

\* LOCK_TIMEOUT, or a lock file that cannot be created.
GiveUp(w) ==
    /\ pc[w] = "lock"
    /\ Fails(w)
    /\ UNCHANGED <<texts, file, disturbed>>

\* Fault: the holder goes straight to work.
NoRecheck(w) ==
    /\ pc[w] = "recheck"
    /\ Goto(w, "generate")
    /\ UNCHANGED <<texts, file, lock, mine, disturbed>>

\* "A sibling worker may have generated it between the check above and the lock."
Recheck(w) ==
    /\ pc[w] = "recheck"
    /\ IF Cached(w)
       THEN TakeCached(w) /\ lock' = Nobody
       ELSE Goto(w, "generate") /\ UNCHANGED <<digests, lock>>
    /\ UNCHANGED <<texts, file, entries, fingerprint, disturbed>>

\* What generate_digests makes of the entries read at first and the rules as
\* they are now.
Generated(w) == [dictionary |-> entries[w], rules |-> texts.rules]

\* Fault: what cannot be expanded is left out.
GenerateAnyway(w) ==
    /\ pc[w] = "generate"
    /\ digests' = [digests EXCEPT ![w] = Generated(w)]
    /\ Goto(w, "write")
    /\ UNCHANGED <<texts, file, lock, entries, fingerprint, disturbed>>

\* Fault: the file itself is opened for writing, and is cut short meanwhile.
GenerateInPlace(w) ==
    /\ pc[w] = "generate"
    /\ digests' = [digests EXCEPT ![w] = Generated(w)]
    /\ file' = Malformed
    /\ Goto(w, "write")
    /\ UNCHANGED <<texts, lock, entries, fingerprint, disturbed>>

Generate(w) ==
    /\ pc[w] = "generate"
    /\ IF Generated(w) \in Refused
       THEN Fails(w)
       ELSE /\ digests' = [digests EXCEPT ![w] = Generated(w)]
            /\ Goto(w, "write")
            /\ UNCHANGED <<lock, entries, fingerprint>>
    /\ UNCHANGED <<texts, file, disturbed>>

\* write_cache fills a file of this process's own, which may fail, the disk
\* being full or the directory read-only ...
WriteFails(w) ==
    /\ pc[w] = "write"
    /\ Fails(w)
    /\ UNCHANGED <<texts, file, disturbed>>

\* ... and os.replace puts it in the place of the old one in one step.
Replace(w) ==
    /\ pc[w] = "write"
    /\ file' = [valid |-> TRUE, fingerprint |-> fingerprint[w], digests |-> digests[w]]
    /\ lock' = Nobody
    /\ Goto(w, "serving")
    /\ UNCHANGED <<texts, mine, disturbed>>

-----------------------------------------------------------------------------
(* The world around. *)

\* A worker dies, and the system lets go of its lock.
Killed(w) ==
    /\ pc[w] # "down"
    /\ Goto(w, "down")
    /\ lock' = IF lock = w THEN Nobody ELSE lock
    /\ Forget(w)
    /\ UNCHANGED <<texts, file, disturbed>>

\* An operator edits the dictionary or the rules, or restores them.
Edit ==
    /\ texts' \in Texts \ {texts}
    /\ texts'.dictionary = texts.dictionary \/ texts'.rules = texts.rules
    /\ disturbed' = (disturbed \/ \E w \in Workers : pc[w] \in Loading)
    /\ UNCHANGED <<file, lock, pc, mine>>

\* The cache file is deleted, cut short by a copy, or left by another format.
Damage ==
    /\ file # Malformed
    /\ file' = Malformed
    /\ UNCHANGED <<texts, lock, pc, mine, disturbed>>

Load(w) ==
    \/ Fingerprint(w) \/ Check(w)
    \/ Acquire(w) \/ GiveUp(w) \/ Recheck(w)
    \/ Generate(w) \/ WriteFails(w) \/ Replace(w)

Next ==
    \/ \E w \in Workers : ReadEntries(w) \/ Load(w) \/ Killed(w)
    \/ Edit
    \/ Damage

Spec == Init /\ [][Next]_vars

\* A worker that loads goes on loading; nobody need start, edit or kill.
Fairness == \A w \in Workers : WF_vars(Load(w))

FairSpec == Spec /\ Fairness

-----------------------------------------------------------------------------
(* What the loading promises. *)

\* Only the holder of the lock is past it, and so only one worker at a time
\* pays for a generation, or writes the file.
LockInv ==
    \A w \in Workers : pc[w] \in InLock <=> lock = w

\* "correct across copies, redeploys, and edits" (denylist.py:121): the file
\* that reads back holds the digests its fingerprint names.
CacheIsTrue ==
    file.valid => file.digests = file.fingerprint

\* As long as nobody edits a text under a worker that loads it, the file is
\* true, and the plaintext gate and the digest backend of a worker speak of the
\* same dictionary, by the rules it took the fingerprint of: whoever generated
\* the digests, and whatever was edited, restored or damaged between loads.
ServesItsDictionary ==
    ~disturbed =>
        /\ CacheIsTrue
        /\ \A w \in Workers : pc[w] = "serving" =>
              /\ digests[w] = fingerprint[w]
              /\ digests[w].dictionary = entries[w]

\* Refused rules and an expansion beyond max_digests are
\* never served, by the worker that met them or by a sibling from the file.
RefusedIsNeverServed ==
    \A w \in Workers : pc[w] = "serving" =>
        digests[w] \notin Refused

\* No generation starts for digests the file has: a worker that waited for a
\* sibling takes what the sibling wrote.
NoIdleGeneration ==
    [][\A w \in Workers : pc[w] # "generate" /\ pc'[w] = "generate" => ~Cached(w)]_vars

\* "no reader sees a partial file", whenever the writer is killed: no worker's
\* step takes a valid file away.
OldFileOrNew ==
    [][pc' # pc /\ file.valid => file'.valid]_vars

\* A worker that loads comes to serve, or ends: it does not wait for ever,
\* whatever becomes of the workers it waits for.
LoadEnds ==
    \A w \in Workers : pc[w] \in Loading ~> pc[w] \notin Loading

=============================================================================
