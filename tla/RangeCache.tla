----------------------------- MODULE RangeCache -----------------------------
(***************************************************************************)
(* What a cache of ranges promises to the threads that share it, and all   *)
(* the fan-out relies on: a key holds the last range stored under it, or   *)
(* nothing.  Any entry may be forgotten at any moment, but not the one     *)
(* just stored; whoever reads a key gets what is held under it, and is     *)
(* never told of an entry that is not there.                               *)
(***************************************************************************)
CONSTANTS CacheKeys, Ranges, Threads, Nothing

VARIABLES
    held,     \* the range held under each key, if any
    call,     \* the call each thread is in
    answer    \* what each thread was last told

vars == <<held, call, answer>>

NoCall == [kind |-> "none"]
Call ==
    [kind : {"get", "contains"}, key : CacheKeys]
    \cup [kind : {"put"}, key : CacheKeys, range : Ranges]

Init ==
    /\ held = [k \in CacheKeys |-> Nothing]
    /\ call = [t \in Threads |-> NoCall]
    /\ answer = [t \in Threads |-> "nothing yet"]

Ask(t) ==
    /\ call[t] = NoCall
    /\ \E c \in Call : call' = [call EXCEPT ![t] = c]
    /\ answer' = [answer EXCEPT ![t] = "nothing yet"]
    /\ UNCHANGED held

Ends(t) == call' = [call EXCEPT ![t] = NoCall]

\* What there is to forget.
Full == {k \in CacheKeys : held[k] # Nothing}

Without(gone) == [k \in CacheKeys |-> IF k \in gone THEN Nothing ELSE held[k]]

Forget == \E gone \in SUBSET Full : held' = Without(gone) /\ UNCHANGED <<call, answer>>

Put(t) ==
    /\ call[t].kind = "put"
    /\ Ends(t)
    /\ \E gone \in SUBSET Full : held' = [Without(gone) EXCEPT ![call[t].key] = call[t].range]
    /\ UNCHANGED answer

\* Whoever asks may be the one who notices that an entry is dead.
Get(t) ==
    /\ call[t].kind = "get"
    /\ Ends(t)
    /\ \E gone \in SUBSET Full : held' = Without(gone)
    /\ answer' = [answer EXCEPT ![t] = held'[call[t].key]]

\* "yes" only of an entry that is there; one that is may be called dead.
Contains(t) ==
    /\ call[t].kind = "contains"
    /\ Ends(t)
    /\ \/ answer' = [answer EXCEPT ![t] = "no"]
       \/ /\ held[call[t].key] # Nothing
          /\ answer' = [answer EXCEPT ![t] = "yes"]
    /\ UNCHANGED held

\* A cache that is switched off holds nothing, and need not be waited for.
TurnAway(t) ==
    /\ call[t] = NoCall
    /\ Full = {}
    /\ \/ answer' = [answer EXCEPT ![t] = Nothing]
       \/ answer' = [answer EXCEPT ![t] = "no"]
    /\ UNCHANGED <<held, call>>

Next ==
    \/ Forget
    \/ \E t \in Threads : Ask(t) \/ Put(t) \/ Get(t) \/ Contains(t) \/ TurnAway(t)

Spec == Init /\ [][Next]_vars
=============================================================================
