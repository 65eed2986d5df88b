---------------------------- MODULE CheckService ----------------------------
(***************************************************************************)
(* What a check promises, without the way it is made: a request is refused *)
(* because no backend can answer for it, or is answered once, in one step. *)
(* The answer is as if each backend in hand had been asked for each of its *)
(* ranges at that moment, and some of them had failed: a range that failed *)
(* failed for every item that needs it, and one that did not says of each  *)
(* item exactly what the backend lists.                                    *)
(*                                                                         *)
(* No cache, no pool and no deadline appear here.  FanOut, where calls     *)
(* share the one, own the other and obey the third, implements it.         *)
(***************************************************************************)
EXTENDS Plans

CONSTANTS
    Calls,      \* the calls there will ever be
    Requests    \* what they may ask

VARIABLES
    phase,      \* of each call: asked, refused or answered
    request,    \* what it asked
    answer      \* what it was answered

vars == <<phase, request, answer>>

NoAnswer == <<>>

Init ==
    /\ phase = [c \in Calls |-> "asked"]
    /\ request \in [Calls -> Requests]
    /\ answer = [c \in Calls |-> NoAnswer]

\* Refused, rather than given an all-clear nobody stands behind.
Refuse(c) ==
    /\ phase[c] = "asked"
    /\ Applicable(request[c].algorithm) = {}
    /\ phase' = [phase EXCEPT ![c] = "refused"]
    /\ UNCHANGED <<request, answer>>

\* The evaluation of each item when some ranges of the plan went unanswered.
EvaluationsWhen(r, unanswered) ==
    [d \in {r.items[i] : i \in DOMAIN r.items} |->
        LET results == [b \in Backends |-> ResultWhen(r, unanswered, b, d)]
        IN  [verdict |-> Resolve(results), degraded |-> Degraded(results)]]

Answer(c) ==
    /\ phase[c] = "asked"
    /\ Applicable(request[c].algorithm) # {}
    /\ \E unanswered \in SUBSET Plan(request[c]) :
          answer' = [answer EXCEPT ![c] = EvaluationsWhen(request[c], unanswered)]
    /\ phase' = [phase EXCEPT ![c] = "answered"]
    /\ UNCHANGED request

Next == \E c \in Calls : Refuse(c) \/ Answer(c)

Spec == Init /\ [][Next]_vars
=============================================================================
