----------------------------- MODULE MCRateLimit ----------------------------
(***************************************************************************)
(* Two small deployments for RateLimit.                                    *)
(***************************************************************************)
EXTENDS RateLimit, TLC

CONSTANTS t1, t2, w1

Audit == "batch:client"
Check == "policy:client"

MCWorkerOf == [t \in Threads |-> w1]
MCNamespaceOf == [k \in Keys |-> IF k = Check THEN "policy" ELSE "batch"]

-----------------------------------------------------------------------------
(* Two threads of one worker spend from one bucket, half of it or all, in  *)
(* the shared file and in the worker's own store, with a tick to wait and  *)
(* time for the bucket to go stale and come back.                          *)

OnePeriod == [n \in Namespaces |-> 1]
OneRate == [n \in Namespaces |-> 2]
OneCosts == [n \in Namespaces |-> {1, 2}]
ThreadSymmetry == Permutations(Threads)

-----------------------------------------------------------------------------
(* One thread serves both limiters for one client.  The idle time of the   *)
(* short-period limiter is over before the bucket of the other is full     *)
(* again, as with minutes of single checks beside an hour's audit.         *)

TwoPeriod == [n \in Namespaces |-> IF n = "policy" THEN 1 ELSE 3]
TwoRate == [n \in Namespaces |-> 1]
TwoCosts == [n \in Namespaces |-> IF n = "policy" THEN {1} ELSE {3}]
=============================================================================
