--------------------------- MODULE MCHealthRecords --------------------------
(***************************************************************************)
(* Two workers over one file, and one backend that is in use; another was  *)
(* switched off after it failed, and its row is still there.               *)
(***************************************************************************)
EXTENDS HealthRecords, TLC

CONSTANTS w1, w2, t1, t2, hibp, weakpass

MCWorkerOf == [t \in Threads |-> IF t = t1 THEN w1 ELSE w2]

\* Both have answered once, and the one switched off failed after it.
MCPast == <<[name |-> hibp, ok |-> TRUE], [name |-> weakpass, ok |-> FALSE]>>
=============================================================================
