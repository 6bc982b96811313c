----------------------------- MODULE MCAuditLog -----------------------------
(***************************************************************************)
(* Instances of AuditLog for TLC.                                          *)
(***************************************************************************)
EXTENDS AuditLog, TLC

CONSTANTS t1, t2, l1, l2

OneObject == (t1 :> l1) @@ (t2 :> l1)     \* two threads of one process
TwoObjects == (t1 :> l1) @@ (t2 :> l2)    \* two processes

\* The threads of one process are interchangeable (runs without liveness only).
ThreadSymmetry == Permutations(Threads)
=============================================================================
