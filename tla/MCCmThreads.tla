------------------------------ MODULE MCCmThreads ------------------------------
(***************************************************************************)
(* CmThreads with two threads: two tasks share a kernel, a third has one   *)
(* of its own.                                                             *)
(***************************************************************************)
EXTENDS CmThreads, TLC

CONSTANTS th1, th2, k1, k2, t1, t2, t3

MCTasks == {t1, t2, t3}
MCKernelOf == [t \in Tasks |-> IF t = t3 THEN k2 ELSE k1]

MCSymmetry == Permutations({th1, th2})
=============================================================================
