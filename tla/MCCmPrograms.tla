---------------------------- MODULE MCCmPrograms ----------------------------
(* Two programs of one kernel or two, two kernels, a few tasks. *)
EXTENDS CmPrograms, TLC

CONSTANTS p1, p2, k1, k2, t1, t2, n1, n2

MCSymmetry == Permutations(Programs) \cup Permutations(Kernels) \cup
              Permutations(Tasks) \cup Permutations(Names)
=============================================================================
