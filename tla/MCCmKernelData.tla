---------------------------- MODULE MCCmKernelData ----------------------------
(* CmKernelData with one or two kernels and a few tasks. *)
EXTENDS CmKernelData, TLC

CONSTANTS u, v

MCSymmetry == Permutations({u, v})

\* Of the second and the third, only the second leaves the last unit alone.
MCThreadIds == {<<1, 2, 3>>, <<2, 1, 3>>, <<1, 3, 2>>}
MCServes == [s \in Spaces |-> CHOOSE k \in Kernels : k \notin Grouped]
=============================================================================
