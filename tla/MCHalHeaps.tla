------------------------------ MODULE MCHalHeaps ------------------------------
(* HalHeaps on a few tasks, kernels and heap blocks. *)
EXTENDS HalHeaps, TLC

CONSTANTS t1, t2, t3, t4, ka, kb, kc, kd, ke

MCTasks == {t1, t2, t3, t4}
MCKernels == {ka, kb, kc, kd, ke}
MCSize == [k \in MCKernels |-> IF k = ke THEN 4 ELSE IF k = kd THEN 2 ELSE 1]

Call(ks, w, d1, m) == [kernels |-> ks, walker |-> w, dirty |-> d1, mask |-> m]

\* The last one needs the whole heap.
MCCalls ==
    {Call(<<ka, kb, kc>>, FALSE, FALSE, FALSE), Call(<<kd, ka, kc>>, FALSE, TRUE, TRUE),
     Call(<<kb>>, FALSE, TRUE, FALSE), Call(<<ke>>, TRUE, FALSE, FALSE)}
MCSymmetry == Permutations(MCTasks)
=============================================================================
