--------------------------- MODULE MCKernelPrologue ---------------------------
(* Arguments of every size, in and out of order, split over registers. *)
EXTENDS KernelPrologue

General(offset, size) == [offset |-> offset, size |-> size, kind |-> "general"]
Surfaces(offset, n) == [offset |-> offset, size |-> 4 * n, kind |-> "surfaces"]

MCLayouts ==
    {<<General(32, 4), General(36, 4), Surfaces(40, 1)>>,
     <<General(48, 8), General(32, 4), Surfaces(36, 3)>>,
     <<General(32, 1), General(33, 1), General(34, 2), General(36, 32)>>,
     <<Surfaces(32, 2), General(40, 40), General(80, 20)>>,
     <<General(32, 64), General(96, 4)>>}
=============================================================================
