SPECIFICATION Spec
SYMMETRY MCSymmetry
CONSTANTS
    th1 = th1
    th2 = th2
    k1 = k1
    k2 = k2
    t1 = t1
    t2 = t2
    t3 = t3
    NULL = NULL
    Threads = {th1, th2}
    Kernels = {k1, k2}
    Tasks <- MCTasks
    KernelOf <- MCKernelOf
    MaxTasks = 1
INVARIANTS
    DeletedIsNotTouched
    CountsAreHolders
    KernelCountsAreWhole
    SlotHoldsEvent
