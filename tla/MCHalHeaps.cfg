SPECIFICATION Spec
SYMMETRY MCSymmetry
CONSTANTS
    t1 = t1
    t2 = t2
    t3 = t3
    t4 = t4
    ka = ka
    kb = kb
    kc = kc
    kd = kd
    ke = ke
    NULL = NULL
    NoKernel = NoKernel
    Tasks <- MCTasks
    MaxTasks = 2
    Kernels <- MCKernels
    Size <- MCSize
    HeapSize = 4
    MaxEntries = 3
    Calls <- MCCalls
    MayFail = TRUE
    MaxCalls = 4
INVARIANTS
    FinishedIsTrue
    RingOwnsItsSlots
    LoadedKernelsAreIntact
    BatchRunsItsKernels
    MediaStateWillBeFree
PROPERTIES
    ImplementsHalCmTask
