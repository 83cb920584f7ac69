SPECIFICATION FairSpec
CONSTANTS
    t1 = t1
    t2 = t2
    t3 = t3
    s1 = s1
    s2 = s2
    NULL = NULL
    Tasks <- MCTasks
    MaxTasks = 2
    Surfaces <- MCSurfaces
    Uses <- MCUses
    HalMayFail = FALSE
    AllocMayFail = FALSE
    MayTimeout = FALSE
    MaxDepth = 5
INVARIANTS
    NoPopOfEmptyList
PROPERTIES
    ImplementsTaskOrder
    CallsReturn
    WaitSeesTheEnd
