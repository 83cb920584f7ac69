SPECIFICATION Spec
CONSTANTS
    t1 = t1
    t2 = t2
    t3 = t3
    s1 = s1
    s2 = s2
    NULL = NULL
    Tasks <- MCTasks
    MaxTasks = 2
    Surfaces <- MCSurfaces
    Uses <- MCUses
    HalMayFail = TRUE
    AllocMayFail = TRUE
    MayTimeout = TRUE
    MaxDepth = 5
INVARIANTS
    TypeOK
    NoTaskLost
    EventOwnsItsSlot
    SlotForEveryFlush
    FinishedMeansRan
    EventReferences
PROPERTIES
