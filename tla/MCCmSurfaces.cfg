SPECIFICATION LiveSpec
CONSTANTS
    i1 = i1
    i2 = i2
    t1 = t1
    t2 = t2
    th1 = th1
    th2 = th2
    NULL = NULL
    Threads = {th1, th2}
    Tasks = {t1, t2}
    Indices = {i1, i2}
    Kinds = {"BUFFERUP", "SURFACE2D"}
    MaxCount <- OneBuffer
    Reuse = TRUE
    MaxDestroyId = 1
    TasksNeedSurfaces = TRUE
    AllocMayFail = TRUE
    EventMayFail = TRUE
    FlushMayTimeout = TRUE
ACTION_CONSTRAINTS
    InOrder
    NoCallsOnceStuck
INVARIANTS
    PendingSurfacesAlive
    HeldSurfacesAlive
    DeadlockNeedsReclaim
PROPERTIES
    WaitsForTheGpu
    CallsReturn
CHECK_DEADLOCK FALSE
