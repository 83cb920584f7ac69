SPECIFICATION Spec
CONSTANTS
    Resources <- MCResources
    CmdBos = {b1, b2, b3, b4}
    NoBo = NoBo
    ListSize = 7
    CmdRoom = 175
    MaxCmdBufs = 2
    SurfaceInfo <- MCSurfaceInfo
    NullSurface = "null"
    NumSurfaceStates = 5
    GSH = "GSH"
    TsResource = "Ts"
    Predicated = TRUE
    Jobs <- MCJobs
    BatchBuffer <- MCBatchBuffer
    BufferUPs <- MCBufferUPs
    Machines <- MCMachines
    MaxTag = 3
SYMMETRY MCSymmetry
CHECK_DEADLOCK FALSE
INVARIANTS
    EveryArgumentReadsItsSurface
    CommandsNameTheirBuffers
    KernelsWaitForTheirVectors
    RingBoundsTheGpu
    ReferencesOwned
