SPECIFICATION Spec
CONSTANTS
  KernelInfo <- MCKernelInfo
  Jobs <- MCJobs
  Callers = {c1}
  Gpus <- MCGpus
  ThreadsPerSubSlice = 3
  MaxCalls = 3
  Careful = TRUE
INVARIANTS
  EachThreadInItsStep
PROPERTIES
  WaitsForItsOwnNeighbours
CHECK_DEADLOCK FALSE
