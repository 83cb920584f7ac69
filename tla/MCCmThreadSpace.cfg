SPECIFICATION Spec
CONSTANTS
  Boards <- MCBoards
  Blocks <- MCBlocks
  DefaultBlock <- MCDefaultBlock
  MaxWidth = 8
  MaxCalls = 4
  Careful = TRUE
INVARIANTS
  LaunchesEachThreadOnce
  DependenciesLaunchFirst
  WavesAreIndependent
CHECK_DEADLOCK FALSE
