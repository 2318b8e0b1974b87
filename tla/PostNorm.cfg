\* GPTs with LayerNorm behind the branches, with dropout.
CONSTANTS
  Config <- PostNormModels
  ProgramOf <- Program
SPECIFICATION ModelSpec
INVARIANT ForwardAsDocumented
CHECK_DEADLOCK FALSE
