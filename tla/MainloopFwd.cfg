\* Three warpgroups in a ring of turns (hdim 64), two stages, every epilogue.
CONSTANTS
  NumMmaWarpGroups = 3
  kStages = 2
  UseSchedulerBarrier = TRUE
  Launches <- KernelLaunches
  NoBlock = NoBlock
SPECIFICATION FairSpec
INVARIANTS
  TypeOK
  SmemSafe
  ParityUnambiguous
  NamedBarriersUnmixed
  DrainedOnExit
PROPERTIES
  ImplementsCtaAttention
  PipelinesAreRings
  Terminates
