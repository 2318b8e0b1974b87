CONSTANTS
  Shuffle <- MCShuffle
  NumReplicas = 2
  batch_size = 2
  accumulate_grad_batches = 2
  every_n_train_steps = 2
  max_steps = 5
  PrefetchFactor = 2
  MaxStops = 3
  Config <- AllModels
  ProgramOf <- Program
  Backwards <- MCBackwards
  BwdBlockM = 2
  BwdBlockN = 2
  CtaKernels <- MCKernels
  kStages = 2
  Consumers = {c1, c2, c3}
  NoBlock = NoBlock
  Laps = {0, 1, 2}
SPECIFICATION LevelsSpec
INVARIANTS
  RestartsAtSameBatch
  NoSavedStepLost
  EpochsCoverDataset
  ForwardEqualsReference
  GradientsAreChainRule
  WaitingGradientsKept
  BwdSmemSafe
  TypeOK
  ReadsOwnLap
  RingInv
PROPERTIES
  GradientsExact
  CtaGradientsRight
  NoOverwrite
CHECK_DEADLOCK FALSE
