SPECIFICATION InferenceSpec
CONSTANTS
  Token = {1, 2}
  EosToken = 2
  Arch = {"rotary", "flash", "plain"}
  MaxLength = {2, 5}
  PromptLength = {1, 4}
  BatchSize = {1, 2}
  Lookahead = {1, 2}
  MaxCalls = 3
  SeqlenK = 8
  HeadDim = {64, 128}
  BlockSize = {2, 4}
  MaxSplits = 4
  Launches <- VarlenLaunches
  kBlockM = 2
  kBlockN = 2
  BatchesPerWarp = 2
  BatchesPerCta = 4
  HeadField = 8
  SplitField = 4
  KvBlocksInL2 = 4
INVARIANTS
  UsableGraphsSeeThePrefix
  OnlyRefusedCallsFail
  EndsAtMaxLengthOrOneMore
  IncrementalEqualsAttention
  VarlenEqualsAttention
  TilesDecodedOnce
PROPERTIES
  GraphsStayLive
  ImplementsDecoder
CHECK_DEADLOCK FALSE
