\* Tables of one block for each predicted set.
SPECIFICATION SparseSpec
CONSTANTS
  SeqlenK = 8
  HeadDim = {128}
  BlockSize = {2, 4}
  MaxSplits = 4
INVARIANT IncrementalIsExact
CHECK_DEADLOCK FALSE
