SPECIFICATION SparseTableSpec
CONSTANTS
  SeqlenK = 8
  HeadDim = {128}
  BlockSize = {2, 4}
  MaxSplits = 4
INVARIANTS
  EmptyTableIsEmptyPartial
CHECK_DEADLOCK FALSE
