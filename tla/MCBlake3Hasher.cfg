SPECIFICATION FairSpec
CONSTANTS
  BlockLen = 2
  ChunkLen = 4
  Lanes = 2
  Keys <- MCKeys
  WriteSizes = {3, 8, 17}
  MaxBytes = 36
  MaxStarts = 2
INVARIANTS
  PairsFit
  StackHoldsTheTree
  EveryByteKept
PROPERTIES
  RefinesTree
  CallsReturn
