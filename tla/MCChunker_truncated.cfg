SPECIFICATION Spec
CONSTANTS
  Byte <- MCByte
  Gear <- MCGear
  WordBits = 7
  MinimumSize = 2
  AverageSize = 8
  MaximumSize = 10
  MaxInt = 31
  Streams <- MCFewStreams
  MaxStreams = 1
INVARIANTS
  SummaryMeansComplete
