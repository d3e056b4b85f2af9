SPECIFICATION FairSpec
CONSTANTS
  Byte <- MCByte
  Gear <- MCGear
  WordBits = 7
  MinimumSize = 2
  AverageSize = 8
  MaximumSize = 10
  MaxInt = 31
  Streams <- MCStreams
  MaxStreams = 2
INVARIANTS
  TypeOK
  ReadFitsBuffer
  BufferMirrorsStream
  SummarySound
  FindsTheCut
  BoundaryIsLocal
PROPERTIES
  PromiseKept
  DrainsStream
