SPECIFICATION FairSpec
CONSTANTS
  g1 = g1
  g2 = g2
  Goroutines <- MCGoroutines
  Bodies <- MCBodies
  MaxRecords = 3
INVARIANTS
  TypeOK
  MutualExclusion
  EveryByteCounted
  CacheHoldsTheNewChunks
PROPERTIES
  RefinesLedger
  CallsReturn
