SPECIFICATION MCSpec
CONSTANTS
  Threads = {t1, t2, t3}
  Slots = {0, 1}
  WordSize = 8
  Multiplier = 5
  Increment <- MCIncrement
  Seed <- MCSeed
  MaxCalls = 1
  OutBits = 4
  XorShift = 3
  DropBits = 2
  RotateShift = 6
  Fraction64 = 6
  Fraction32 = 3
  mul = 13
  inc = 6
INVARIANTS
  StreamUnbroken
  NumbersUniform
PROPERTIES
  ImplementsStreams
  EveryCallReturns
