SPECIFICATION TSpec
CONSTANTS
  OutBits = 4
  XorShift = 3
  DropBits = 2
  RotateShift = 6
  Fraction64 = 6
  Fraction32 = 3
  mul = 13
  inc = 6
INVARIANTS
  Float64Uniform
