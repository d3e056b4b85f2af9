SPECIFICATION Spec
CONSTANTS
  BlockLen = 4
  MaxInt = 15
  Lengths = {0, 1, 3, 4, 5, 9}
  MaxPosition = 16
INVARIANTS
  UnreadComesNext
PROPERTIES
  ReadsTheStream
