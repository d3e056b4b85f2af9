\* Six published vectors, to the second block of output.  A run ends with its
\* output read, so that a finished state has no step.
SPECIFICATION Spec
CONSTANTS
    Vectors <- MCVectors
    OutputBlocks = 2
INVARIANTS
    MatchesVectors
CHECK_DEADLOCK FALSE
