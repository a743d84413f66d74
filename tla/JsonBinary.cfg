\* Values at both sides of every bound, cut anywhere, and other bytes.
SPECIFICATION Spec
CONSTANTS
    Inputs <- MCInputs
INVARIANTS
    WrittenIsRead
    ReadsInVector
CHECK_DEADLOCK FALSE
