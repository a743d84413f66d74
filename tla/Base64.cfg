SPECIFICATION Spec
CONSTANTS
    Quarter = 2
    Buffers <- MCBuffers
    Texts <- MCTexts
INVARIANTS
    RoundTrip
    DecodesPrefix
CHECK_DEADLOCK FALSE
