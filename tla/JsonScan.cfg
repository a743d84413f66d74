\* Every text of MCTexts, scanned from its beginning to its end.
SPECIFICATION FairSpec
CONSTANTS
    Bits = 4
    MaxExponent = 5
    Texts <- MCTexts
INVARIANTS
    ReadsInBuffer
    LongestToken
    TokenMeans
    DumpedIsRead
PROPERTY ScanEnds
CHECK_DEADLOCK FALSE
