\* Requests on objects of up to three chunks; files shrink and grow between preads.
SPECIFICATION FairSpec
CONSTANTS
    MaxSize = 2
    Objects <- MCObjects
    Offsets = {0, 1, 2, 5}
    Counts = {0, 2, 6}
    BufSize = 7
    MaxLen = 1
    StaleErrno = {0, 22}
    EBADF = 9
    UInt64 = 16
INVARIANTS ReadCorrect ReadComplete BufferRespected
PROPERTIES Answered ImplementsView
