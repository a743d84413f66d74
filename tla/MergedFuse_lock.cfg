\* Two files, one descriptor: descriptions that block, and plain files beside them.
SPECIFICATION FairSpec
CONSTANTS
    Threads = {t1, t2}
    Files = {f1, f2}
    Descriptors = {d1}
    Objects = {1, 2, 3, 4}
    Kinds = {"plain", "blocking"}
    MaxRenames = 0
    KeepForgotten = TRUE
    NoThread = NoThread
    NoDescriptor = NoDescriptor
    NoObject = 0
    NoFile = NoFile
INVARIANTS HeapAccounted
PROPERTIES LockReleased PlainServed
