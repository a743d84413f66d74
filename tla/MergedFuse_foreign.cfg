\* README: the merged content of the files that you set.
SPECIFICATION Spec
CONSTANTS
    Threads = {t1, t2}
    Files = {f1, f2}
    Descriptors = {d1, d2}
    Objects = {1, 2, 3, 4}
    Kinds = {"plain", "valid"}
    MaxRenames = 1
    KeepForgotten = FALSE
    NoThread = NoThread
    NoDescriptor = NoDescriptor
    NoObject = 0
    NoFile = NoFile
SYMMETRY Interchangeable
INVARIANTS OwnContent
