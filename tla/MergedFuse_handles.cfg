\* Two threads, two files that gain and lose their merged names.
SPECIFICATION Spec
CONSTANTS
    Threads = {t1, t2}
    Files = {f1, f2}
    Descriptors = {d1, d2}
    Objects = {1, 2, 3, 4}
    Kinds = {"plain", "sizes", "valid"}
    MaxRenames = 1
    KeepForgotten = FALSE
    NoThread = NoThread
    NoDescriptor = NoDescriptor
    NoObject = 0
    NoFile = NoFile
SYMMETRY Interchangeable
INVARIANTS NoUseAfterFree DeletedOnce TableSound ReadAsOpened WriteProtected OpenServes NoneStranded
