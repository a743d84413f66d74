\* Two variables, few small objects, arrays and strings.
SPECIFICATION Spec
VIEW MCView
SYMMETRY MCSymmetry
CONSTANTS
    Names = {j1, j2}
    Keys <- MCKeys
    Texts <- MCTexts
    Scalars <- MCScalars
    Width = 3
    Precision = 2
    SomeNumbers <- MCNumbers
    Paths <- MCPaths
    MaxCells = 3
    MaxHeld = 3
    Addresses = {1, 2, 3, 4, 5, 6}
INVARIANTS
    OwnedOnce
    Ordered
    DiffThenPatch
    FlattenReturns
    PatchesAsRfc
    IterationVisits
PROPERTY ImplementsValues
CHECK_DEADLOCK FALSE
