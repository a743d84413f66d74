\* Proper descriptions, opened and looked up again and again.
SPECIFICATION Spec
CONSTANTS
    Paths = {"a", "b"}
    FileStates <- LongEnough
    Documents <- GoodDocuments
    Descriptors = {3, 4, 5}
    Modes = {TRUE, FALSE}
    Edits = FALSE
    MaxSize = 3
    MaxLength = 4
    IntSpan = 16
    LongSpan = 64
CHECK_DEADLOCK FALSE
INVARIANTS MergedFileServed
