\* Every replacement of a small range, in descriptions nobody edits.
SPECIFICATION FairSpec
CONSTANTS
    Paths = {"a", "b"}
    FileStates <- MCStates
    Documents <- ItemDocuments
    Descriptors = {3, 4, 5}
    Modes = {TRUE}
    Edits = FALSE
    MaxSize = 3
    MaxLength = 4
    IntSpan = 16
    LongSpan = 64
CHECK_DEADLOCK FALSE
INVARIANT ContentCovers
PROPERTIES ParseEnds
