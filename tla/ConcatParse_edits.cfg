\* Strict and lenient parses while the description and its files change.
SPECIFICATION Spec
CONSTANTS
    Paths = {"a", "b"}
    FileStates <- ChangingStates
    Documents <- EditedDocuments
    Descriptors = {3, 4, 5}
    Modes = {TRUE, FALSE}
    Edits = TRUE
    MaxSize = 3
    MaxLength = 4
    IntSpan = 16
    LongSpan = 64
CHECK_DEADLOCK FALSE
INVARIANTS ParsedWellFormed FailedIsEmpty OwnDescriptors DescriptorsAccounted
PROPERTIES TableRestored
