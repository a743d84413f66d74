\* Every sequence of up to MaxTokens tokens.
SPECIFICATION Spec
CONSTANTS
    Tokens <- MCTokens
    MaxTokens = 10
    Addresses = {1, 2, 3, 4, 5, 6, 7, 8, 9, 10}
INVARIANTS
    OneOwner
    ParsesDocuments
CHECK_DEADLOCK FALSE
