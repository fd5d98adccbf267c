\* The block of the repository's test pls.006, among others.
SPECIFICATION Spec
CONSTANTS
    Blocks <- MCBlocks
    MaxBody = 3
INVARIANT
    HandlerCatches
CHECK_DEADLOCK FALSE
