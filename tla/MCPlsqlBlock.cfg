\* Blocks of up to three statements, with and without handlers.
SPECIFICATION Spec
CONSTANTS
    Blocks <- MCBlocks
    MaxBody = 3
INVARIANTS
    TypeOK
    OnlyKnownRemnants
    RunsOnce
    OnlyKnownReorderings
PROPERTIES
    BlockIsOneCall
\* The block has been answered.
CHECK_DEADLOCK FALSE
