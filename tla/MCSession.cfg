\* One connection from its first packet to its end, with every fault.
SPECIFICATION Spec
CONSTANTS
    w1 = w1
    w2 = w2
    r1 = r1
    r2 = r2
    Writes <- MCWrites
    Faults <- AllFaults
    Rows <- MCRows
    Results <- MCResults
    BatchSizes <- MCBatchSizes
    MaxBinds = 1
    MaxId = 2
    IdLimit = 1
SYMMETRY MCSymmetry
INVARIANTS
    TypeOK
    EndedReleasesBackend
    ClosedIsNotServed
    LoginComesFirst
    NoResurrection
    OnlyKnownLosses
    NoSurprise
    RowsAccounted
\* An ended session stays ended.
CHECK_DEADLOCK FALSE
