\* One session whose failures never strike work in progress.
SPECIFICATION Spec
CONSTANTS
    w1 = w1
    w2 = w2
    w3 = w3
    Writes <- MCWrites
    Faults <- NoFaults
SYMMETRY MCSymmetry
INVARIANTS
    TypeOK
    NoSurprise
    PendingWorkIsThere
    CommittedWorkIsDurable
PROPERTIES
    OracleSemantics
\* The session may have hung up, and the changes are finitely many.
CHECK_DEADLOCK FALSE
