\* ROLLBACK TO may have work to keep.
SPECIFICATION Spec
CONSTANTS
    w1 = w1
    w2 = w2
    w3 = w3
    Writes <- MCWrites
    Faults <- PartialRollback
INVARIANT
    PendingWorkIsThere
CHECK_DEADLOCK FALSE
