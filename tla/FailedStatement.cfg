\* A statement may fail on top of pending work.
SPECIFICATION Spec
CONSTANTS
    w1 = w1
    w2 = w2
    w3 = w3
    Writes <- MCWrites
    Faults <- FailedStatement
INVARIANT
    CommittedWorkIsDurable
CHECK_DEADLOCK FALSE
