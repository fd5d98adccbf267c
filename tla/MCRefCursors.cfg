\* Three cursor ids, of which the answers can carry two.
SPECIFICATION FairSpec
CONSTANTS
    a1 = a1
    a2 = a2
    a3 = a3
    b1 = b1
    Rows <- MCRows
    Results <- MCResults
    BatchSizes <- MCBatchSizes
    MaxBinds = 2
    MaxId = 3
    IdLimit = 2
INVARIANTS
    TypeOK
    RowsAccounted
    EofMeansAll
PROPERTIES
    ClosedStaysClosed
    EveryResultEnds
