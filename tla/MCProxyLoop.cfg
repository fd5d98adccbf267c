\* PostgreSQL ends idle transactions: every request is answered.
SPECIFICATION FairSpec
CONSTANTS
    c1 = c1
    c2 = c2
    c3 = c3
    r1 = r1
    r2 = r2
    NoClient = NoClient
    Clients <- MCClients
    Rows <- MCRows
    IdleTimeout = TRUE
INVARIANTS
    TypeOK
    LocksAreLive
    OnePacketEach
PROPERTIES
    EveryRequestIsAnswered
\* All clients may leave.
CHECK_DEADLOCK FALSE
