\* PostgreSQL as it is installed: no idle timeout.
SPECIFICATION FairSpec
CONSTANTS
    c1 = c1
    c2 = c2
    c3 = c3
    r1 = r1
    r2 = r2
    NoClient = NoClient
    Clients <- MCClients
    Rows <- MCRows
    IdleTimeout = FALSE
PROPERTY
    HolderIsServed
CHECK_DEADLOCK FALSE
