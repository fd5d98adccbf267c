\* Every way to cut and to end a stream of up to four packets.
SPECIFICATION Spec
CONSTANTS
    Packets <- MCPackets
    HeaderSize = 2
    MaxPackets = 4
    MaxChunks = 2
    HighWater = 1
INVARIANTS
    TypeOK
    OnlyKnownShifts
PROPERTIES
    PacketsInOrder
    EveryPacketIsTakenUp
    LeaverIsNoticed
\* A connection ends.
CHECK_DEADLOCK FALSE
