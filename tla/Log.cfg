SPECIFICATION LiveSpec
CONSTANTS
    Writers <- Threads
    QueueSize = 2
    SplitLines = 2
    MaxCalls = 3
    MaxDay = 1
INVARIANTS
    TypeOK
    QueueBounded
    NoLostWakeup
PROPERTIES
    InOrder
    GetsThrough
    KeepsWriting
    CloseEnds
CHECK_DEADLOCK FALSE
