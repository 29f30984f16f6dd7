SPECIFICATION FairSpec
CONSTANTS
    BatchSize = 2
    QueueSize = 2
    MemoryLimit = 2
    MaxMessages = 5
INVARIANTS
    InOrder
    EachInOnePlace
    MemoryIsAccounted
    ShutdownProcessesAll
PROPERTY
    ShutdownReturns
CHECK_DEADLOCK FALSE
