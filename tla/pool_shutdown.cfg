SPECIFICATION FairSpec
CONSTANTS
    Callers = {c1, c2}
    c1 = c1
    c2 = c2
    MaxSerial = 7
    FaultKinds = {"noroom", "startup", "exec", "drop"}
    MaxFaults = 7
    IdleShutdown = FALSE
    PoolSize = 1
    Floor = 1
    MaxUses = 2
    AgeExpires = FALSE
    FreshWorkdir = TRUE
    ReclaimOnStart = FALSE
    AcquireTimeout = TRUE
    Lapses = {}
    MayClose = TRUE
    Jobs = {"run", "session"}
    MaxCalls = 2
    MaxCrashes = 0
CHECK_DEADLOCK FALSE
INVARIANTS
    PoolKeepsItsSize
    GivenUpIsDeleted
PROPERTIES
    BoundedWait
    DaemonsEnd
    CloseSweepsQuietPool
