SPECIFICATION Spec
CONSTANTS
    Callers = {c1, c2}
    c1 = c1
    c2 = c2
    MaxSerial = 5
    FaultKinds = {"api"}
    MaxFaults = 1
    IdleShutdown = FALSE
    PoolSize = 2
    Floor = 2
    MaxUses = 2
    AgeExpires = FALSE
    FreshWorkdir = TRUE
    ReclaimOnStart = FALSE
    AcquireTimeout = FALSE
    Lapses = {}
    MayClose = FALSE
    Jobs = {"run", "session"}
    MaxCalls = 3
    MaxCrashes = 0
CHECK_DEADLOCK FALSE
INVARIANT
    PoolKeepsItsSize
