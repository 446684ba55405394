SPECIFICATION Spec
CONSTANTS
    Callers = {c1, c2}
    c1 = c1
    c2 = c2
    MaxSerial = 5
    FaultKinds = {}
    MaxFaults = 0
    IdleShutdown = FALSE
    PoolSize = 2
    Floor = 2
    MaxUses = 2
    AgeExpires = FALSE
    FreshWorkdir = TRUE
    ReclaimOnStart = FALSE
    AcquireTimeout = FALSE
    Lapses = {"collect"}
    MayClose = FALSE
    Jobs = {"run", "session"}
    MaxCalls = 3
    MaxCrashes = 0
CHECK_DEADLOCK FALSE
INVARIANT
    CleanHandout
