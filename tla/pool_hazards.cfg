SPECIFICATION Spec
CONSTANTS
    c1 = c1
    c2 = c2
    Callers = {c1, c2}
    MaxSerial = 4
    FaultKinds = {"api", "stuck", "noroom", "startup", "exec", "drop"}
    MaxFaults = 2
    IdleShutdown = FALSE
    PoolSize = 2
    Floor = 1
    MaxUses = 2
    AgeExpires = TRUE
    FreshWorkdir = FALSE
    ReclaimOnStart = TRUE
    AcquireTimeout = TRUE
    Lapses = {"collect", "interrupt", "child", "sealed"}
    MayClose = TRUE
    Jobs = {"start", "run", "session"}
    MaxCalls = 2
    MaxCrashes = 1
SYMMETRY CallerSymmetry
CHECK_DEADLOCK FALSE
INVARIANTS
    TypeOK
    ExclusiveCustody
    OpenClient
    UsesLeft
    ParallelismCeiling
