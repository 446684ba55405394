SPECIFICATION Spec
CONSTANTS
    Second = 1
    Ttl = 8
    Lag = 1
    MaxTime = 24
CHECK_DEADLOCK FALSE
INVARIANTS
    TypeOK
    IdleWorkerEnds
PROPERTY
    SeenRunsCount
