SPECIFICATION FairSpec
CONSTANTS
    MaxFrames = 2
    Files = {f1}
    Endings = {"status", "lost"}
    Workers = {w1, w2}
    None = None
    MaxStreams = 2
    FreshWorkdir = TRUE
    Lapses = {}
CHECK_DEADLOCK FALSE
INVARIANTS
    StreamTypeOK
    UploadComplete
    OutputComplete
    ResultTells
    NoWorkerLost
PROPERTIES
    ImplementsWorkerLease
    WorkerComesBack
