SPECIFICATION Spec
CONSTANTS
    a = a
    b = b
    NsFile = NsFile
    Paths <- MCPaths
    Sizes = {1, 2}
    RunKinds = {"file", "link", "unread", "dir"}
    Trees <- MCTrees
    Leftovers <- MCLeftovers
    MaxCollect = 3
    MaxUpload = 3
    MaxRuns = 3
    Lapses = {}
CHECK_DEADLOCK FALSE
INVARIANTS
    TypeOK
    Resumable
    NamespaceCarries
    CollectTells
PROPERTIES
    ResumesReadable
