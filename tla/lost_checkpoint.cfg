SPECIFICATION Spec
CONSTANTS
    a = a
    b = b
    NsFile = NsFile
    Paths <- MCPaths
    Sizes = {1, 2}
    RunKinds = {"file"}
    Trees <- MCTrees
    Leftovers <- MCLeftovers
    MaxCollect = 3
    MaxUpload = 3
    MaxRuns = 2
    Lapses = {"collector"}
CHECK_DEADLOCK FALSE
PROPERTY
    ResumesExactly
