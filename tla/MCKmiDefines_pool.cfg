SPECIFICATION FairSpec
CONSTANTS
    Modules <- MCModules
    Header <- MCHeader
    DepsOf <- MCDepsOf
    Outcome = {"ok", "stop", "crash"}
    MaxBad = 2
    ChunkSize = 2
    Share = 1
    CpuCount = 4
INVARIANTS SameAsSequential CountsComplete
PROPERTIES EndsUnlessCrash
CHECK_DEADLOCK FALSE
