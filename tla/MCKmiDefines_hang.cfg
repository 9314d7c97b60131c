SPECIFICATION FairSpec
CONSTANTS
    Modules <- MCModules
    Header <- MCHeader
    DepsOf <- MCDepsOf
    Outcome = {"ok", "crash"}
    MaxBad = 1
    ChunkSize = 2
    Share = 1
    CpuCount = 4
PROPERTIES Ends
CHECK_DEADLOCK FALSE
