SPECIFICATION FairSpec
CONSTANTS
    Line = {"ok", "long"}
    MaxScript = 4
    Code = {0, 2}
    PipeCap = 1
    BufCap = 1
    Filter = TRUE
    Allowlist = FALSE
    AllowsEmpty = FALSE
    IsClean = FALSE
PROPERTIES Ends
CHECK_DEADLOCK FALSE
