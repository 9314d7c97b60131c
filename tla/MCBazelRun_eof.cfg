SPECIFICATION Spec
CONSTANTS
    Line = {"ok"}
    MaxScript = 2
    Code = {0, 2}
    PipeCap = 2
    BufCap = 2
    Filter = FALSE
    Allowlist = TRUE
    AllowsEmpty = FALSE
    IsClean = FALSE
INVARIANTS ErrorIsReal
