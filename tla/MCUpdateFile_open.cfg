SPECIFICATION Spec
CONSTANTS
    UserText = {"x", "y"}
    Update = {"new"}
    MaxLine = 3
    OpenLine = TRUE
    MaxRun = 2
    MaxKill = 0
INVARIANTS OutsideKept
CHECK_DEADLOCK FALSE
