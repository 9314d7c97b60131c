SPECIFICATION Spec
CONSTANTS
    Build = {"b1", "b2"}
    Options <- MCRefresh
    Threads = 2
    MaxRun = 2
    MaxFault = 1
    MaxKill = 0
CHECK_DEADLOCK FALSE
INVARIANTS Refreshed
