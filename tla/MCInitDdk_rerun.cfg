SPECIFICATION FairSpec
CONSTANTS
    Build = {"b1", "b2"}
    Options <- MCOptions
    Threads = 2
    MaxRun = 2
    MaxFault = 2
    MaxKill = 1
CHECK_DEADLOCK FALSE
INVARIANTS MandatoryOfBuild ModuleMatchesSync Recovers
PROPERTIES Ends
