SPECIFICATION FairSpec
CONSTANTS
    a1 = a1
    a2 = a2
    a3 = a3
    t1 = t1
    t2 = t2
    d1 = d1
    d2 = d2
    Action <- MCAction
    Tag <- MCTag
    Dir <- MCDir
    TagOf <- MCTagOf
    SuffixOf <- MCSuffixOf
    Mode = "resolve"
    Name <- MCName
    NameOf <- MCNameOf
    Inline <- MCInlineAll
    MaxFile = 2
    MaxRun = 1
    MaxKill = 1
    MaxClean = 0
CHECK_DEADLOCK FALSE
INVARIANTS Exclusive NoOrphanEmpty
PROPERTIES Finishes ImplementsExclusiveDir ConflictsResolved
