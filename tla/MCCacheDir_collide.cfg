SPECIFICATION FairSpec
CONSTANTS
    a1 = a1
    a2 = a2
    a3 = a3
    t1 = t1
    t2 = t2
    d1 = d1
    d2 = d2
    Action <- MCAction
    Tag <- MCTag
    Dir <- MCDir
    TagOf <- MCTagOf
    SuffixOf <- MCCollidingSuffixOf
    Mode = "detect"
    Name <- MCName
    NameOf <- MCNameOf
    Inline <- MCInlineAll
    MaxFile = 3
    MaxRun = 1
    MaxKill = 1
    MaxClean = 1
CHECK_DEADLOCK FALSE
PROPERTIES TagsKept CollisionReported
