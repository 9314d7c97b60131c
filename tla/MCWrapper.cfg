SPECIFICATION WrapperSpec
CONSTANTS
    Line = {"ok", "bad"}
    MaxScript = 3
    Code = {0, 2}
    PipeCap = 1
    BufCap = 1
    Filter = TRUE
    Allowlist = TRUE
    AllowsEmpty = TRUE
    IsClean = TRUE
    StartupWord = {"--help", "--batch", "--stdout_stderr_regex_allowlist="}
    Command = {"build", "clean", "help"}
    ArgWord = {"kleaf", "targets", "--strip_execroot", "--cache_dir", "VALUE", "--user", "--"}
    MaxStartup = 1
    MaxArgs = 3
    Wrapper = {w1, w2, w3}
    Hosts = 2
    Tools = 3
    Names = 4
    Found <- MCFound
    OldEntry <- MCOldEntry
    Cleaners <- MCCleaners
    Project = {"k", "x"}
    World <- MCWorld
INVARIANTS ExitCodePreserved SuccessIsClean ErrorIsReal AllPiped EpilogLast
    ArgvKept OutDirsRight NoToolLost OneStarts StampOutcome
PROPERTIES Ends StampDone
