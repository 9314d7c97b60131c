SPECIFICATION FilesSpec
CONSTANTS
    UserText = {"x", "y"}
    Update = {"new", "newer"}
    MaxLine = 5
    OpenLine = FALSE
    MaxRun = 2
    MaxKill = 1
    Tool = {"build_config", "headers", "cleaner"}
    Request <- MCRequest
    OldFile <- MCOldFile
    MaxBzRun = 2
    ModuleSet <- MCModuleSet
    Configs <- MCConfigs
    Options = 3
    Purpose = {"build", "menu", "misuse", "ddk"}
    ConfigRequest <- MCConfigRequest
    ModuleName = {"m", "n"}
    BuildRequest <- MCBuildRequest
    MaxBuild = 2
INVARIANTS OutsideKept Idempotent BeliefIsTrue UserValueKept HeadersPlaced DepsResolved
    KbuildMeaning ConfigAsAsked NoFalseAlarm ChoiceKept DependantsAgree OwnOutputWins ModulesOfThisBuild
PROPERTIES SectionUpdated
CHECK_DEADLOCK FALSE
