SPECIFICATION FairCallerSpec
CONSTANTS
    NULL = NULL
    DANGLING = DANGLING
    a = a
    b = b
    c = c
    Names <- ThreeNames
    Worlds <- AllWorlds
    Requests <- AllCalls
    MayFail = TRUE
    InstallOutcomes <- AllInstallOutcomes
INVARIANTS
    GraphIsExact
    EverythingResolved
    DownloadsJustified
    UndefinedOnlyThere
    DependenciesFirst
    CompleteWhenClean
    BuiltIsNeeded
PROPERTIES
    CallerTerminates
CHECK_DEADLOCK FALSE
