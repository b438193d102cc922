SPECIFICATION FairInstallSpec
CONSTANTS
    NULL = NULL
    a = a
    b = b
    c = c
    Names <- ThreeNames
    Lists <- LongLists
INVARIANTS
    BuildsAtHome
    BuildsInOrder
    ReportedIsBuilt
    AbortStops
    MaxProcesses
PROPERTIES
    InstallTerminates
    ImplementsTopoInstall
CHECK_DEADLOCK FALSE
