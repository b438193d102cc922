SPECIFICATION FairGetSpec
CONSTANTS
    NULL = NULL
    a = a
    b = b
    c = c
    Pkgs <- ThreePkgs
    TargetLists <- Requests
    MaxThreads = 1
    Failures = {"transfer", "extraction", "pthread_create", "start"}
    Worlds <- AllWorlds
    MaxInterrupts = 1
INVARIANTS
    AllDepsResolvedUninterrupted
    OnlyWhatIsNeeded
PROPERTIES
    GetTerminates
CHECK_DEADLOCK FALSE
