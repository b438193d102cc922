SPECIFICATION FairPoolSpec
CONSTANTS
    NULL = NULL
    a = a
    b = b
    c = c
    Pkgs <- ThreePkgs
    TargetLists <- Lists
    MaxThreads = 2
    Failures <- AllFailures
INVARIANTS
    QuietOnReturn
    NoTarballLeft
    AloneExtractsAll
PROPERTIES
    TakesEachJobOnce
    PoolReturns
CHECK_DEADLOCK FALSE
