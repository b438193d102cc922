SPECIFICATION PoolSpec
CONSTANTS
    NULL = NULL
    a = a
    b = b
    c = c
    Pkgs <- ThreePkgs
    TargetLists <- Lists
    MaxThreads = 2
    Failures <- NoFailure
INVARIANTS
    EveryTargetExtracted
CHECK_DEADLOCK FALSE
