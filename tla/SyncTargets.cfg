SPECIFICATION Spec
CONSTANTS
    a = a
    b = b
    Names <- TwoNames
    Options <- AllOptions
    TargetLists <- TwoTargetLists
    Worlds <- MCWorlds
INVARIANTS
    HandedExactly
    EntryFound
    NothingLeftBehind
CHECK_DEADLOCK FALSE
