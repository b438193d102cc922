SPECIFICATION PkgbuildSpec
CONSTANTS
    Chars <- AllChars
    Names <- SomeNames
    NameChars = {"n", "a", "b", "c"}
    MaxLen = 12
    Files <- AllFiles
INVARIANTS
    EveryArrayRead
CHECK_DEADLOCK FALSE
