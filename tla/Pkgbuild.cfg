SPECIFICATION FairPkgbuildSpec
CONSTANTS
    Chars <- AllChars
    Names <- SomeNames
    NameChars = {"n", "a", "b", "c"}
    MaxLen = 12
    Files <- AllFiles
INVARIANTS
    DepsAsWritten
    ArraysAsWritten
PROPERTIES
    OverrunsOnlyRegrown
    ReadUnlessStuck
CHECK_DEADLOCK FALSE
