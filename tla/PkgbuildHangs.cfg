SPECIFICATION FairPkgbuildSpec
CONSTANTS
    Chars <- AllChars
    Names <- SomeNames
    NameChars = {"n", "a", "b", "c"}
    MaxLen = 12
    Files <- AllFiles
PROPERTIES
    PkgbuildIsRead
CHECK_DEADLOCK FALSE
