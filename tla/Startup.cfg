SPECIFICATION StartupSpec
CONSTANTS
    Words <- SomeWords
    Repos <- SomeRepos
    Cases <- AllCases
INVARIANTS
    PacmanAsDocumented
    RepeatsRefused
    OneOperation
    SettingsAsGiven
CHECK_DEADLOCK FALSE
