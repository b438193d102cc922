SPECIFICATION FairSpec
CONSTANTS
    Names = {a, b, c}
    MaxDegree = 3
INVARIANTS
    TopoOrderValid
PROPERTIES
    Terminates
    ImplementsTopoOrder
CHECK_DEADLOCK FALSE
