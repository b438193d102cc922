SPECIFICATION FairSpec
CONSTANTS
    NIL = NIL
    k1 = k1
    k2 = k2
    k3 = k3
    k4 = k4
    Key <- MCKey
    v1 = v1
    v2 = v2
    Value <- MCValue
    Hashes <- MCHashes
    prime_list <- MCPrimes
    UintRange = 20
INVARIANTS
    CountIsExact
PROPERTIES
    CallsEnd
    ImplementsFirstMap
CHECK_DEADLOCK FALSE
