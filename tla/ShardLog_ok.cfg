\* No I/O failures; the process may die between operations.
CONSTANTS
    k1 = k1
    k2 = k2
    k3 = k3
    v1 = v1
    v2 = v2
    Keys <- MCKeys
    Values <- MCValues
    NoValue = NoValue
    K = 1
    MaxRecords = 3
    CrashPoints = {"idle"}
    Faults = {}
SPECIFICATION Spec
INVARIANTS TypeOK CacheCoherent AtMostOneLive
PROPERTY KVRefinement
