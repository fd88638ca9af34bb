\* The process may die while compressFile runs.
CONSTANTS
    k1 = k1
    k2 = k2
    k3 = k3
    v1 = v1
    v2 = v2
    Keys <- MCKeys
    Values <- MCValues
    NoValue = NoValue
    K = 1
    MaxRecords = 3
    CrashPoints = {"compact"}
    Faults = {}
SPECIFICATION Spec
INVARIANT AtMostOneLive
