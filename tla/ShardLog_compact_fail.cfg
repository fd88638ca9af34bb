\* A read or write inside compressFile may fail.
CONSTANTS
    k1 = k1
    k2 = k2
    k3 = k3
    v1 = v1
    v2 = v2
    Keys <- MCKeys
    Values <- MCValues
    NoValue = NoValue
    K = 1
    MaxRecords = 3
    CrashPoints = {}
    Faults = {"compactfail"}
SPECIFICATION Spec
PROPERTY KVRefinement
