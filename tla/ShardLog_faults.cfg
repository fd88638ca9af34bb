\* Every crash point and every I/O failure the handlers meet.
CONSTANTS
    k1 = k1
    k2 = k2
    k3 = k3
    v1 = v1
    v2 = v2
    Keys <- MCKeys3
    Values <- MCValues1
    NoValue = NoValue
    K = 2
    MaxRecords = 2
    CrashPoints = {"idle", "insert", "compact"}
    Faults = {"openfail", "compactfail"}
SPECIFICATION Spec
INVARIANTS TypeOK CacheWellFormed CompactCursors
