SPECIFICATION Spec
CONSTANTS
    Keys = {k1, k2}
    Callers = {c1, c2, c3, c4}
    MaxEntries = 1
    MaxFutures = 3
INVARIANTS
    CacheSound
PROPERTIES
    OnlyWaitersDisplace
