SPECIFICATION StoreSpec
CONSTANTS
    Providers = {p1, p2}
    Models = {m1}
    Keys = {k1}
    Flags = {f1}
    Jobs = {r1}
    NoRow = NoRow
    NoKey = NoKey
    Kept = Kept
INVARIANTS
    NoOrphans
PROPERTIES
    AdminConfigSurvives
    KeyLostOnlyToStaleUpdate
