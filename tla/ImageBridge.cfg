SPECIFICATION BridgeSpec
CONSTANTS
    Requests = {r1, r2}
    Convs = {c1, c2}
    Limit = 2
    MaxImages = 2
    MaxRounds = 2
    MaxAsks = 2
    MaxSize = 2
INVARIANTS
    BudgetHolds
