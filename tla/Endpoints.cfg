SPECIFICATION EndpointsSpec
CONSTANTS
    Limit = 2
    MaxTurns = 3
INVARIANTS
    LedgersAgree
    ChargedForFinished
    BreakerFollowsTurns
