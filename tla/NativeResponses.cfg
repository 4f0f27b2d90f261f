SPECIFICATION FairSpec
CONSTANTS
    Requests = {r1, r2}
    Fallbacks = 1
    RetryLimit = 1
    MaxLapses = 1
    Fleets <- MCFleets
    Shapes <- MCShapes
    Other = r2
INVARIANTS
    VerdictsAreEarned
    StaysNative
    AnswersAccounted
PROPERTIES
    AnswerStarts
