SPECIFICATION FairSpec
CONSTANTS
    MaxFallbacks = 1
    RetryLimit = 1
    MaxEvents = 3
INVARIANTS
    NothingOfSubstanceLost
    AttemptsInTurn
PROPERTIES
    SpeaksWithOneVoice
    AlwaysConcludes
