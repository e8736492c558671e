SPECIFICATION FairSpec
CONSTANTS
    Intents <- MCIntents
    Uninformative <- MCUninformative
    NoIntent = none
    Route <- MCRoute
    Keys = {k1}
    Attempts = 2
    Lines = 1
    CallbackMayBeLost = FALSE
    MaxTurns = 1
    MaxFaults = 0
INVARIANTS
    PitchedAtMostOnce
    IInv
PROPERTIES
    TurnsEnd
    RecommendationResolves
CHECK_DEADLOCK FALSE
