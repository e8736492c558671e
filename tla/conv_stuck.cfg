SPECIFICATION FairSpec
CONSTANTS
    Intents <- MCIntents
    Uninformative <- MCUninformative
    NoIntent = none
    Route <- MCRoute
    Keys = {k1}
    Attempts = 1
    Lines = 1
    CallbackMayBeLost = TRUE
    MaxTurns = 1
    MaxFaults = 0
PROPERTY RecommendationResolves
CHECK_DEADLOCK FALSE
