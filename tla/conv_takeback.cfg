SPECIFICATION Spec
CONSTANTS
    Intents <- MCIntents
    Uninformative <- MCUninformative
    NoIntent = none
    Route <- MCRoute
    Keys = {k1}
    Attempts = 1
    Lines = 1
    CallbackMayBeLost = FALSE
    MaxTurns = 1
    MaxFaults = 0
PROPERTY HumanKeepsConversation
CHECK_DEADLOCK FALSE
