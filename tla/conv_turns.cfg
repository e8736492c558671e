SPECIFICATION Spec
CONSTANTS
    Intents <- MCIntents
    Uninformative <- MCUninformative
    NoIntent = none
    Route <- MCRoute
    Keys = {k1, k2}
    Attempts = 1
    Lines = 2
    CallbackMayBeLost = TRUE
    MaxTurns = 3
    MaxFaults = 1
INVARIANTS
    TypeOK
    SingleRecommendation
    SlotsBeforeMatching
    SameAnswerCap
    LateSpeechBounded
    CampusQuestionHasParent
PROPERTIES
    HumanNeededIsFinal
    ReclaimNeedsReread
    ImplementsService
CHECK_DEADLOCK FALSE
SYMMETRY MCSymmetry
