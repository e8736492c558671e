SPECIFICATION FairSpec
CONSTANTS
    Ladder = 2
    MaxMessages = 2
    MaxRedeliveries = 1
    MaxFaults = 1
INVARIANTS
    TypeOK
    SilenceHasCause
    OneTurnPerWebhook
    FreshLeadKept
    RemindersBounded
    LateReminderBounded
PROPERTIES
    BufferedSettles
CHECK_DEADLOCK FALSE
