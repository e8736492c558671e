SPECIFICATION FairSpec
CONSTANTS
    Convs = {c1}
    Handlers = {h1}
    MessageGate = 1
    AutoCap = 1
    ManualCap = 1
    MaxMessages = 1
    MaxItems = 1
    MaxNights = 0
    MaxFaults = 1
PROPERTIES
    RestartLosesNothing
CHECK_DEADLOCK FALSE
