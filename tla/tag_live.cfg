SPECIFICATION FairSpec
CONSTANTS
    Convs = {c1, c2}
    Handlers = {h1}
    MessageGate = 1
    AutoCap = 1
    ManualCap = 1
    MaxMessages = 1
    MaxItems = 2
    MaxNights = 0
    MaxFaults = 0
PROPERTIES
    ItemsResolve
CHECK_DEADLOCK FALSE
