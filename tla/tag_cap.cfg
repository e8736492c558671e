SPECIFICATION Spec
CONSTANTS
    Convs = {c1}
    Handlers = {h1, h2}
    MessageGate = 1
    AutoCap = 1
    ManualCap = 1
    MaxMessages = 1
    MaxItems = 2
    MaxNights = 0
    MaxFaults = 0
INVARIANTS
    ManualCapKept
CHECK_DEADLOCK FALSE
