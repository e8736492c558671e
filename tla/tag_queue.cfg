SPECIFICATION Spec
CONSTANTS
    Convs = {c1}
    Handlers = {h1}
    MessageGate = 2
    AutoCap = 1
    ManualCap = 1
    MaxMessages = 2
    MaxItems = 2
    MaxNights = 1
    MaxFaults = 1
INVARIANTS
    TypeOK
    AutoCapKept
    NoDoubleSpending
    OutcomesAgree
    ProcessingIsHeld
    SkippedIsTagged
    QInv
CHECK_DEADLOCK FALSE
