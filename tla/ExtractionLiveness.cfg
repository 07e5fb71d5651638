SPECIFICATION FairSpec
CONSTANTS
    w1 = w1
    w2 = w2
    f1 = f1
    c1 = c1
    p1 = p1
    p2 = p2
    NoOwner = NoOwner
    Leased = {w1, w2}
    Foreground = {}
    Contents = {c1}
    Proposals = {p1, p2}
    Content <- OneText
    Span <- OwnSpan
    MaxEvents = 2
    MaxRetries = 1
    LeaseTicks = 1
    MaxClock = 1
    MaxFaults = 0
INVARIANTS
    LineageComplete
PROPERTIES
    EveryEventAttempted
CHECK_DEADLOCK FALSE
