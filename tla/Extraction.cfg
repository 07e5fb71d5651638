SPECIFICATION Spec
CONSTANTS
    w1 = w1
    w2 = w2
    f1 = f1
    c1 = c1
    p1 = p1
    p2 = p2
    NoOwner = NoOwner
    Leased = {w1, w2}
    Foreground = {f1}
    Contents = {c1}
    Proposals = {p1}
    Content <- OneText
    Span <- OwnSpan
    MaxEvents = 2
    MaxRetries = 2
    LeaseTicks = 1
    MaxClock = 1
    MaxFaults = 1
SYMMETRY LeasedSymmetry
INVARIANTS
    TypeOK
    AttemptRowsNeverCollide
    StatusAgreesWithBacklog
    SingleConsumer
    NoWakeupLost
PROPERTIES
    PromiseSpec
CHECK_DEADLOCK FALSE
