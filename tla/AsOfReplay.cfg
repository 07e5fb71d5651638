SPECIFICATION Spec
CONSTANTS
    main = main
    fork = fork
    x = x
    y = y
    None = None
    Day = 2
    Month = 8
    Year = 16
    Main = main
    Forks = {fork}
    Topics = {x, y}
    Validities <- MCValidities
    Speakers = {"user", "assistant"}
    Asked = {1}
    Candidates = 3
    Limit = 3
    MaxEvents = 4
    MaxClock = 1
INVARIANTS
    KnownAtReplays
CHECK_DEADLOCK FALSE
