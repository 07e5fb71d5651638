SPECIFICATION Spec
CONSTANTS
    main = main
    fork = fork
    x = x
    y = y
    None = None
    Day = 2
    Month = 8
    Year = 16
    Main = main
    Forks = {fork}
    Topics = {x, y}
    Validities <- MCValidities
    Speakers = {"user"}
    Asked = {1}
    Candidates = 2
    Limit = 2
    MaxEvents = 4
    MaxClock = 1
SYMMETRY TopicSymmetry
INVARIANTS
    ReplayExact
    OneTruthAtATime
    LogicExact
PROPERTIES
    ReadsRepeat
CHECK_DEADLOCK FALSE
