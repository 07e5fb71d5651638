SPECIFICATION MCSpec
CONSTANTS
    t1 = t1
    t2 = t2
    t3 = t3
    r1 = r1
    r2 = r2
    r3 = r3
    Service = Service
    NoThread = NoThread
    NoRecord = NoRecord
    Threads = {t1, t2, t3}
    Records = {r1, r2, r3}
    MaxDepth = 3
    MaxFaults = 1
    p1 = p1
    p2 = p2
    NoProcess = NoProcess
    NoFinding = NoFinding
    Processes = {p1, p2}
    MaxEntries = 4
    MaxRestores = 1
SYMMETRY Symmetry
INVARIANTS
    DepthIsTheOwners
    ProjectedAfterCommit
    AccountedUnlessForeign
    AlarmsHaveCauses
    LossStaysVisible
PROPERTIES
    SpoiledNeverCommits
