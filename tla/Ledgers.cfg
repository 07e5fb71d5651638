SPECIFICATION MCSpec
CONSTANTS
    Main = Main
    None = None
    t1 = t1
    t2 = t2
    Tasks = {t1, t2}
    Sessions = {}
    Delegation = TRUE
    MaxEvents = 5
    MaxVersions = 3
    Forks = {task}
    Contents = {redis}
    Incidents = {rebootstrap}
    Rebootstrap = rebootstrap
    Callers = {"agent", "untrusted"}
    MaxTrustEvents = 4
    MaxCandidates = 2
    Openers = {p, q}
    Nobody = Nobody
    Founds <- MCFounds
    MaxOpens = 2
SYMMETRY OpenerSymmetry
INVARIANTS
    EvidenceMovesOnce
    SettledByTrust
    MarkersKept
    BackupBeforeChange
    HistoryComplete
    VerifiedIsSound
CHECK_DEADLOCK FALSE
