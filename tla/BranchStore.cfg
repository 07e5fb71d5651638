SPECIFICATION Spec
CONSTANTS
    main = main
    f1 = f1
    f2 = f2
    p1 = p1
    Main = main
    Forks <- MCForks
    Processes = {p1}
    MaxEntries = 3
    MaxSnapshots = 1
SYMMETRY Symmetry
INVARIANTS
    ProvenanceVisible
    SnapshotsHoldVisible
    RestoreAgrees
PROPERTIES
    PromiseSpec
