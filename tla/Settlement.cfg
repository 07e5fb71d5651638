SPECIFICATION Spec
CONSTANTS
    main = main
    fork = fork
    write = write
    command = command
    Main = main
    Forks <- MCForks
    Strong <- MCStrong
    Medium <- MCMedium
    MaxDeliveries = 5
INVARIANTS
    ConsumedOnce
    ClosedLinesStayOut
    NoEntryVanishes
    
CONSTRAINT Few
