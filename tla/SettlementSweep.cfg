SPECIFICATION Spec
CONSTANTS
    main = main
    fork = fork
    write = write
    command = command
    Main = main
    Forks <- MCForks
    Strong <- MCStrong
    Medium <- MCMedium
    MaxDeliveries = 4
INVARIANT DeliveriesAreAccepted
