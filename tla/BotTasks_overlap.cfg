SPECIFICATION Spec
CONSTANTS
    Task = {t1}
    Bot <- TwoBots
    Mains <- OnlyMain
    Owner <- TwoOwners
    OwnerOf <- Apart
    NoOwner = NoOwner
    MaxAttempts = 2
    Slow = {"finish", "poll", "cancel"}
    Faults = {"expire", "crash", "undeploy"}
    main = main
    other = other
    here = here
    there = there
CHECK_DEADLOCK FALSE
INVARIANTS
    TypeOK
    SweepCovers
    DoneMeansHanded
PROPERTIES
    CancelSticks
