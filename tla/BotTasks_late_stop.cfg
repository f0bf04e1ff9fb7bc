SPECIFICATION Spec
CONSTANTS
    Task = {t1}
    Bot <- TwoBots
    Mains <- OnlyMain
    Owner <- TwoOwners
    OwnerOf <- Apart
    NoOwner = NoOwner
    MaxAttempts = 2
    Slow = {"cancel"}
    Faults = {}
    main = main
    other = other
    here = here
    there = there
CHECK_DEADLOCK FALSE
INVARIANTS
    StopReachesTarget
