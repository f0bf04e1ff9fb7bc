SPECIFICATION Spec
CONSTANTS
    Task = {t1}
    Bot <- TwoBots
    Mains <- OnlyMain
    Owner <- TwoOwners
    OwnerOf <- Together
    NoOwner = NoOwner
    MaxAttempts = 2
    Slow = {}
    Faults = {"expire"}
    main = main
    other = other
    here = here
    there = there
CHECK_DEADLOCK FALSE
INVARIANTS
    DoneMeansHanded
