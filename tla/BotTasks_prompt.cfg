SPECIFICATION FairSpec
CONSTANTS
    Task = {t1}
    Bot <- TwoBots
    Mains <- OnlyMain
    Owner <- TwoOwners
    OwnerOf <- Apart
    NoOwner = NoOwner
    MaxAttempts = 2
    Slow = {}
    Faults = {"expire", "crash", "net", "undeploy"}
    main = main
    other = other
    here = here
    there = there
CHECK_DEADLOCK FALSE
INVARIANTS
    TakenOnce
    RightOwner
    AttemptsBounded
PROPERTIES
    SettledForGood
    Delegates
    Settles
