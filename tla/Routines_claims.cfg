SPECIFICATION Spec
CONSTANTS
    Routine = {daily}
    Proc = {bot1}
    Home <- HomeOfOne
    OwnerOf <- DeskOf
    NoOwner = NoOwner
    Local = {}
    Claimer = {p1, p2}
    ProcOf <- TwoPolls
    Gateway = Gateway
    Tab = {e1}
    MaxRuns = 2
    MaxRetry = 1
    MaxSlot = 1
    Edits = {"off", "on", "times", "noTimes", "manual", "text"}
    Slow = {"settle", "claim"}
    Faults = {}
    daily = daily
    weekly = weekly
    bot1 = bot1
    bot2 = bot2
    desk = desk
    p1 = p1
    p2 = p2
CHECK_DEADLOCK FALSE
INVARIANTS
    TypeOK
    SlotOnce
    NextIffScheduled
    SlotWorkOnce
PROPERTIES
    OffMeansOff
