SPECIFICATION FairSpec
CONSTANTS
    Routine = {daily}
    Proc = {bot1}
    Home <- HomeOfOne
    OwnerOf <- DeskOf
    NoOwner = NoOwner
    Local = {}
    Claimer = {p1, p2}
    ProcOf <- WithTick
    Gateway = Gateway
    Tab = {e1}
    MaxRuns = 3
    MaxRetry = 1
    MaxSlot = 1
    Edits = {"delete"}
    Slow = {"settle"}
    Faults = {"expire", "crash", "net", "undeploy"}
    daily = daily
    weekly = weekly
    bot1 = bot1
    bot2 = bot2
    desk = desk
    p1 = p1
    p2 = p2
CHECK_DEADLOCK FALSE
INVARIANTS
    DoneIsDone
PROPERTIES
    SettledRunsStay
    RunEnds
    
