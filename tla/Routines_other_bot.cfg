SPECIFICATION Spec
CONSTANTS
    Routine = {daily, weekly}
    Proc = {bot1, bot2}
    Home <- HomeOfTwo
    OwnerOf <- DeskOf
    NoOwner = NoOwner
    Local = {daily, weekly}
    Claimer = {p1, p2}
    ProcOf <- EachPolls
    Gateway = Gateway
    Tab = {e1}
    MaxRuns = 2
    MaxRetry = 1
    MaxSlot = 1
    Edits = {"manual"}
    Slow = {}
    Faults = {}
    daily = daily
    weekly = weekly
    bot1 = bot1
    bot2 = bot2
    desk = desk
    p1 = p1
    p2 = p2
CHECK_DEADLOCK FALSE
PROPERTIES
    OnlyOwnProcess
