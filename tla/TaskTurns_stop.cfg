SPECIFICATION FairSpec
CONSTANTS
    MaxMessages = 3
    MaxClaims = 2
    None = None
    QueueMax = 2
    Events = {"abort", "withdraw", "quiesce", "restart", "fail",
              "net", "lease", "death", "timeout"}
    MaxEvents = 1
CHECK_DEADLOCK FALSE
INVARIANTS
    TypeOK
    OwnResult
    StoppedStaysOut
PROPERTIES
    StopSparesPeople
    StopEnds
    NeverStranded
    WithdrawnEnds
