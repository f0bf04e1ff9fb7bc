SPECIFICATION FairSpec
CONSTANTS
    Sweepers = {s1, s2}
    Batch = 1
    Events = {"death", "repeat", "quiesce", "restart"}
    MaxEvents = 1
    s1 = s1
    s2 = s2
INVARIANTS
    TypeOK
    OneAnswer
    NudgedOnce
    NoFalseEnd
PROPERTIES
    EndStays
    WaitingEnds
    ReadCloses
