SPECIFICATION FairSpec
CONSTANTS
    Sweepers = {s1}
    Batch = 1
    Events = {}
    MaxEvents = 0
    s1 = s1
    s2 = s2
PROPERTY ClosedMeansRead
