SPECIFICATION FairSpec
CONSTANTS
    x1 = x1
    x2 = x2
    x3 = x3
    x4 = x4
    t1 = t1
    Tasks = {t1}
    Scrapes <- MCScrapes
    Items = {x1, x2, x3, x4}
    Rejected = {}
    Main = Main
    Proc = Proc
    Chain <- MCChain
    PipeFaults = {}
    Capacity = 1
    Faults = {}
    Slow = {}
    MaxCalls = 1
    MaxCloses = 2
PROPERTIES WaitersEnd
CHECK_DEADLOCK FALSE
