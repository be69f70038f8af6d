SPECIFICATION Spec
CONSTANTS
    x1 = x1
    x2 = x2
    x3 = x3
    x4 = x4
    t1 = t1
    Tasks = {t1}
    Scrapes <- MCScrapes
    Items = {x1, x2, x3, x4}
    Rejected = {}
    Main = Main
    Proc = Proc
    Chain <- MCChain
    PipeFaults = {"comma"}
    Capacity = 1
    Faults = {"opened", "start"}
    Slow = {"pipelines", "hooks"}
    MaxCalls = 2
    MaxCloses = 2
INVARIANTS TypeOK FileWhole LossBounded
PROPERTIES CloseReturns MonitorsEnd
\* The owner may stop calling the engine.
CHECK_DEADLOCK FALSE
