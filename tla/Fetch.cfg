SPECIFICATION Spec
CONSTANTS
    r1 = r1
    r2 = r2
    r3 = r3
    Requests = {r1, r2, r3}
    NoRequest = NoRequest
    StartQueue <- MCStart
    Main = Main
    ConcurrentRequests = 2
    Permits = 1
    RequestMiddlewares <- MCRequestMiddlewares
    ResponseMiddlewares <- MCResponseMiddlewares
    Allowed = {}
    Denied = {r2}
    MaxRequests = 1
    Window = 2
    MaxPause = 1
    RetryLimit = 1
    Pause = 1
    DownloadErrors <- MCDownloadErrors
    Faults = {"parse"}
    MaxRetries = 1
    BaseDelay = 1
    MaxDelay = 2
    RetryNetwork = TRUE
    RetryHttp = TRUE
    RetryParse = FALSE
    CustomFor = {"other"}
    CustomActions <- MCCustom
    WordSize = 256
INVARIANTS TypeOK RateBounded ErrorsAccounted DownloadsBounded OnlySleepHoldsUp
PROPERTIES FetchEnds
\* The crawl ends.
CHECK_DEADLOCK FALSE
