SPECIFICATION FairSpec
CONSTANTS
    t1 = t1
    t2 = t2
    f1 = f1
    Texts <- MCTexts
    FileLists <- MCFileLists
    Empty = Empty
    NoItem = NoItem
    MaxRetries = 1
    CommandCap = 2
    ClipQueueCap = 6
    MaxGen = 2
    MaxHello = 1
    MaxRequests = 1
    CanDrop = FALSE
    Refusable = {"later"}
    MayOmit = FALSE
    SendMayFail = FALSE
    OtherTraffic = FALSE
PROPERTIES
    DeferredRestored
    LastCopyOffered
CHECK_DEADLOCK FALSE
