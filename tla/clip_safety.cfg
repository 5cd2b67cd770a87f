SPECIFICATION FairSpec
CONSTANTS
    t1 = t1
    t2 = t2
    f1 = f1
    Texts <- MCTexts
    FileLists <- MCFileLists
    Empty = Empty
    NoItem = NoItem
    MaxRetries = 1
    CommandCap = 1
    ClipQueueCap = 2
    MaxGen = 2
    MaxHello = 1
    MaxRequests = 1
    CanDrop = TRUE
    Refusable = {"first", "later"}
    MayOmit = TRUE
    SendMayFail = TRUE
    OtherTraffic = TRUE
INVARIANTS
    DeferredNotStranded
    CtrlVFetchesDictation
    NoLatePaste
PROPERTIES
    PromiseKept
    UnrequestedPasteExpires
