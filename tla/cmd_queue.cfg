SPECIFICATION FairSpec
CONSTANTS
    k1 = k1
    k2 = k2
    p1 = p1
    w1 = w1
    w2 = w2
    None = None
    Keys <- OneKey
    Points = {p1}
    Sizes <- OneSize
    QueueCap = 2
    MaxDown = 3
    ReadyAtOnce = FALSE
INVARIANTS
    AcceptedValueIsDelivered
    ReleaseNotSwallowed
PROPERTIES
    ReleaseReachesHost
    CloseEndsSession
CHECK_DEADLOCK FALSE
