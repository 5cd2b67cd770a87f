SPECIFICATION FairSpec
CONSTANTS
    Selections <- AnySelection
    None = None
    Chunk = 1
    MaxStreamId = 4
    ClipQueueCap = 2
    Permits = 1
    CopyRaces = FALSE
    Budgets <- FetchAndServe
INVARIANTS
    Inv
CHECK_DEADLOCK FALSE
PROPERTIES
    ImplementsOffer
    PreparationEnds
    RequestsAreServed
