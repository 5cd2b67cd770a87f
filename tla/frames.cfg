SPECIFICATION FairSpec
CONSTANTS
    Unknown = Unknown
    Sizes <- MCSizes
    FitsInto <- MCFitsInto
    MaxOther = 2
INVARIANTS
    MainQueueNotFlooded
PROPERTIES
    StreamIsPainted
