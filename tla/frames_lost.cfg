SPECIFICATION FairSpec
CONSTANTS
    Unknown = Unknown
    Sizes <- MCSizes
    FitsInto <- MCFitsInto
    MaxOther = 1
PROPERTIES
    LastUpdatePainted
