SPECIFICATION Spec
CONSTANTS
    Fields = {"a", "b"}
    Bad = Bad
    Globals = {"g", "h"}
    Pins = {"p"}
    Sizes = {"s"}
    Nothing = Nothing
    Torn = Torn
    Missing = Missing
    MaxIds = 2
    Budgets <- EitherLonger
    Faults = 1
    Cleaned <- EntraClears
INVARIANTS
    Inv
    SecretsMatchPolicy
    CleanFormShowsDocument
PROPERTIES
    SessionFieldsStay
CHECK_DEADLOCK FALSE
