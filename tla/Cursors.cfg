SPECIFICATION MCSpec
CONSTANTS
    Flows = {f1}
    Rows = 2
    MaxOpens = 3
    SharesCursor = FALSE
    HasSignal = TRUE
    MaxCatalogue = 3
INVARIANTS
    RowsOnceToTheEnd
    NoStreamLeftRunning
    WalksOneListing
PROPERTIES
    EveryReadReturns
CHECK_DEADLOCK FALSE
