SPECIFICATION SpecBoth
CONSTANTS
    Flows = {f1, f2}
    MaxBringUps = 3
    Sessions = {s1}
    StartsWhileClosing = FALSE
INVARIANTS
    ConnectedMatchesSocket
    OneLiveBringUp
    EndedHoldsNothingOpen
    CloseEndsWhatItFound
PROPERTIES
    EveryCallReturns
CHECK_DEADLOCK FALSE
