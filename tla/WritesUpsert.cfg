SPECIFICATION Spec
CONSTANTS
    Clients <- MCClients
    Ids <- MCIds
    Values <- MCValues
    MaxItems = 3
    Generated <- MCGenerated
    Calls <- MCPinnedCalls
    CONFLICT_ATTEMPTS = 2
    LosesReplies = FALSE
    LosesBatches = FALSE
    absent = absent
    c1 = c1
    c2 = c2
    a = a
    b = b
    pending = pending
    taken = taken
INVARIANTS
    OutcomeIsTruthful
CHECK_DEADLOCK FALSE
