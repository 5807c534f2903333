SPECIFICATION FairSpec
CONSTANTS
    Clients <- MCClients
    Ids <- MCIds
    Values <- MCValues
    MaxItems = 3
    Generated <- MCGenerated
    Calls <- MCCalls
    CONFLICT_ATTEMPTS = 2
    LosesReplies = TRUE
    LosesBatches = FALSE
    absent = absent
    c1 = c1
    c2 = c2
    a = a
    b = b
    pending = pending
    taken = taken
INVARIANTS
    OutcomeIsTruthful
    BatchEndsWhereItShould
    ClaimedOnce
PROPERTIES
    EveryCallReturns
CHECK_DEADLOCK FALSE
