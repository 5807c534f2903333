SPECIFICATION FairSpec
CONSTANTS
    Flows = {f1, f2, f3}
    MaxTransactions = 2
    MaxBegins = 2
    OverlapsStart = FALSE
    HasCommitBudget = TRUE
INVARIANTS
    ScopeMatchesState
    SettleFindsLiveHandle
    NoOrphanedTransaction
    EndedSessionHoldsNone
    DiscardedIsNeverDurable
    CommitsWhole
PROPERTIES
    TransitionsAreLegal
    EveryWaitEnds
CHECK_DEADLOCK FALSE
