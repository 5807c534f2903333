SPECIFICATION Spec
CONSTANTS
    Flows = {f1, f2}
    MaxTransactions = 2
    MaxBegins = 2
    OverlapsStart = TRUE
    HasCommitBudget = FALSE
INVARIANTS
    DiscardedIsNeverDurable
CHECK_DEADLOCK FALSE
