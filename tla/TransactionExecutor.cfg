SPECIFICATION FairSpec
CONSTANTS
    Statements = {s1, s2, s3}
    Commits = {commit}
    Cancels = {cancel}
INVARIANTS
    AppliedInCallOrder
    SettleIsABoundary
    SpentHandleNeverDialled
PROPERTIES
    EveryCallSettles
    ImplementsSerialTransaction
CHECK_DEADLOCK FALSE
