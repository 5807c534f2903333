SPECIFICATION Spec
CONSTANTS
    Sessions = {s1, s2}
    MaxAttempts = 3
INVARIANTS
    OutcomeIsTruthful
PROPERTIES
    EveryCallReturns
    ImplementsAtomicWork
CHECK_DEADLOCK FALSE
