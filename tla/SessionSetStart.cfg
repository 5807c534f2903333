SPECIFICATION Spec
CONSTANTS
    Sessions = {s1, s2}
    Closers = {c1}
    StartsWhileClosing = TRUE
INVARIANTS
    TrackedUntilEnded
    LateHoldsNothingOpen
CHECK_DEADLOCK FALSE
