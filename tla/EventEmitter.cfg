SPECIFICATION Spec
CONSTANTS
    Listeners = {f,g,h}
    MaxAdded = 3
    MaxEmits = 3
    EmitsWithin = TRUE
INVARIANTS
    CalledByEveryEmit
CHECK_DEADLOCK FALSE
