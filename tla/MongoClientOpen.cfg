SPECIFICATION Spec
CONSTANTS
    Flows = {f1, f2}
    MaxBringUps = 1
PROPERTIES
    OpenMeansConnected
CHECK_DEADLOCK FALSE
