SPECIFICATION Spec
CONSTANTS
    MaxAttempts = 2
    Frames = 2
    Cap = 1
INVARIANT
    CanceledMeansHungUp
CHECK_DEADLOCK FALSE
