SPECIFICATION FairSpec
CONSTANTS
    MaxAttempts = 3
    Frames = 3
    Cap = 2
INVARIANTS
    TypeOK
    OneUpstreamSpeaks
    DeliveredIsCharged
    CleanEndIsWhole
    NothingLeftBehind
    
PROPERTY
    EveryStreamEnds
CHECK_DEADLOCK FALSE
