\* The Recorder of internal/community/settle, one round, two faults.
CONSTANTS
    Requests = {r1}
    Replayers = {p1}
    Ledger = FALSE
    unsettledMaxAttempts = 8
    MaxFaults = 2
SPECIFICATION Spec
CHECK_DEADLOCK FALSE
INVARIANT ChargedOnce
