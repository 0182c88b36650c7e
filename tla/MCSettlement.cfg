\* Two requests, two overlapping rounds, three faults, a ledger.
CONSTANTS
    Requests = {r1, r2}
    Replayers = {p1, p2}
    Ledger = TRUE
    unsettledMaxAttempts = 2
    MaxFaults = 3
SPECIFICATION FairSpec
CHECK_DEADLOCK FALSE
INVARIANTS
    TypeOK
    ChargeSurvivesOneFault
    NoServiceNoCharge
    DebitHasRow
    ManualHoldStands
PROPERTIES
    EntryLeavesQueue
    ImplementsCharge
