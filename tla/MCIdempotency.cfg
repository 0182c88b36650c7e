\* Four callers with two fingerprints between them, one fault.
CONSTANTS
    Callers = {c1, c2, c3, c4}
    Prints = {h1, h2}
    MaxFaults = 1
SPECIFICATION Spec
CHECK_DEADLOCK FALSE
SYMMETRY Symmetry
INVARIANTS
    TypeOK
    ReplayIsOwnRequest
PROPERTIES
    FirstResponseStays
    CompletedNeverReruns
