\* One submit with two candidate routes and nobody else using its key.
CONSTANTS
    Requests = {r1}
    Workers = {w1}
    Routes = 2
    HoldAnswers = {FALSE}
    CancelMode = "never"
    Custody = FALSE
    MaxFaults = 0
SPECIFICATION Spec
CHECK_DEADLOCK FALSE
INVARIANT ExistingIsAnothers
