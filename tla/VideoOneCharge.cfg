\* A settlement whose commit is lost, racing an older copy of the row.
CONSTANTS
    Requests = {r1}
    Workers = {w1, w2}
    Routes = 1
    HoldAnswers = {FALSE}
    CancelMode = "never"
    Custody = FALSE
    MaxFaults = 1
SPECIFICATION Spec
CHECK_DEADLOCK FALSE
INVARIANT OneCharge
