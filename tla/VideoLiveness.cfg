\* One submit over two routes, one worker, one fault, under fairness.
CONSTANTS
    Requests = {r1}
    Workers = {w1}
    Routes = 2
    HoldAnswers = {FALSE}
    CancelMode = "queued_only"
    Custody = FALSE
    MaxFaults = 1
SPECIFICATION FairSpec
CHECK_DEADLOCK FALSE
PROPERTY EveryJobEnds
