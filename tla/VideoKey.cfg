\* Two submits of one key over two routes, one worker, no fault; no row reaches
\* the end of its hold or of its retention (YoungRows).
CONSTANTS
    Requests = {r1, r2}
    Workers = {w1}
    Routes = 2
    HoldAnswers = {FALSE}
    CancelMode = "never"
    Custody = FALSE
    MaxFaults = 0
SPECIFICATION Spec
SYMMETRY Symmetry
CHECK_DEADLOCK FALSE
INVARIANT OneFilmPerKey
CONSTRAINT YoungRows
