\* One submit over two routes, two workers, one fault: every race of two holders of a row.
CONSTANTS
    Requests = {r1}
    Workers = {w1, w2}
    Routes = 2
    HoldAnswers = {TRUE, FALSE}
    CancelMode = "anytime"
    Custody = TRUE
    MaxFaults = 1
SPECIFICATION Spec
SYMMETRY Symmetry
CHECK_DEADLOCK FALSE
INVARIANTS
    TypeOK
    TerminalMoneyMoved
    NoFilmNoCharge
    SettlementTruthful
    OneDebit
    BooksOffCostFaults
PROPERTIES
    OwingRowKept
    MoneyFinal
