SPECIFICATION Spec
SYMMETRY Symmetry
CONSTANTS
    p1 = p1
    a = a
    b = b
    c = c
    None = None
    Workers = {w1, w2}
    Routes = {a, b, c}
    Providers = {p1}
    ProviderOf <- MCProviderOf
    Priority <- MCPriority
    Ids = {1, 2, 3}
    Limits = {1, 2}
    MaxAttempts = 2
    MinSamples = 2
    RatioNum = 1
    RatioDen = 2
    SpendLimit = 1
    Cost = 1
    MaxRequests = 3
    MaxLate = 2
INVARIANTS
    TypeOK
    SlotsConserved
    RetryBudgetHolds
    OvershootBounded
    NeverWaits
PROPERTIES
    RotationAdvances
CHECK_DEADLOCK FALSE
