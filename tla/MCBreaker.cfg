SPECIFICATION FairSpec
CONSTANTS
    p1 = p1
    k1 = k1
    NoKey = NoKey
    Workers = {w1, w2}
    Providers = {p1}
    Keys = {k1}
    Pool <- MCPool
    Threshold = 2
    Ladder <- MCLadder
    Rungs = 2
    AuthCooldown = 2
    Hints = {0, 2}
    Memory = 1
    Longest = 2
INVARIANTS
    TypeOK
    NoOpenOnABlip
    RowMirrorsCircuit
PROPERTIES
    CooldownsEnd
    OnlySuccessLetsBackIn
