SPECIFICATION Spec
CONSTANTS
    a1 = a1
    a2 = a2
    g1 = g1
    g2 = g2
    None = None
    Account = {a1, a2}
    Person = {g1, g2}
    Configs <- OneConfig
    U64Max = 3
    MaxTime = 2
SYMMETRY Peers
INVARIANT ExecutionEndsRequest
CHECK_DEADLOCK FALSE
