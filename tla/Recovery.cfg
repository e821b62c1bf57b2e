SPECIFICATION Spec
CONSTANTS
    a1 = a1
    a2 = a2
    g1 = g1
    g2 = g2
    None = None
    Account = {a1, a2}
    Person = {g1, g2}
    Configs <- BothConfigs
    U64Max = 2
    MaxTime = 2
SYMMETRY Peers
INVARIANTS
    TypeOK
    ApprovalsAreVotes
    GuardiansWithinLimit
PROPERTIES
    TimelockRespected
    QuorumBacksExecution
CHECK_DEADLOCK FALSE
