SPECIFICATION Spec
CONSTANTS
    e1 = e1
    e2 = e2
    zk = zk
    rules = rules
    extra = extra
    n0 = n0
    n1 = n1
    n2 = n2
    None = None
    EntityId = {e1, e2}
    Plugin = {zk, rules, extra}
    Name = {n0, n1, n2}
    Contracts <- SomeContracts
    Deadline = {0, 1}
    MaxAge = 1
    MaxTime = 3
INVARIANTS
    AppIsWhole
    GameFindsNoOverdue
PROPERTIES
    NothingExpiresEarly
    InvocationsEnd
    OverdueIsSwept
