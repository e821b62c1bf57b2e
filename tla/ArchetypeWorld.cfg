SPECIFICATION Spec
CONSTANTS
    U32Max = 3
    U64Max = 6
    pos = pos
    vel = vel
    ComponentType = {pos, vel}
    SymbolOrder <- MCOrder
    Bytes = {b1}
    Required = {pos}
    None = None
INVARIANTS
    QueriesAreExact
    CacheCoherent
PROPERTY ImplementsEcsStore
CHECK_DEADLOCK FALSE
