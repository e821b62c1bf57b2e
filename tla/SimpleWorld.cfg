SPECIFICATION Spec
CONSTANTS
    U32Max = 2
    U64Max = 4
    tag = tag
    pos = pos
    ComponentType = {tag, pos}
    Bytes = {b1, b2}
    None = None
    DefaultStorage <- MCStorage
SYMMETRY Data
INVARIANTS
    TypeOK
    ListedComponentsExist
    CacheCoherent
    QueriesAgree
PROPERTY
    ImplementsEcsStore
