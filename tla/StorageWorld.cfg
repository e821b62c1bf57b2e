SPECIFICATION Spec
CONSTANTS
    U32Max = 3
    U64Max = 5
    ComponentType = {pos, vel}
    Bytes = {b1, b2}
    None = None
SYMMETRY Alike
INVARIANTS
    LoadedDataIsListed
    EntityCountIsLiveCount
    ConvertedWorldReadsTheSame
    DespawnIsFinal
PROPERTIES
    ImplementsDurableStore
