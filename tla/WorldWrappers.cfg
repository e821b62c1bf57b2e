SPECIFICATION Spec
CONSTANTS
    U32Max = 2
    U64Max = 3
    ComponentType = {pos, tag}
    Bytes = {b1, b2}
    None = None
    MaxTick = 1
    MaxQueue = 2
SYMMETRY Alike
INVARIANTS
    TrackerCoversChanges
    TrackerAgreesWithDiff
PROPERTIES
    ChangesAreHeard
    ObserversAreExact
    LastCommandDecides
