SPECIFICATION Spec
CONSTANTS
    pos = pos
    tag = tag
    b1 = b1
    b2 = b2
    ComponentType = {pos, tag}
    Bytes = {b1, b2}
    MaxId = 2
INVARIANT DespawnRemovesComponents
