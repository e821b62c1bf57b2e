SPECIFICATION Spec
CONSTANTS
    move = move
    attack = attack
    k0 = k0
    k1 = k1
    None = None
    Action = {move, attack}
    KeyId = {k0, k1}
    PlaceholderId = k0
    Scopes <- SomeScopes
    U32Max = 2
    MaxTime = 2
INVARIANT TypeOK
PROPERTY CarefulGrantsAreBacked
CHECK_DEADLOCK FALSE
