SPECIFICATION Spec
CONSTANTS
    d0 = d0
    d1 = d1
    d2 = d2
    l0 = l0
    l1 = l1
    p0 = p0
    p1 = p1
    None = None
    KeyId = {d0, d1, d2}
    Label = {l0, l1}
    PublicKey = {p0, p1}
    Policies <- SomePolicies
    MaxRecords = 4
    MaxTime = 3
SYMMETRY Alike
INVARIANTS
    OneActiveRecordPerKey
    LatestPasskeyIsFound
PROPERTIES
    RevokedStaysRevoked
    OnlyIdleDevicesExpire
