SPECIFICATION TreesSpec
CONSTANTS
    v = v
    Data <- SomeData
    Keys <- SomeKeys
    ByteBase = 4
    SMT_DEPTH = 4
    MaxInserts = 5
INVARIANTS
    EveryLeafProves
    RootBindsLeaves
    ProofsBindLeaves
    GetAnswersLastInsert
    SparseRootIsCanonical
PROPERTY StaleProofsFail
CHECK_DEADLOCK FALSE
