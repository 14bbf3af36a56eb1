SPECIFICATION FairSpec
CONSTANTS
    k1 = k1
    k2 = k2
    k3 = k3
    k4 = k4
    Key <- MCKey
    Value = {v1, v2}
    NoValue = NoValue
    Hash <- MCHash
    INIT_HT_SIZE = 2
    HASHTABLE_MIN_FILL = 50
    Rounds = {1, 100}
    Batch = 100
    MaxUsed = 4
INVARIANTS
    TypeOK
    HomeBuckets
    UniqueKeys
    NewTableOnlyPassed
    UsedCoversNodes
    ReadYourWrite
    ReadsAgree
PROPERTIES
    OnlyStrandedLost
    ImplementsLossyMap
    
