SPECIFICATION Spec
CONSTANTS
    k1 = k1
    k2 = k2
    k3 = k3
    k4 = k4
    k5 = k5
    Key <- MCFour
    Value = {v1, v2, w}
    NoValue = NoValue
    Hash <- MCHash
    INIT_HT_SIZE = 2
    HASHTABLE_MIN_FILL = 50
    Rounds = {100}
    Batch = 100
    MaxUsed = 4
    ZIPLIST_MAX_ENTRIES = 3
    Large = {w, k5}
INVARIANTS
    TypeOK
    ZiplistWithinLimits
    ZiplistIsMap
    ReadYourWrite
    SizeCoversFields
PROPERTY NothingInvented
