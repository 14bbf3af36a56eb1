SPECIFICATION Spec
CONSTANTS
    k1 = k1
    k2 = k2
    k3 = k3
    k4 = k4
    k5 = k5
    Key <- MCKey
    Value = {v1}
    NoValue = NoValue
    Hash <- MCHash
    INIT_HT_SIZE = 2
    HASHTABLE_MIN_FILL = 50
    Rounds = {100}
    Batch = 100
    MaxUsed = 5
    ZIPLIST_MAX_ENTRIES = 5
    Large = {}
PROPERTY PromotionKeepsFields
