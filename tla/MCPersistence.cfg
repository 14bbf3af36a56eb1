SPECIFICATION Spec
CONSTANTS
    a = a
    b = b
    f = f
    g = g
    v = v
    w = w
    big = big
    empty = empty
    Key <- MCKey
    Value = {v, big}
    NoValue = NoValue
    Hash <- MCHash
    INIT_HT_SIZE = 2
    HASHTABLE_MIN_FILL = 50
    ZIPLIST_MAX_ENTRIES = 3
    Large = {big}
    Length <- MCLength
    EmptyString = empty
    DbKey = {a, b}
    HashKey = {a}
    Field = {f, g}
    MaxUsed = 2
INVARIANTS
    TypeOK
    
    AckedSaveSurvives
