SPECIFICATION Spec
CONSTANTS
    a = a
    b = b
    f = f
    g = g
    v = v
    big = big
    set_ = set_
    unknown = unknown
    Key <- MCKey
    Value = {v, big}
    NoValue = NoValue
    Hash <- MCHash
    INIT_HT_SIZE = 4
    HASHTABLE_MIN_FILL = 10
    ZIPLIST_MAX_ENTRIES = 2
    Large = {big}
    Length <- MCLength
    EmptyString = EmptyString
    Upper <- MCUpper
    Request <- MCRequest
    DbKey = {a, b}
    Field = {f, g}
    MaxNames = 2
INVARIANT TypeOK
PROPERTIES
    ErrorsChangeNothing
    
