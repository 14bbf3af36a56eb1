SPECIFICATION Spec
CONSTANTS
    v = v
    Key <- MCKey
    Value = {v}
    NoValue = NoValue
    Hash <- MCHash
    INIT_HT_SIZE = 4
    HASHTABLE_MIN_FILL = 10
    Starts <- MCStarts
    Args = {0, 1, 2, 3, 100}
INVARIANTS
    ComputesRehashStep
    MakesProgress
PROPERTY Returns
CHECK_DEADLOCK FALSE
