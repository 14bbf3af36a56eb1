SPECIFICATION FairSpec
CONSTANTS
    a = a
    v = v
    patient = patient
    eager = eager
    late = late
    Key <- MCKey
    Value = {v}
    NoValue = NoValue
    Hash <- MCHash
    INIT_HT_SIZE = 4
    HASHTABLE_MIN_FILL = 10
    ZIPLIST_MAX_ENTRIES = 2
    Large = {}
    Length <- MCLength
    EmptyString = EmptyString
    Upper <- MCUpper
    Client = {patient}
    Script <- MCOne
    Patient = {patient}
    Rude = {}
    FD = {1}
    SockRoom = 1
PROPERTY WritesAgain
CHECK_DEADLOCK FALSE
