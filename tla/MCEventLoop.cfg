SPECIFICATION FairSpec
CONSTANTS
    a = a
    v = v
    patient = patient
    eager = eager
    late = late
    Key <- MCKey
    Value = {v}
    NoValue = NoValue
    Hash <- MCHash
    INIT_HT_SIZE = 4
    HASHTABLE_MIN_FILL = 10
    ZIPLIST_MAX_ENTRIES = 2
    Large = {}
    Length <- MCLength
    EmptyString = EmptyString
    Upper <- MCUpper
    Client = {patient, eager, late}
    Script <- MCScript
    Patient = {patient}
    Rude = {eager}
    FD = {1, 2}
    SockRoom = 2
INVARIANTS
    TypeOK
    EventsAreLive
    StreamIntact
    
PROPERTY Answered
CHECK_DEADLOCK FALSE
