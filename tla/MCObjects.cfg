SPECIFICATION MCSpec
CONSTANTS
    a = a
    b = b
    large = large
    Member <- MCMember
    MaxInt = 12
    INTSET_MAX_ENTRIES = 3
    Item = {a, b, large}
    LargeItem = {large}
    Index <- MCIndex
    ZIPLIST_MAX_ENTRIES = 2
    MaxLength = 4
INVARIANTS
    SetTypeOK
    SetReadYourWrite
    SizeCounts
    ListTypeOK
    ListOperations
PROPERTY MembersStay
