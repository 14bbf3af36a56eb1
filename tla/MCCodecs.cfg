SPECIFICATION MCSpec
CONSTANTS
    MaxLen = 16500
    Byte <- MCByte
    Word <- MCWord
    MaxArgs = 2
    Noise <- MCNoise
INVARIANTS
    FaithfulRoundTrip
    DamageIsShort
    RequestsSurviveCuts
PROPERTY VerdictIsFinal
CHECK_DEADLOCK FALSE
