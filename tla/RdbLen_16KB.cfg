SPECIFICATION LengthSpec
CONSTANT MaxLen = 16500
INVARIANT SupportedUpTo16KB
CHECK_DEADLOCK FALSE
