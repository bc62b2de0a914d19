SPECIFICATION DSpec
CONSTANTS
    Half = 128
    Millisecond = 10
    Numbers <- MCNumbers
    None = None
INVARIANTS AcceptedNonNegative
\* A delay that is rejected is not drawn from.
CHECK_DEADLOCK FALSE
