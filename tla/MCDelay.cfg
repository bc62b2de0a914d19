SPECIFICATION DSpec
CONSTANTS
    Half = 128
    Millisecond = 10
    Numbers <- MCNumbers
    None = None
INVARIANTS AcceptedExactly DrawnAsConfigured PanicOnlyOnOverflow
\* A delay that is rejected is not drawn from.
CHECK_DEADLOCK FALSE
