SPECIFICATION Spec
CONSTANTS
    a = a
    b = b
    c = c
    Values = {a, b, c}
    Limit = 3
SYMMETRY Symmetry
INVARIANTS ExactlySound ExactlyCompleteForEqualTo
\* The loop ends.
CHECK_DEADLOCK FALSE
