SPECIFICATION Spec
CONSTANTS
    a = a
    b = b
    c = c
    Values = {a, b, c}
    Limit = 3
SYMMETRY Symmetry
INVARIANTS ExactlyComplete
\* The loop ends.
CHECK_DEADLOCK FALSE
