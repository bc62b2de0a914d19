SPECIFICATION Spec
CONSTANTS
    Names <- MCNames
    Disks <- MCDisks
    Strict = TRUE
    Itoa <- MCItoa
    Nil = Nil
INVARIANTS FirstErrorWins LoadedExactly GeneratedIDsDiffer LoadedServable LoadedUnderstood
\* LoadRoot returns.
CHECK_DEADLOCK FALSE
