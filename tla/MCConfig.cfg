SPECIFICATION CSpec
CONSTANTS
    Nil = Nil
    Args <- MCArgs
    MaxArgs = 4
    Texts <- MCTexts
    Kind <- MCKind
    Default <- MCDefault
    Numbers <- MCNumbers
    Files <- MCFiles
    Legal <- MCLegal
    Readable <- MCReadable
INVARIANTS Precedence ScanAgrees
\* The start-up ends.
CHECK_DEADLOCK FALSE
