SPECIFICATION FairSpec
CONSTANTS
    t1 = t1
    t2 = t2
    t3 = t3
    Threads <- MCThreads
    NoThread = NoThread
    N = 3
    Weights <- MCWeights
    MaxInt = 7
    MaxCalls = 4
INVARIANTS TypeOK Balanced WeightedShare PanicOnlyOnOverflow
PROPERTIES EveryCallEnds RotationSpec
\* The behaviour ends when the bounded calls were made.
CHECK_DEADLOCK FALSE
