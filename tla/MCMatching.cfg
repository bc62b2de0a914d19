SPECIFICATION Spec
CONSTANTS
    Priorities = {1, 5}
    Ids = {1, 2}
    Requests <- MCRequests
    MaxItems = 3
INVARIANTS CandidatesExact MoreSpecificWins Deterministic
\* The selection ends.
CHECK_DEADLOCK FALSE
