SPECIFICATION TFairSpec
CONSTANTS
    r1 = r1
    r2 = r2
    NoMapping = NoMapping
    Requests <- MCRequests
    Mappings <- MCMappings
    Mode <- MCMode
    Names <- MCNames
    Size <- MCSize
    Response <- MCResponse
    Verbosities <- MCVerbosities
    Redact = TRUE
    Limit = 4
    RequestBody <- MCRequestBody
    ServedBody <- MCServedBody
    ErrorBody <- MCErrorBody
INVARIANTS TypeOK InFlightExact TruthfulStatus NoSilentDrop RotationInMetrics
INVARIANTS LoggedAsCounted BodyLogged
PROPERTIES SentOnce LedgerSpec EveryRequestFinishes
\* The behaviour ends when the bounded set of requests is used up.
CHECK_DEADLOCK FALSE
