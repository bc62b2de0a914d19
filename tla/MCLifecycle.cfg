SPECIFICATION FairSpec
CONSTANTS
    main = main
    metrics = metrics
    Servers = {main, metrics}
    MaxBusy = 2
INVARIANTS TypeOK NoErrorSwallowed GracefulExit
PROPERTIES SupervisorSpec SignalStops FailureStops
\* The process really ends.
CHECK_DEADLOCK FALSE
