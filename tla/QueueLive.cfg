CONSTANTS
    Workers = {a}
    Leases = {1, 2, 3, 4, 5}
    MaxAttempts = 1
    WholeMillis = TRUE
    MaxRetries = 1
    Stalls = FALSE
    Outages = FALSE
SPECIFICATION FairSpec
PROPERTIES ProcessingEnds DispatchedIsDecided EventuallyCharged
CHECK_DEADLOCK FALSE
