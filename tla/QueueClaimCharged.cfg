CONSTANTS
    Workers = {a}
    Leases = {1, 2, 3, 4, 5}
    MaxAttempts = 1
    WholeMillis = FALSE
    MaxRetries = 0
    Stalls = FALSE
    Outages = FALSE
SPECIFICATION FairSpec
PROPERTY EventuallyCharged
CHECK_DEADLOCK FALSE
