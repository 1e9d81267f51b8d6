CONSTANTS
    Workers = {a, b}
    Leases = {1, 2, 3, 4, 5, 6, 7}
    MaxAttempts = 2
    WholeMillis = TRUE
    MaxRetries = 1
    Stalls = FALSE
    Outages = FALSE
SYMMETRY Interchangeable
SPECIFICATION Spec
INVARIANTS  OneDispatched PaidForDelivered ChargedOnce
CHECK_DEADLOCK FALSE
