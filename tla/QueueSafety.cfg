CONSTANTS
    Workers = {a, b}
    Leases = {1, 2, 3, 4, 5, 6}
    MaxAttempts = 1
    WholeMillis = TRUE
    MaxRetries = 1
    Stalls = TRUE
    Outages = FALSE
SYMMETRY Interchangeable
SPECIFICATION Spec
INVARIANTS OneAttemptPerLease SentWasDelivered
PROPERTY TerminalIsFinal
CHECK_DEADLOCK FALSE
