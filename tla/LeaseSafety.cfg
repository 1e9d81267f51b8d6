CONSTANTS
    Workers = {a, b}
    NoWorker = NoWorker
    LeaseTtl = 3
    StaleAge = 3
    TakeoverGrace = 1
    Watchdog = 1
    Heartbeat = 1
    RedisTimeout = 1
    PgTimeout = 0
    MaxFence = 2
SYMMETRY Interchangeable
SPECIFICATION Spec
INVARIANTS
    FenceUnique
    RowIsAuthority
    ReleasedMeansClosed
PROPERTIES
    OnlyLostLeasesAreFenced
    ImplementsContract
