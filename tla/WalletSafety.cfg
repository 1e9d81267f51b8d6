CONSTANTS
    Attempts = {x, y}
    Staff = {s, u}
    Keys = {k, l, m}
    Topups = {t}
    Rates = {1, 2}
    Signup = 3
    Credit = 2
    LowThreshold = 3
SYMMETRY Interchangeable
SPECIFICATION Spec
INVARIANTS TypeOK LedgerContinues RefundReversesDebit TopupPaidOnce 
CHECK_DEADLOCK FALSE
