CONSTANTS
    a = a
    b = b
    i = i
    p = p
    q = q
    exempt = exempt
    Instances = {i}
    Loops = {a, b}
    Jobs = {p, q, exempt}
    NoLoop = NoLoop
    NoJob = NoJob
    Kind <- KindOfJobs
    Of <- OfJobs
    Gaps = {1}
    Hour = 1
    Day = 3
    Open = 0
    Close = 1
    DailyCap = 3
    HourlyCap = 1
    NewCap = 1
    GroupCap = 2
    PlanCap = 2
    RatioFloor = 1
    RatioTop = 1
    RatioBottom = 2
    MaxTime = 3
    MaxUnits = 3
SYMMETRY Interchangeable
SPECIFICATION Spec
INVARIANTS
    TypeOK
    CountersMatchUnits
    CapsKept
    PlanNearlyKept
    RefundIsLast
CHECK_DEADLOCK FALSE
