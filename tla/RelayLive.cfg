CONSTANTS
    k = k
    hook = hook
    s = s
    t = t
    Events = {1, 2, 3}
    NoKey = NoKey
    Key <- KeyOfEvents
    Hooked = {2, 3}
    Malformed = {1}
    Ephemeral = {1}
    Limit = 2
    DepthLimit = 2
    Ceiling = 2
    Drains = {1, 2}
    Endpoints = {hook}
    Senders = {s, t}
    NoEvent = NoEvent
    NoEndpoint = NoEndpoint
    MaxAttempts = 2
    Threshold = 1
    Slow = FALSE
    MaxCrashes = 1
    MaxPatches = 1
SPECIFICATION FairSpec
INVARIANTS TypeOK DisabledOnce
 
CHECK_DEADLOCK FALSE
