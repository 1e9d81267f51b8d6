CONSTANTS
    MaxFence = 1
    MaxAttempts = 2
    FreeRestarts = 2
    UnknownLimit = 2
SPECIFICATION FairSpec
INVARIANTS
    TypeOK
    
    
PROPERTIES
    
    ParkedIsReleased
