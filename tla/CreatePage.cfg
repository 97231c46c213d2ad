CONSTANTS
    Providers = {p}
    MaxPosts = 2
    MaxLists = 2
    MaxChecks = 2
SPECIFICATION Spec
INVARIANTS
    TypeOK
    OverlayEnds
    
CHECK_DEADLOCK FALSE
