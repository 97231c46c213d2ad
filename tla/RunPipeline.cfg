CONSTANTS
    p1 = p1
    p2 = p2
    Providers = {p1, p2}
    TaskCount = 2
    Cancelable = {p1}
    Deletable = TRUE
    Editable = TRUE
    MaxRequests = 1
    MaxLosses = 1
SPECIFICATION Spec
INVARIANTS
    TypeOK
    FinalizedAfterProviders
    ZipIsComplete
    EndIsKept
PROPERTIES
    RunConcludes
    LifecycleSpec
CHECK_DEADLOCK FALSE
