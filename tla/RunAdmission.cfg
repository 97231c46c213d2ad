CONSTANTS
    Requests = {q1, q2, q3, q4, q5}
    MaxRuns = 1
    OldRuns = 0
    MayFail = {q1}
SPECIFICATION Spec
INVARIANTS
    TypeOK
    BoundedExcess
PROPERTIES
    RequestsEnd
CHECK_DEADLOCK FALSE
