CONSTANTS
    p1 = p1
    p2 = p2
    l1 = l1
    Licenses = {l1}
    Pings = {p1, p2}
    MaxInFlight = 2
    Limit = 2
    WarningAt = 1
SPECIFICATION SessionSpec
SYMMETRY PingSymmetry
INVARIANTS
    SessionTypeOK
    DeadlineWithinSession
CHECK_DEADLOCK FALSE
