CONSTANTS
    Runs = {r1, r2}
    NoEmail = {r2}
    Changes = {q1}
    Superusers = {q1}
    Lifetime = 4
    LongLead = 3
    ShortLead = 2
    Extension = 3
    LossDays = {2}
    LastDay = 5
    NoRun = NoRun
SPECIFICATION ExpirationSpec
INVARIANTS
    ExpirationTypeOK
PROPERTIES
    DeletedWasWarned
CHECK_DEADLOCK FALSE
