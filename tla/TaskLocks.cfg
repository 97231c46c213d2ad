CONSTANTS
    p1 = p1
    p2 = p2
    w1 = w1
    w2 = w2
    c1 = c1
    Providers = {p1, p2}
    NTasks = 3
    DefaultTasks <- MCDefaultTasks
    UnkeyedTasks <- MCUnkeyedTasks
    HostProcs = {w1, w2}
    CeleryProcs = {c1}
SPECIFICATION Spec
INVARIANTS
    TypeOK
    RunsOnce
    LastTaskBeforeEnd
PROPERTIES
    TasksRun
CHECK_DEADLOCK FALSE
