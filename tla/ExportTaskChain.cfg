CONSTANTS
    NTasks = 3
    AbortTasks = {2}
    MaxUpdates = 1
SPECIFICATION Spec
INVARIANTS
    TypeOK
    PassedTasksFinished
    CancelReachesUnstarted
    CanceledNeverRuns
    FileRecorded
    NothingSucceedsAfterAbort
    ClosedIsFinished
PROPERTIES
    ChainSettles
    LifecycleSpec
CHECK_DEADLOCK FALSE
