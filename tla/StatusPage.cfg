CONSTANTS
    Jobs = {a, b}
    Mine = {a}
    MaxGets = 2
    MaxRuns = 2
    MaxStrays = 1
SPECIFICATION StatusSpec
INVARIANTS
    StatusTypeOK
    ActsOnTheRunAsked
CHECK_DEADLOCK FALSE
