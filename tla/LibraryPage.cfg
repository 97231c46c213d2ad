CONSTANTS
    r1 = r1
    r2 = r2
    q1 = q1
    q2 = q2
    Runs = {r1, r2}
    Queries = {q1, q2}
    MaxPages = 2
SPECIFICATION Spec
SYMMETRY PageSymmetry
INVARIANTS
    TypeOK
    ListAnswersState
    DeletedIsGone
CHECK_DEADLOCK FALSE
