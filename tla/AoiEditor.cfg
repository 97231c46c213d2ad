CONSTANTS
    Shapes = {a, p}
    Flat = {p}
    MaxLookups = 1
    MaxUploads = 1
SPECIFICATION Spec
INVARIANTS
    TypeOK
    SelectionIsDrawn
    AreaBeforeNext
CHECK_DEADLOCK FALSE
