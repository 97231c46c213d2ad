CONSTANTS
    Me = a
    Others = {b}
    Groups = {g}
    MaxFlying = 2
    MaxChanges = 2
    MaxOthers = 1
    MaxUsers = 2
    Header = Header
    None = None
SPECIFICATION Spec
INVARIANTS
    TypeOK
    OwnChangesShown
    SelectionIsListed
CHECK_DEADLOCK FALSE
