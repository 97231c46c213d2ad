CONSTANTS
    Me = a
    Others = {b}
    Groups = {g}
    MaxFlying = 1
    MaxChanges = 1
    MaxOthers = 1
    MaxUsers = 1
    Header = Header
    None = None
SPECIFICATION Spec
PROPERTIES
    LeavesOnlyIfAsked
CHECK_DEADLOCK FALSE
