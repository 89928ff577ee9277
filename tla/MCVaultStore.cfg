SPECIFICATION Spec
CONSTANTS
    Contents = {c1, c2}
    UserExts = {"", "txt", "enc"}
    Commands <- AllCommands
    None = None
    Torn = Torn
    MaxSeals = 2
    MaxUses = 3
    Faults <- AllFaults
    FaultBound = 2
SYMMETRY Symmetry
INVARIANTS
    TypeOK
    NothingElseIsLost
    CalmLeavesNothing
PROPERTIES
    
    StoredIsSealed
CHECK_DEADLOCK FALSE
