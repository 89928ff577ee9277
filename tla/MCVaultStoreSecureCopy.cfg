SPECIFICATION Spec
CONSTANTS
    Contents = {c1, c2}
    UserExts = {"txt", "pdf"}
    Commands = {"secure"}
    None = None
    Torn = Torn
    MaxSeals = 2
    MaxUses = 2
    Faults = {}
    FaultBound = 0
SYMMETRY Symmetry
INVARIANTS
    NothingIsLost
CHECK_DEADLOCK FALSE
