SPECIFICATION Spec
CONSTANTS
    MaxVersion = 3
    Inodes <- MCInodes
    Commands = {"change", "export", "quit"}
    Faults = {}
    FaultBound = 0
INVARIANTS
    CtrlCSaves
CHECK_DEADLOCK FALSE
