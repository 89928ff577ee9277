SPECIFICATION Spec
CONSTANTS
    MaxVersion = 3
    Inodes <- MCInodes
    Commands = {"change", "export", "quit"}
    Faults = {}
    FaultBound = 0
PROPERTIES
    ExportEnds
CHECK_DEADLOCK FALSE
