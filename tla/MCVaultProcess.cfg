SPECIFICATION Spec
CONSTANTS
    MaxVersion = 3
    Inodes <- MCInodes
    Commands = {"change", "export", "sandbox", "quit"}
    Faults = {"open", "write", "rename"}
    FaultBound = 1
INVARIANTS
    TypeOK
    DatIsWhole
    ReportedIsSaved
    MonitorIsOut
PROPERTIES
    NoChangeWhileSaving
    ChangesEnd
    ShutdownEnds
CHECK_DEADLOCK FALSE
