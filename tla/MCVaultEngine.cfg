SPECIFICATION Spec
CONSTANTS
    MaxLevel = 3
    LayerCount <- Counts
    FirstBinary = 2
    Letters = {a, b}
    Faults <- AllFaults
    FaultBound = 2
SYMMETRY Symmetry
INVARIANTS
    TypeOK
    AppliedIsWhole
    NoPartialMaze
    ValidationIsExact
