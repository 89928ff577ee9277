SPECIFICATION Spec
CONSTANTS
    MaxCalls = 2
    Faults <- AllFaults
    FaultBound = 2
INVARIANTS
    TypeOK
    SessionConfined
    NothingIsLeft
PROPERTIES
    IdsAreFixed
    SetupEnds
CHECK_DEADLOCK FALSE
