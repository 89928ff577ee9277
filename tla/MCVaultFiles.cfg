SPECIFICATION Spec
CONSTANTS
    Names = {x1, x2}
    Contents = {c1, c2}
    NoFile = NoFile
    Torn = Torn
    MaxKey = 2
    Faults <- AllFaults
    FaultBound = 2
INVARIANTS
    TypeOK
    SafeFilesSurvive
PROPERTIES
    EncryptSeals
    DecryptRestores
    CallsEnd
