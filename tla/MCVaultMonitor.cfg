SPECIFICATION Spec
CONSTANTS
    Names = {n1}
    MaxVersion = 2
    FullCredits = 3
    MaxIdx = 1
    QueueBound = 3
    Suspicion <- Either
    StepBound = 3
INVARIANTS
    TypeOK
    FlagsMeanAlert
    WritesNoticed
PROPERTIES
    NewAlertsAreNew
    AlertsAreReported
CHECK_DEADLOCK FALSE
