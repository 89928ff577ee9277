SPECIFICATION Spec
CONSTANTS
    Names = {n1}
    MaxVersion = 2
    FullCredits = 3
    MaxIdx = 1
    QueueBound = 4
    Suspicion <- Never
    StepBound = 2
INVARIANTS
    ResolvedStaysResolved
CHECK_DEADLOCK FALSE
