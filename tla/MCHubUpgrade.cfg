SPECIFICATION FairSpec
CONSTANTS
    MaxOps = 2
    Requests = {r1, r2}
INVARIANTS
    TypeOK
    ExclusiveUnlessLate
    ReportsOutcome
PROPERTIES
    PhasesAdvance
    SlotFrees
CHECK_DEADLOCK FALSE
