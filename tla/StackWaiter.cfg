SPECIFICATION Spec
CONSTANTS
    Requests <- MCRequests
    MaxResourceEvents = 2
    MayFail = {"sleep", "cancel-update", "describe-stack", "poll"}
INVARIANTS
    TypeOK
    EventsInOrder
    CancelledUpdateRollsBack
PROPERTIES
    Terminates
    ImplementsOperationWait
CHECK_DEADLOCK FALSE
