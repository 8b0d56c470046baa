SPECIFICATION Spec
CONSTANTS
    NumOps = 2
    Limit = 2
    QueueCapacity = 0
    InitialStatuses = {"ABSENT", "ROLLBACK_COMPLETE"}
    Changes = {"template"}
    Protections = {FALSE}
    Reviews = {"CONTINUE"}
    Confirmations = {"CONTINUE_NO_REVIEW"}
    HookResults = {"continue", "skip"}
    MayThrow = {}
    Options <- MCNoOption
INVARIANTS
    SkippedDependencyCancels
