SPECIFICATION Spec
CONSTANTS
    NumOps = 1
    Limit = 1
    QueueCapacity = 0
    InitialStatuses = {"ABSENT"}
    Changes = {"template"}
    Protections = {FALSE}
    Reviews = {"CANCEL", "CONTINUE", "CONTINUE_AND_SKIP_REMAINING_REVIEWS"}
    Confirmations = {"CONTINUE_AND_REVIEW"}
    HookResults = {"continue"}
    MayThrow = {}
    Options <- MCNoOption
INVARIANTS
    TemporaryStackGone
