SPECIFICATION Spec
CONSTANTS
    NumOps = 1
    Limit = 1
    QueueCapacity = 0
    InitialStatuses = {"ABSENT", "REVIEW_IN_PROGRESS", "ROLLBACK_COMPLETE", "CREATE_COMPLETE", "UPDATE_ROLLBACK_FAILED"}
    Changes = {"none", "policy", "template"}
    Protections = {TRUE, FALSE}
    Reviews = {"CANCEL", "CONTINUE", "CONTINUE_AND_SKIP_REMAINING_REVIEWS"}
    Confirmations = {"CANCEL", "CONTINUE_AND_REVIEW", "CONTINUE_NO_REVIEW"}
    HookResults = {"continue", "skip", "abort"}
    MayThrow <- MCAllSteps
    Options <- MCAllOptions
INVARIANTS
    TypeOK
    ConsentBeforeChange
    NoChangesMade
    SuccessMeansConfigured
    HooksPaired
