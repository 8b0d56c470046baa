SPECIFICATION FairSpec
CONSTANTS
    NumOps = 3
    Limit = 1
    QueueCapacity = 1
    InitialStatuses = {"ABSENT", "ROLLBACK_COMPLETE"}
    Changes = {"template"}
    Protections = {FALSE}
    Reviews = {"CANCEL", "CONTINUE", "CONTINUE_AND_SKIP_REMAINING_REVIEWS"}
    Confirmations = {"CANCEL", "CONTINUE_AND_REVIEW", "CONTINUE_NO_REVIEW"}
    HookResults = {"continue", "abort"}
    MayThrow = {}
    Options <- MCReviewOptions
INVARIANTS
    FailureStopsReview
PROPERTIES
    Terminates
