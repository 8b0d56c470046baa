SPECIFICATION Spec
CONSTANTS
    NumOps = 3
    Limit = 2
    QueueCapacity = 1
    InitialStatuses = {"ABSENT", "CREATE_COMPLETE", "ROLLBACK_COMPLETE"}
    Changes = {"template"}
    Protections = {FALSE}
    Reviews = {"CONTINUE"}
    Confirmations = {"CONTINUE_NO_REVIEW"}
    HookResults = {"continue", "skip"}
    MayThrow = {"prepare-template"}
    Options <- MCAutoConfirm
INVARIANTS
    DependenciesFirst
    FailureStopsDependents
    DependenciesDeployed
    NoSlotDeadlock
    OutputComplete
PROPERTIES
    ImplementsStackOperations
