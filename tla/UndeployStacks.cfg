SPECIFICATION FairSpec
CONSTANTS
    NumOps = 3
    Limit = 2
    QueueCapacity = 1
    InitialStatuses = {"ABSENT", "CREATE_COMPLETE"}
    HookStatuses <- MCNoHookStatus
    Confirmations = {"CANCEL", "CONTINUE"}
    HookResults = {"continue", "skip", "abort"}
    MayThrow = {"initiate-stack-delete", "wait-stack-delete-complete"}
    Options <- MCAllOptions
INVARIANTS
    TypeOK
    DependentsGone
    FailureStopsDependencies
    OutputTruthful
    NoSlotDeadlock
PROPERTIES
    ImplementsStackOperations
    Terminates
