SPECIFICATION Spec
CONSTANTS
    NumOps = 1
    Limit = 1
    QueueCapacity = 0
    InitialStatuses = {"CREATE_COMPLETE"}
    HookStatuses <- MCHookStatuses
    Confirmations = {"CONTINUE"}
    HookResults = {"continue"}
    MayThrow = {}
    Options <- MCConfirmed
INVARIANTS
    AfterHooksMatchStatus
