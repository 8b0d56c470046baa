SPECIFICATION FairSpec
CONSTANTS
    NumFiles = 3
    NumRegions = 2
    NumGroups = 4
    Blueprint = {shared}
    Parameter = {Parameter1}
    NotGiven = NotGiven
    References <- MCReferences
    Inputs <- MCInputs
INVARIANTS
    TypeOK
    PlanRunnable
    PlanExact
    NothingLeftOut
    CyclicRejectedRightly
PROPERTIES
    Terminates
