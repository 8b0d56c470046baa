CONSTANTS
    NumGroups = 3
    NumTargets = 4
    Label <- MCLabel
    ConfigSet <- MCConfigSet
    Inputs <- MCInputs
    QueueCapacity = 1
SPECIFICATION FairSpec
INVARIANTS
    TypeOK
    SelectionExact
    BegunInOrder
    ReviewsNeverOverlap
    FailureCancelsRest
    OutputTruthful
    ReduceComplete
PROPERTIES
    Terminates
    ImplementsStackOperations
