SPECIFICATION Spec
CONSTANTS
    NumFiles = 3
    NumRegions = 2
    NumGroups = 4
    Blueprint = {shared}
    Parameter = {Parameter1}
    NotGiven = NotGiven
    References <- MCReferences
    Inputs <- MCDeploy
INVARIANTS
    UnknownDependencyIsUnknown
