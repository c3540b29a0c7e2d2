SPECIFICATION Spec
CONSTANTS
    MaxInt = 1
    NameClass <- MCNameClass
    ErrNames = {"E1", "E2", "E3"}
    ReadOnlyTargets = {}
    Contracts <- MCContracts
    Files <- MCFiles
    MaxAllows = 1
    Libraries <- MCLibraries
    Impls <- MCImpls
    MaxCost = 100000

INVARIANTS
    SuggestionsKeepBehaviour
    DeadCodeIsFound
    EditorKnowsNames
    CostCoversRuns
    TraitCallsAreCounted
    CoverageIsFaithful
PROPERTIES
    AllowIsLocal
CHECK_DEADLOCK FALSE
