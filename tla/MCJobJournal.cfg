SPECIFICATION Spec
CONSTANTS
    Stage <- MCStage
    Ordinal <- MCOrdinal
    Deps <- MCDeps
    Final = "synthesis"
    Judge = "judge"
    Debate = "debate-round-1"
    Resource <- MCResource
    Need <- MCNeed
    Limit <- MCLimit
    MaxParallel = 2
    Deadline = 2
    Retain = 3
    Private = TRUE
    FragmentSize = {1, 2}
    MaxFragments = 2
    MaxChars = 3
    MaxTime = 3
    MaxEpoch = 3
INVARIANTS
    SuccessMeansWhole
    CancelWins
    OwnershipAgrees
    BudgetIsClaims
PROPERTIES
    ClosedIsFinal
    KeepsPromise
CHECK_DEADLOCK FALSE
