SPECIFICATION FairSpec
CONSTANTS
    Stage <- MCUltra
    Ordinal <- MCUltraOrdinal
    Deps <- MCUltraDeps
    Final = "synthesis"
    Judge = "judge"
    Debate = "debate-round-1"
    Resource <- MCResource
    Need <- MCNeed
    Limit <- MCLimit
    MaxParallel = 2
    Deadline = 1
    Retain = 3
    Private = TRUE
    FragmentSize = {1}
    MaxFragments = 1
    MaxChars = 1
    MaxTime = 1
    MaxEpoch = 3
    Runs = {r1, r2}
    Slices = {0, 3}
    FalseStop = {2}
INVARIANTS
    AttemptsAreHeld
    FinishAccepted
    CalledOnce
PROPERTIES
    OwnershipEnds
    CancelCloses
CHECK_DEADLOCK FALSE
