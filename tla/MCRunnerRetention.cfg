SPECIFICATION FairSpec
CONSTANTS
    Stage <- MCCore
    Ordinal <- MCCoreOrdinal
    Deps <- MCCoreDeps
    Final = "answer"
    Judge = "judge"
    Debate = "debate-round-1"
    Resource <- MCResource
    Need <- MCNeed
    Limit <- MCLimit
    MaxParallel = 1
    Deadline = 2
    Retain = 2
    Private = TRUE
    FragmentSize = {1}
    MaxFragments = 1
    MaxChars = 1
    MaxTime = 2
    MaxEpoch = 2
    Runs = {r1, r2}
    Slices = {0, 1}
    FalseStop = {}
PROPERTIES
    ExpirationDoesNotStrand
CHECK_DEADLOCK FALSE
