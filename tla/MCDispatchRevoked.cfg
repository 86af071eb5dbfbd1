SPECIFICATION FairDispatch
CONSTANTS
    Job = {j1}
    Resource <- MCResource
    Quota <- MCQuota
    Deadline <- MCDeadline
    Policies <- MCPolicies
    Receipt = {q1}
    NoReceipt = NoReceipt
    NoPolicy = NoPolicy
    MaxTime = 1
    MaxEpoch = 2
    MaxRevision = 1
    Worker = {w1, w2}
    NoWorker = NoWorker
    FalseStop = FALSE
    LostReplies = FALSE
    Revocable = {}
    MaxGeneration = 2
PROPERTY RevokedDispatchIsHeld
CHECK_DEADLOCK FALSE
