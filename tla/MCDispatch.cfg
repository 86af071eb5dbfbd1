SPECIFICATION FairRecovery
CONSTANTS
    Job = {j1}
    Resource <- MCResource
    Quota <- MCQuota
    Deadline <- MCDeadline
    Policies <- MCPolicies
    Receipt = {q1}
    NoReceipt = NoReceipt
    NoPolicy = NoPolicy
    MaxTime = 1
    MaxEpoch = 3
    MaxRevision = 1
    Worker = {w1, w2}
    NoWorker = NoWorker
    FalseStop = TRUE
    LostReplies = TRUE
    Revocable = {w1}
    MaxGeneration = 3
INVARIANTS
    QueueAgrees
    OneWorkerPerJob
PROPERTIES
    InterruptedIsNotReplayed
    CrashedClaimsEnd
CHECK_DEADLOCK FALSE
