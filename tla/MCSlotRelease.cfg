SPECIFICATION AdmissionSpec
CONSTANTS
    j1 = j1
    j2 = j2
    Job = {j1, j2}
    Resource <- MCResource
    Quota <- MCQuota
    Deadline <- MCDeadline
    Policies <- MCPolicies
    Receipt = {q1}
    NoReceipt = NoReceipt
    NoPolicy = NoPolicy
    MaxTime = 3
    MaxEpoch = 2
    MaxRevision = 2
INVARIANTS
    UnattemptedReleasesSlot
CHECK_DEADLOCK FALSE
