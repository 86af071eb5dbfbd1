SPECIFICATION UsageSpec
CONSTANTS
    j1 = j1
    j2 = j2
    j3 = j3
    Job = {j1, j2, j3}
    Standard <- MCStandard
    Fast <- MCFast
    Deadline <- MCDeadline
    Weeks <- MCWeeks
    NoWeek = NoWeek
    Receipt = {q1, q2, q3}
    NoReceipt = NoReceipt
    NoJob = NoJob
    MaxTime = 3
INVARIANTS
    OutstandingFits
PROPERTIES
    AdmittedAsCounted
    DebitedOnce
