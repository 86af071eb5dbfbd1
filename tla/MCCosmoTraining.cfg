SPECIFICATION TrainingSpec
CONSTANTS
    p1 = p1
    p2 = p2
    r1 = r1
    r2 = r2
    a1 = a1
    a2 = a2
    Process = {p1, p2}
    Request = {r1, r2}
    Adapter = {a1, a2}
    None = None
    LeaseTime = 1
    Validity = 2
    Deadline = 3
    Lead = 2
    Window = 1
    Recovery = 1
    MaxTime = 2
    MaxRecords = 5
    MaxEnvelopes = 2
    QuoteLife = 2
    PreflightLife = 2
    DriftsFrom <- MCDriftsFrom
    TrainTime = 1
    SaveLead = 0
CHECK_DEADLOCK FALSE
SYMMETRY TrainingSymmetry
INVARIANTS
    AnswersAreTheGrant
    OneRunTrains
    RecordIsTheCopy
    ReportedIsPreserved
