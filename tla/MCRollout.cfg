SPECIFICATION RolloutSpec
CONSTANTS
    Engine = {"core", "ultra"}
    N = 2
    Weight <- MCWeight
    Operator = {o1, o2}
    NoIntent = NoIntent
    NoView = NoView
    Validity = 1
    MaxHistory = 6
    MaxTime = 1
INVARIANTS
    ConfirmedIsReal
    RoomForRollback
PROPERTIES
    NoExposureAfterRollback
SYMMETRY OperatorSymmetry
