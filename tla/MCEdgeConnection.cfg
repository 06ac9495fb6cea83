SPECIFICATION ConnFairSpec
CONSTANTS
    Conn = {c1, c2, c3}
    Cap = 2
    MaxReg = 3
INVARIANTS
    PermitCoversConnection
PROPERTIES
    OthersUndisturbed
    ClosedFreesPermit
    FailedAdmissionFreesPermit
CHECK_DEADLOCK FALSE
