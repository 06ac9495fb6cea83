SPECIFICATION KeySpec
CONSTANTS
    Token = {t1, t2}
    Host = {}
    NoToken = NoToken
    MaxReg = 3
    MaxParks = 1
    MaxDirect = 1
    Key = {k1, k2}
    NoKey = NoKey
    MaxIssue = 2
    MaxTracked = 1
SYMMETRY KeySymmetry
INVARIANTS
    EnforcedServesOnlyProven
    ProvenCarriesPin
    ReadyLosesNothing
PROPERTIES
    PinNeverMovesBack
