SPECIFICATION SplicesFairSpec
CONSTANTS
    l1 = l1
    l2 = l2
    g1 = g1
    Recheck = Recheck
    SpliceLeg = {l1, l2}
    Grant = {g1}
    GrantOf <- MCGrantOf
    QueryTimeout = 1
    CacheTtl = 2
    NegTtl = 1
    CleanTtl = 1
PROPERTIES
    StaleYesBounded
    
    WithdrawnLegsEnd
CHECK_DEADLOCK FALSE
