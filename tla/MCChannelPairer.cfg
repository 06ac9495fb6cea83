SPECIFICATION FairSpec
CONSTANTS
    a1 = a1
    a2 = a2
    b1 = b1
    Leg <- MCLeg
    HolderOf <- MCHolderOf
    Phases <- MCPhases
    Keepalive <- MCKeepalive
    ParksPerMember = 1
INVARIANTS
    NoStrandedPair
    SessionStartsClean
PROPERTIES
    LiveParkNeverLost
    
CHECK_DEADLOCK FALSE
