SPECIFICATION FairSpec
CONSTANTS
    a = a
    b = b
    Side <- MCSide
    MaxSend <- MCMaxSend
    Capacity = 2
    Idle = 4
    Patience = 2
INVARIANTS
    HonestPeerNeverBlamed
    NoFalseTimeout
PROPERTIES
    ImplementsPromise
    
    CleanSessionSucceeds
CHECK_DEADLOCK FALSE
