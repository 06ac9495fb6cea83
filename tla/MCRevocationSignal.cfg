SPECIFICATION SignalFairSpec
CONSTANTS
    t1 = t1
    t2 = t2
    r1 = r1
    r2 = r2
    r3 = r3
    Token <- MCToken
    Relay <- MCRelay
    RelayToken <- MCRelayToken
    NoToken = NoToken
    MaxTick = 3
INVARIANTS
    NoMissedRevocation
PROPERTIES
    RevokedRelaysStop
    NoRouteAfterRevoke
CHECK_DEADLOCK FALSE
