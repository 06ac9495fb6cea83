SPECIFICATION RegSpec
CONSTANTS
    Token = {t1, t2}
    Host = {h1, h2}
    NoToken = NoToken
    MaxReg = 3
    MaxParks = 2
    MaxDirect = 1
SYMMETRY TokenSymmetry
INVARIANTS
    RevokedIsDown
    HostIndexExact
    GaugesExact
PROPERTIES
    RouteKeptWhileServed
