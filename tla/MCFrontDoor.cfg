SPECIFICATION FDSpec
CONSTANTS
    t1 = t1
    t2 = t2
    h1 = h1
    Token <- MCToken
    Host <- MCHost
    NoToken = NoToken
    MaxReg = 2
    MaxParks = 0
    MaxDirect = 1
    Browser = {b1}
    Registry <- MCRegistry
    MaxPush = 1

    
    
PROPERTIES
    ImplementsRegistry
CHECK_DEADLOCK FALSE
