SPECIFICATION FallbackFairSpec
CONSTANTS
    t1 = t1
    t2 = t2
    s1 = s1
    s2 = s2
    s3 = s3
    c1 = c1
    c2 = c2
    PoolToken <- MCToken
    Slot <- MCSlot
    Client <- MCClient
    NoClient = NoClient
    NoSlot = NoSlot
    SlotToken <- OneTokenSlots
    ClientToken <- OneTokenClients
CONSTRAINT ParkInOrder
INVARIANTS
    StreamOwnedOnce
PROPERTIES
    LiveParkKept
    ClientsSettle
CHECK_DEADLOCK FALSE
