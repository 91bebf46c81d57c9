SPECIFICATION ServerFairSpec
CONSTANTS
    MaxPacket = 5
    Clients = {c1, c2}
INVARIANTS
    NoLostWakeup
    DeliveredInOrder
    LeftForTheNext
    OutlivesItsUsers
PROPERTIES
    AwaitedIsDelivered
    ServerEnds
CHECK_DEADLOCK FALSE
