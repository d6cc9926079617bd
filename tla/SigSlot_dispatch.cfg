CONSTANTS
    Signal = {s1, s2}
    Slot = {p1, p2}
    MaxConn = 4
    MaxDepth = 2
    Repeated = FALSE
SPECIFICATION FairSpec
INVARIANTS
    ConnectionsMirrored
    NextCallIsLive
    NoSlotMissed
    NoDoubleDelivery
PROPERTY EmissionEnds
