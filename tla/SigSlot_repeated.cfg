CONSTANTS
    Signal = {s1}
    Slot = {p1, p2}
    MaxConn = 3
    MaxDepth = 1
    Repeated = TRUE
SPECIFICATION Spec
INVARIANTS
    NextCallIsLive
