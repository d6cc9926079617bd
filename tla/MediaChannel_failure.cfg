CONSTANTS
    Thread = {worker, engine}
    Interface = {i1, i2}
    NoInterface = none
    NoThread = nobody
    Dscp = {default, expedited}
    DscpDefault = default
SPECIFICATION ChannelSpec
INVARIANTS
    SuccessMeansApplied
