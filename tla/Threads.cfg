CONSTANTS
    Handle = {h1, h2}
    Storage = {m1, m2, m3}
    Null = Null
    Byte = {a, b}
    MaxLen = 2
    EmptyInputs = FALSE
    LockThread = {t1, t2, t3}
    kSpinCount = 2
    kMaxBackoff = 2
    QueueSize = 3
    MaxUnseen = 6
    Refptr = {p1, p2, p3}
    Object = {o1, o2, o3}
    NoObject = NoObject
    Thread = {worker, engine}
    SlotThread = {worker, engine}
    SlotsLock = FALSE
    Signal = {s1, s2}
    Slot = {c1, c2}
    Interface = {i1, i2}
    NoInterface = none
    NoThread = nobody
    Dscp = {default, expedited}
    DscpDefault = default
SPECIFICATION ThreadsSpec
INVARIANTS
    RefsCountHandles
    ExclusiveWhileWriting
    EmitFindsItsSlots
    CallsOnlyLiveInterfaces
    SocketsFollowPreference
    MutexExcludes
    NoLostWakeup
    NoUnorderedAccess
    PointedToAreAlive
PROPERTIES
    ImplementsValues
    SomeoneLocks
