CONSTANTS
    SlotThread = {t1, t2}
    Signal = {s1}
    Slot = {p1}
    SlotsLock = TRUE
SPECIFICATION LocksSpec
INVARIANTS
    NoLockCycle
