CONSTANTS
    Element = {1, 2}
    Raw = Raw
    MaxElements = 4
    MaxReserve = 5
    Task = {1, 2}
    NoTask = NoTask
    kMinimumRingSize = 3
    kReclaimThreshold = 2
    MaxTasks = 6
    Item = {1, 2, 3, 4, 5, 6}
    Key = {1, 2}
    Invalid = Invalid
    Observer = {o1, o2, o3}
    NoObserver = NoObserver
    MaxIterations = 2
    MaxStored = 4
    MaxCallbacks = 4
    MaxNesting = 3
    OnceReentrant = FALSE
SPECIFICATION Spec
INVARIANTS
    CircularDequeIsSequence
    LazyDequeIsSequence
    HeapOrderedAndHandled
    ObserversAllNotified
    IteratorsNeverInvalidated
    NoCallbackMissed
\* A list that was destroyed, and all callbacks that may be added, end a behaviour.
CHECK_DEADLOCK FALSE
