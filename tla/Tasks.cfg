CONSTANTS
    signaling = signaling
    worker = worker
    app = app
    Thread = {signaling, worker, app}
    MayCall <- Downwards
    Destructor = signaling
    MaxDepth = 3
    Op = {o1, o2, o3}
SPECIFICATION TasksSpec
INVARIANTS
    CallsRunOnceWhileAwaited
    MethodsFindTheirObject
    OnlyFrontRuns
    FunctorOutlivesRun
PROPERTIES
    CallsReturn
    EveryOperationCompletes
\* All operations may be done.
CHECK_DEADLOCK FALSE
