CONSTANTS
    MaxCallbacks = 3
    MaxNesting = 2
    OnceReentrant = TRUE
SPECIFICATION CallbackSpec
INVARIANT IteratorsNeverInvalidated
CHECK_DEADLOCK FALSE
