CONSTANTS
    Modulus = 8
    Explicit = FALSE
    Promoted = TRUE
    Word = 16
    MaxPosition = 20
    WindowLength = 3
    Sample = {0, 1, 2, 3}
    MaxTime = 6
    Value = {0, 1, 2, 3}
    Percentile <- Percentiles
    MaxSize = 7
    WindowSize = 5
    Fed = {0, 1, 3}
    Infinity = 9
    MaxFed = 4
    RollingLength = 3
SPECIFICATION Spec
INVARIANTS
    UnwrapFollowsPosition
    UnwrapperFollowsPosition
    MaxIsWindowMaximum
    FiltersAtPercentile
    StatisticsAreExact
    RollingReportsWindow
