CONSTANTS
    f = f
    g = g
    none = none
    None = none
    Filters = {f, g}
    MaxPages = 3
    MaxRequests = 2
    MaxPolls = 1
    MaxEvents = 4
    MaxFailures = 1
    MaxRefreshes = 1
SPECIFICATION FairSpec
INVARIANTS OneWalk LoadingIsBacked
PROPERTIES NewsReachesList
CHECK_DEADLOCK FALSE
