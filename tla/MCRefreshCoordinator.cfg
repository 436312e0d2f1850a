CONSTANTS
    a1 = a1
    a2 = a2
    scheduler = scheduler
    free = free
    ApiCallers = {a1, a2}
    Tasks = {scheduler}
    Free = free
    Capacity = 1
    MaxCalls = 4
    MaxRestarts = 1
SPECIFICATION FairSpec
INVARIANTS StatusIsTruthful BusyIsBacked
PROPERTIES ImplementsSingleFlight JobsEnd CallsReturn
CHECK_DEADLOCK FALSE
