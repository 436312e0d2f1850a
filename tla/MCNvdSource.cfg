CONSTANTS
    Records = {1, 2, 3}
    PageSize = 1
    PageLimit = 2
    Overlap = 1
    InitialWindow = 2
    ResetWindow = 1
    MaxWindow = 2
    Lag = 1
    Start = 1
    MaxTime = 4
    MaxChanges = 1
    MaxFailures = 1
SPECIFICATION FairSpec
INVARIANTS NoGap
PROPERTIES HorizonMovesOnlyAfterOutage EveryChangeArrives
CHECK_DEADLOCK FALSE
