CONSTANTS
    nvd = nvd
    feed = feed
    Sources = {nvd, feed}
    Concurrency = 1
    Base = 2
    Maximum = 3
    CountCap = 2
    MaxTime = 6
    MaxJobs = 3
    MaxCrashes = 1
SPECIFICATION Spec
INVARIANTS RefreshSurvives
CHECK_DEADLOCK FALSE
