CONSTANTS
    demo = demo
    torn = torn
    empty = empty
    Demo = demo
    Torn = torn
    Empty = empty
    Keep = 1
    Burst = 2
    MaxCommits = 1
    MaxStamps = 3
    MaxFaults = 1
    MaxPowerLosses = 1
SPECIFICATION FairSpec
INVARIANTS RecoveryPoint NothingLost RunsSelected
PROPERTIES ServiceReturns
CHECK_DEADLOCK FALSE
