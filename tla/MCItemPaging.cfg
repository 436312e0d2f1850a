CONSTANTS
    none = none
    Null = none
    NoCursor = none
    Writes <- AllWrites
    NewsWrites <- FeedWrites
    Items = {1, 2, 3}
    News = {2}
    Zoned = {1, 3}
    Limit = 1
    MaxChanges = 3
SPECIFICATION PagingFairSpec
INVARIANTS SteadyOnce BestIsKept LastWordCounts
PROPERTIES WalkEnds
CHECK_DEADLOCK FALSE
