CONSTANTS
    Entries <- MCEntries
    Keys <- MCKeys
    KeyOf <- MCKeyOf
    Linkless = {"linkless"}
    Window = 3
    Cap = 2
    NotStored = NotStored
    MaxDocs = 4
SPECIFICATION FeedFairSpec
INVARIANTS CacheBacked TagNamesContent
PROPERTIES Settles
CHECK_DEADLOCK FALSE
