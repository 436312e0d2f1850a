CONSTANTS
    Cves = {"a", "b"}
    MaxEdition = 3
    Listed <- MCListed
    Settings <- MCSettings
    Deadline = 240
    MaxOutages = 3
    MaxFailures = 1
SPECIFICATION FairSpec
INVARIANTS CacheBacked
PROPERTIES BackOnlyThroughMirror LatestReturns MirrorServes HangingStarvesMirror
