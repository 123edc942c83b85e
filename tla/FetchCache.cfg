\* Two fetches at once of a video of either platform, a third after them.
SPECIFICATION FairSpec
CONSTANTS
    Fetchers = {f1, f2}
    Platforms = {"BILIBILI", "YOUTUBE"}
    ChunkCount = 2
    FileIds = {1, 2, 3, 4, 5, 6}
    NoFile = NoFile
    MaxFetches = 3
    MaxCrashes = 1
INVARIANTS
    TypeOK
    CacheCleanAtRest
    ServesWhole
    PartialIsTemporary
PROPERTIES
    FetchEnds
\* The system may stop: the fetches run out.
CHECK_DEADLOCK FALSE
