SPECIFICATION FairSpec
CONSTANTS
    a1 = a1
    a2 = a2
    a3 = a3
    p1 = p1
    d1 = d1
    d2 = d2
    w1 = w1
    w2 = w2
    None = None
    Attempts = {a1, a2, a3}
    Pointers = {p1}
    PointersOf <- OnePointer
    Digests = {d1, d2}
    FilesOf <- SameContent
    Readers = {r1}
    DailyWorkers = {w1, w2}
    TTL = 0
    Retention = 0
    Grace = 0
    PruneRetain = 0
    LatestSnapshots = 1
    DailyLimit = 1
    Horizon = 1
    MaxHandles = 1
    MaxStops = 1
CONSTRAINT TroublesApart
CHECK_DEADLOCK FALSE
INVARIANTS
    PublishedFilesPresent
PROPERTIES
    GarbageIsCollected
