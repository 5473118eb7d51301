SPECIFICATION FairSpec
CONSTANTS
    Attempts = {a1, a2}
    Runs = {r1}
    DagsterRuns = {r1}
    DatasetOf <- OneDataset
    Scopes = {s1}
    ChunkKeys = {k1, k2}
    None = None
    s1 = s1
    n1 = n1
    n2 = n2
    small = small
    big = big
    Publishers = {p1}
    Namespaces = {n1}
    ScopeOf <- OneScopeOf
    Retrieval = {}
    Locations = {}
    LocationsOf <- AllLocationsOf
    Contents = {small}
    Points <- SmallAndBig
    MaxTime = 0
    MaxBatch = 1
    MaxCrashes = 1
CONSTRAINT SecondChunkAlone
CHECK_DEADLOCK FALSE
INVARIANTS
    PublishedComplete
    PublishedRunsSucceeded
PROPERTIES
    SealedOwnerSurvives
    PublishableIsPublished
    EndedIsSettled
