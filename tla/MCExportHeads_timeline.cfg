SPECIFICATION Spec
CONSTANTS
    Attempts = {a1, a2}
    Runs = {r1, r2}
    DagsterRuns = {}
    DatasetOf <- OneDataset
    Scopes = {s1}
    ChunkKeys = {k1}
    None = None
    s1 = s1
    n1 = n1
    n2 = n2
    small = small
    big = big
    Publishers = {p1}
    Namespaces = {n1}
    ScopeOf <- OneScopeOf
    Retrieval = {}
    Locations = {}
    LocationsOf <- AllLocationsOf
    Contents = {small, big}
    Points <- SmallAndBig
    MaxTime = 1
    MaxBatch = 1
    MaxCrashes = 0
CONSTRAINT UnrejectedOrder
SYMMETRY NativeSymmetry
CHECK_DEADLOCK FALSE
INVARIANTS
    ShrinkBounded
    FetchNeverOlder
    PinsReleased
    RevisionsInOrder
