SPECIFICATION Spec
CONSTANTS
    Attempts = {a1, a2}
    Runs = {r1, r2}
    DagsterRuns = {}
    DatasetOf <- OneDataset
    Scopes = {s1}
    ChunkKeys = {k1}
    None = None
    s1 = s1
    n1 = n1
    n2 = n2
    small = small
    big = big
    Publishers = {p1, p2}
    Namespaces = {n1, n2}
    ScopeOf <- OneScopeOf
    Retrieval = {}
    Locations = {l1}
    LocationsOf <- AllLocationsOf
    Contents = {small}
    Points <- SmallAndBig
    MaxTime = 0
    MaxBatch = 1
    MaxCrashes = 1
CONSTRAINT CollectorOrder
SYMMETRY NativeSymmetry
CHECK_DEADLOCK FALSE
INVARIANTS
    OwnerFreezesHead
PROPERTIES
    ImplementsLog
