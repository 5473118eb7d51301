SPECIFICATION Spec
CONSTANTS
    r1 = r1
    r2 = r2
    r3 = r3
    k1 = k1
    None = None
    Runs = {r1, r2}
    DagsterRuns = {r2}
    DatasetOf <- OneDataset
    Keys = {k1}
    KeysOf <- AllKeysOf
    Contradicted = {}
    Rank <- RankOf
    Lease = 0
    Horizon = 1
    PageLimit = 1
    MaxBatches = 1
    MaxFaults = 0
CHECK_DEADLOCK FALSE
INVARIANTS
    OneRunningPerDataset
    LoadedIsExact
    StatusIsCurrent
PROPERTIES
    LiveRunsSurvive
