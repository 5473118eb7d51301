SPECIFICATION FairSpec
CONSTANTS
    r1 = r1
    r2 = r2
    r3 = r3
    k1 = k1
    None = None
    Runs = {r1, r2}
    DagsterRuns = {r1, r2}
    DatasetOf <- OwnDataset
    Keys = {k1}
    KeysOf <- AllKeysOf
    Contradicted = {r2}
    Rank <- RankOf
    Lease = 0
    Horizon = 0
    PageLimit = 2
    MaxBatches = 0
    MaxFaults = 1
CHECK_DEADLOCK FALSE
PROPERTIES
    AbandonedIsReaped
    TerminalsAreShown
