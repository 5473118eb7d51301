SPECIFICATION Spec
CHECK_DEADLOCK FALSE
CONSTANTS
    Styles = {"current", "forecast", "mid", "daily", "locations"}
    Clients = {"c1"}
    Locations = {1, 2}
    ScopeOf <- MCScopeOf
    Limit = 1
    TTL = 2
    Period = 2
    Reach = 2
    MaxAge = 1
    Window = 1
    Expiry = 2
    Lag <- MCLag
    MaxGens <- MCMaxGens
    MaxSnaps <- MCMaxSnaps
    MaxNow = 3
    MaxEdits = 1
    FileReaders = {"f1", "f2", "f3"}
    FileWriters = {"w1", "w2"}
    Slots = 2
    GuardAttempts = 2
    Attempts = {1, 2, 3}
    Runs = {"r1", "r2"}
    RunOf <- MCRunOf
    NativeRuns = {}
    Undeclared = {3}
    Broken = {1}
    CandidatePage = 1
    RunWindow = 1
    TickAttempts = 4
    TickErrors = 2
    MaxFaults = 1
    MaxEvents = 1
INVARIANTS
    DeltaMissesNothing
    SomebodyGetsIn
    EveryCandidateConsidered
PROPERTIES
    OkIsWhole
