SPECIFICATION Spec
CHECK_DEADLOCK FALSE
CONSTANTS
    Jobs = {"grid", "nowcast", "forecast", "mid", "mid_export", "kma_alerts", "airkorea",
            "airkorea_export", "regional", "regional_export", "beach_export", "alert_events",
            "kma_targets", "short_retention"}
    Units <- MCUnits
    LocsOf <- MCLocsOf
    PublishLocations = 1
    PublishValues = 2
    MaxValues = 5
    MaxRuns <- MCMaxRuns
    GroupOrder <- MCGroupOrder
    Responses <- MCResponses
    MaxGroups = 3
    MaxRows = 5
    ResponseRows = 2
    ResponseValues = 2
    StageValues = 2
    StageSources = 2
    FetchConcurrency = 2
    Retries = 1
    ValuePartialMin = 2
    StationOrder <- MCOffices
    MaxNotices = 2
    AlertLocations = 1
    AlertStageValues = 2
    AlertStageSources = 2
    AlertRounds = 1
    StarvedRuns = 2
    RunListExtra = 1
    AlertPartialMin = 2
    NoteIds = 2
    Stations <- MCStations
    RegionalStations = {"s1", "s2"}
    SidoOf <- MCSidoOf
    NameOf <- MCNameOf
    StationValues = {2}
    MaxRecords = 2
    PageSize = 1
    MaxPages = 3
    InitialNotices <- MCInitialNotices
    MaxNoticeId = 5
    Anchors = {1, 2, 3, 4, 5, 6}
    GridOf <- MCGridOf
    StationAnchors = {1, 2, 3, 4, 5}
    OptedIn = {}
    EnvTargets = {2}
    MaxGrids = 4
    FillGrids = 2
    MaxSlot = 3
    MaxEdits = 1
    Keys = {0, 1}
    PerHour = 1
    KeepHours = 1
    SweepHours = 2
    LagAlert = 0
    StallRuns = 2
    BatchRows = 1
    MaxBatches = 2
    MaxHour = 4
    MaxLate = 1
    MaxChanges = 1
INVARIANTS
    SuccessIsComplete
    StarvedIsReported
    RosterConfirmed
    FullSweep
    NothingHidesBeforePosition
    EveryNoticeOnce
    CancelledIsSealed
PROPERTIES
    LostRunPublishesNothing
    RunEnds
    PlansSettled
