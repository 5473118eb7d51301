SPECIFICATION Spec
CONSTANTS
    Writers = {w1}
    Responses = {1, 2}
    Points = {p1, p2}
    PointOf <- TwoPointsOf
    ShortDay <- ShortIsFive
    Events = {}
    Linked = {1}
    None = None
    p1 = p1
    p2 = p2
    RetentionDays = 1
    AheadDays = 1
    AlertDays = 1
    LockAttempts = 2
    DeferralLimit = 1
    FirstDays = {1, 2, 3, 4, 5}
    OperatorUses = 0
    MaxDay = 5
CONSTRAINT ForwardKept
CHECK_DEADLOCK FALSE
INVARIANTS
    DroppedDayNeverFailsBatch
