SPECIFICATION Spec
CONSTANTS
    Writers = {w1}
    Responses = {1, 2}
    Points = {p1}
    PointOf <- OnePointOf
    ShortDay <- ShortIsThree
    Events = {2}
    Linked = {2}
    None = None
    p1 = p1
    p2 = p2
    RetentionDays = 1
    AheadDays = 1
    AlertDays = 1
    LockAttempts = 2
    DeferralLimit = 1
    FirstDays = {1}
    OperatorUses = 1
    MaxDay = 4
CONSTRAINT LastDayQuiet
CHECK_DEADLOCK FALSE
INVARIANTS
    LineageKept
    MissedTwiceIsOverdue
PROPERTIES
    RetainedNeverDropped
