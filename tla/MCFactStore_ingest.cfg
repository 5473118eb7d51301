SPECIFICATION Spec
CONSTANTS
    Writers = {w1, w2}
    Responses = {1, 2}
    Points = {p1}
    PointOf <- OnePointOf
    ShortDay <- NoShort
    Events = {}
    Linked = {1}
    None = None
    p1 = p1
    p2 = p2
    RetentionDays = 1
    AheadDays = 1
    AlertDays = 1
    LockAttempts = 1
    DeferralLimit = 1
    FirstDays = {1}
    OperatorUses = 0
    MaxDay = 4
CONSTRAINT LastDayCalm
SYMMETRY Symmetry
CHECK_DEADLOCK FALSE
INVARIANTS
    OneRowPerResponse
    CurrentIsNewest
    PointersNameFacts
