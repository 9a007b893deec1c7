SPECIFICATION Spec
CONSTANTS
    a1 = a1
    a2 = a2
    a3 = a3
    b1 = b1
    b2 = b2
    Components <- TheComponents
    Calls = {a1, a2, a3}
    Limit = 2
    Window = 2
    Capacity = 2
    Refill = 1
    Sizes = {2}
    MaxDelay = 1
    MaxClock = 4
    MaxRateFaults = 1
    LastEvent = 3
    Malformed = {3}
    ModSlots = 2
    Levels = {0, 50, 90}
    Texts <- TwoTexts
    MaxSessions = 2
    MaxModFaults = 2
    Works = {w1, w2}
    Visits = {a1, a2, a3}
    MaxAppeals = 1
    MaxReviewFaults = 1
    Persons = {"u1", "u2"}
    Parts = {"p1", "p2"}
    Topic <- TwoPartitions
    Tokens = {"t1"}
    Edits = {"e1", "e2"}
    Wish <- TwoWishes
    Threshold = 2
    Budgets <- SomeDisturbances
    Fans = {b1, b2}
    Acts = {a1, a2, a3}
    MaxActFaults = 1
    Creatives = {"ad"}
    AdRequests = {a1, a2, a3}
    CapPerDay = 2
    Bid = 2
    MinBid = 1
    PricePremium = 1
    OwnECPM = {0, 2}
    OtherECPM = {0, 1}
    DailyBudgets = {2, 4}
    Profiles <- TwoUsers
    Targeting <- OneCountry
    MaxAdFaults = 1
INVARIANTS
    TypesOK
    LimitsHold
    PositionIsEarned
    DecisionsStand
    NotificationsAreKept
    LikesAddUp
    AdsAreAccounted
SYMMETRY Symmetry
CHECK_DEADLOCK FALSE
