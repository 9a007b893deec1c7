SPECIFICATION Spec
CONSTANTS
    a1 = a1
    a2 = a2
    a3 = a3
    b1 = b1
    b2 = b2
    Components <- TheComponents
    SessCalls = {a1, a2, a3}
    Devices = {b1, b2}
    MaxSessionsPerUser = 1
    MaxSessFaults = 1
    BoardCalls = {a1, a2, a3}
    Entries = {b1, b2}
    TopN = 1
    Points = {1, 2}
    MaxBoardFaults = 1
    CartCalls = {a1, a2, a3}
    Units = {1, 2}
    Stock = 3
    MaxCartFaults = 1
    ShopCalls = {a1, a2, a3}
    Titles = {"t1", "t2"}
    MaxShopFaults = 1
    FeedCalls = {a1, a2, a3}
    FeedReaders = {b1, b2}
    FeedClips = {1, 2}
    FeedWindow = 1
    MaxFeedFaults = 1
    PresCalls = {a1, a2, a3}
    Gadgets = {b1, b2}
    OnlineThreshold = 1
    PresenceTTL = 2
    MemberTTL = 2
    MaxTick = 4
    MaxPresFaults = 1
    PageCalls = {a1, a2, a3}
    Films = {1, 2, 3}
    RankOf <- Ranks
    Recommendations <- SomeBuilds
    PageLimit = 1
    Spare = 1
    TrendFilms = {1, 2}
    FetchBatch = 2
    Viral = 2
    QueueSize = 1
    TrendCap = 1
    MaxViews = 2
    MaxPageFaults = 1
    ProfCalls = {a1, a2, a3}
    ProfNames = {"n1", "n2"}
    FirstName = "n1"
    MaxProfFaults = 1
    RecCalls = {a1, a2, a3}
    Fans = {b1, b2}
    Vids = {1, 2, 3}
    Published <- SomeEvents
    CreatorOf <- MadeBy
    TopKSimilarItems = 1
    MinInteractions = 1
    MaxConsecutive = 1
    FeedSize = 1
    SimilarAtFirst <- SimilarOnes
    TrendingNow = {1, 2}
    FollowedNow = {3}
    NearestNow = {2}
    Cats = {"c1", "c2"}
    ScoreUnit = 2
    MaxRecFaults = 1
    Docs = {1, 2, 3}
    MaxChanges = 3
    QueueRoom = 2
    BatchSize = 2
    PerPage = 1
    Savers = {b1, b2}
    Terms = {"t1", "t2", "t3"}
    HistorySize = 2
    SuggestLimit = 2
    MaxSearchFaults = 1
INVARIANTS
    TypesOK
    CachesAreTrue
    ShopIsTrue
    WhatIsServed
SYMMETRY Symmetry
CHECK_DEADLOCK FALSE
