SPECIFICATION TwoSpec
CONSTANTS
    alice = alice
    bob = bob
    kBuy = kBuy
    kGift = kGift
    kBack = kBack
    kTip = kTip
    kSub = kSub
    kOut = kOut
    Nobody = Nobody
    Users = {alice, bob}
    Keys = {kGift, kBack, kOut}
    Requests = {r1, r2, r3}
    Intent <- MCIntent
    SharePercent = 50
    Opening <- EverybodyOpen
    OpeningCoins <- ThreeCoins
    OpeningDiamonds <- OneDiamond
    PoolSize = 4
    Listings = {l1, l2, l3}
    Singles = {s1}
    Connections = 2
    MaxItems = 2
PROPERTIES
    RequestsFinish
    RequestsAreAnswered
CHECK_DEADLOCK FALSE
