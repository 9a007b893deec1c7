SPECIFICATION Spec
CONSTANTS
    alice = alice
    bob = bob
    kBuy = kBuy
    kGift = kGift
    kBack = kBack
    kTip = kTip
    kSub = kSub
    kOut = kOut
    Nobody = Nobody
    Users = {alice, bob}
    Keys = {kBack}
    Requests = {r1, r2}
    Intent <- MCIntent
    SharePercent = 50
    Opening <- EverybodyOpen
    OpeningCoins <- ThreeCoins
    OpeningDiamonds <- OneDiamond
    PoolSize = 3
INVARIANTS
    ProcessedOncePerKey
CHECK_DEADLOCK FALSE
